----------------------------- MODULE MCFileStore -----------------------------
(* Instances of FileStore for TLC. *)
EXTENDS FileStore, TLC

\* Callers and tasks are interchangeable.
Symmetry == Permutations(Callers) \cup Permutations(IDs)
=============================================================================
