---------------------------- MODULE MCCoordinator ----------------------------
(* Instances of Coordinator for TLC. *)
EXTENDS Coordinator

CONSTANTS r1, r2, i1, i2

\* Generated IDs, or clients that never choose the same one.
UniqueIds == [r \in Requests |-> IF r = r1 THEN i1 ELSE i2]

\* A client that submits a second task under the ID of the first.
SameId == [r \in Requests |-> i1]
=============================================================================
