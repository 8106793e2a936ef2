------------------------------ MODULE MCService ------------------------------
(* Instances of Service for TLC. *)
EXTENDS Service

CONSTANTS r1, r2, i1, i2

\* Generated IDs.
UniqueIds == [r \in Requests |-> IF r = r1 THEN i1 ELSE i2]
=============================================================================
