------------------------------- MODULE MCPool -------------------------------
(* The instance of Pool for TLC: two servers and more callers than MaxOpen; *)
(* at most three transports are open at a time, all of one server if need   *)
(* be.  No symmetry, because the run checks liveness.                       *)
EXTENDS Pool
=============================================================================
