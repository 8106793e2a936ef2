----------------------------- MODULE MCToolCall -----------------------------
(* The instances of ToolCall for TLC: one server that is a child process,   *)
(* two tasks, two steps at a time and calls enough to use a connection      *)
(* again.  No symmetry, because the run checks liveness.                    *)
EXTENDS ToolCall
=============================================================================
