------------------------------- MODULE DagRun -------------------------------
(***************************************************************************)
(* What the executor promises about one run of a task, without waves,      *)
(* goroutines, contexts or events: steps run in any order that respects    *)
(* the dependency graph, any step may fail, and the run ends once, when    *)
(* nothing runs any more, as completed exactly when every step is ok.      *)
(***************************************************************************)
CONSTANT Steps

VARIABLES
    deps,     \* the dependency graph of the task
    st,       \* per step: "waiting", "running", "ok" or "failed"
    outcome   \* "none" while the run lasts, then how it ended

dagVars == <<deps, st, outcome>>

Init ==
    /\ deps \in [Steps -> SUBSET Steps]
    /\ st = [s \in Steps |-> "waiting"]
    /\ outcome = "none"

Begin(s) ==
    /\ outcome = "none"
    /\ st[s] = "waiting"
    /\ \A d \in deps[s] : st[d] = "ok"
    /\ st' = [st EXCEPT ![s] = "running"]
    /\ UNCHANGED <<deps, outcome>>

Finish(s) ==
    /\ st[s] = "running"
    /\ \E r \in {"ok", "failed"} : st' = [st EXCEPT ![s] = r]
    /\ UNCHANGED <<deps, outcome>>

Quiet == \A s \in Steps : st[s] # "running"

Conclude ==
    /\ outcome = "none"
    /\ Quiet
    /\ \/ /\ \A s \in Steps : st[s] = "ok"
          /\ outcome' = "completed"
       \/ /\ \E s \in Steps : st[s] = "failed"
          /\ outcome' \in {"failed", "cancelled"}
    /\ UNCHANGED <<deps, st>>

Next == (\E s \in Steps : Begin(s) \/ Finish(s)) \/ Conclude

Spec == Init /\ [][Next]_dagVars
=============================================================================
