------------------------------ MODULE TaskLife ------------------------------
(***************************************************************************)
(* What the coordinator promises its clients about tasks, without          *)
(* requests, goroutines, lookups or maps: every task goes once from        *)
(* pending to running to its outcome, or from pending to cancelled; a run  *)
(* ends as cancelled only if it was asked to stop; and a task is looked up *)
(* and cancelled by its ID until it is over.                               *)
(***************************************************************************)
CONSTANT Tasks

VARIABLES
    life,     \* per task: its status
    asked,    \* per task: its run was asked to stop
    known,    \* the tasks clients can look up
    accepted  \* the tasks whose cancellation was accepted

lifeVars == <<life, asked, known, accepted>>

Over == {"completed", "failed", "cancelled"}

Init ==
    /\ life = [t \in Tasks |-> "new"]
    /\ asked = [t \in Tasks |-> FALSE]
    /\ known = {}
    /\ accepted = {}

Move(t, from, to) ==
    /\ life[t] = from
    /\ life' = [life EXCEPT ![t] = to]

\* A submitted task is known from the start.
Submit(t) ==
    /\ Move(t, "new", "pending")
    /\ known' = known \cup {t}
    /\ UNCHANGED <<asked, accepted>>

Start(t) ==
    /\ t \in known
    /\ Move(t, "pending", "running")
    /\ UNCHANGED <<asked, known, accepted>>

\* A run that was asked to stop need not end as cancelled: it may have come to
\* its end, or run into its deadline, before it noticed.
End(t) ==
    /\ t \in known
    /\ \/ Move(t, "running", "completed")
       \/ asked[t] /\ Move(t, "running", "cancelled")
       \/ Move(t, "running", "failed")
    /\ UNCHANGED <<asked, known, accepted>>

\* A task that waits for no run is taken back.
Withdraw(t) ==
    /\ Move(t, "pending", "cancelled")
    /\ UNCHANGED <<asked, known, accepted>>

\* The client of a run goes away.
Leave(t) ==
    /\ life[t] \in {"running"} \cup Over
    /\ asked' = [asked EXCEPT ![t] = TRUE]
    /\ UNCHANGED <<life, known, accepted>>

\* A cancellation is accepted once it stops the run or the task is over.
Accept(t) ==
    /\ accepted' = accepted \cup {t}
    /\ \/ /\ life[t] = "running"
          /\ asked' = [asked EXCEPT ![t] = TRUE]
          /\ UNCHANGED known
       \/ /\ life[t] \in Over
          /\ asked' \in {asked, [asked EXCEPT ![t] = TRUE]}
          /\ known' \in {known, known \cup {t}}
    /\ UNCHANGED life

\* Only a task that is over is forgotten, and its run or a
\* cancellation may still write it back once more.
Forget(t) ==
    /\ life[t] \in Over
    /\ known' \in {known \ {t}, known \cup {t}}
    /\ UNCHANGED <<life, asked, accepted>>

Next ==
    \E t \in Tasks :
        \/ Submit(t) \/ Start(t) \/ End(t) \/ Withdraw(t)
        \/ Leave(t) \/ Accept(t) \/ Forget(t)

Spec == Init /\ [][Next]_lifeVars
=============================================================================
