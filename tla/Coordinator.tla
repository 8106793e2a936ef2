----------------------------- MODULE Coordinator -----------------------------
(***************************************************************************)
(* coordinator.Coordinator: submitting, executing, cancelling and pruning  *)
(* tasks.  The coordinator has no lock around a task: requests, runs and   *)
(* cancellations share the Task objects by pointer, the task store and the *)
(* cancels map each have a mutex of their own, and every lookup, every     *)
(* write of Task.Status and every store call here is one step.             *)
(*                                                                         *)
(* A request is one SubmitAndExecute (POST /v1/tasks or the run command):  *)
(* its handler goroutine up to the start of the run, then the goroutine of *)
(* the run.  It brings a Task object of its own, named like the request,   *)
(* under an ID the client may have chosen.  What happens inside            *)
(* executor.Execute is in module Executor; here it ends with an outcome.   *)
(***************************************************************************)
EXTENDS Integers, FiniteSets

CONSTANTS
    Requests,         \* the requests, and the Task objects they bring
    CancelCalls,      \* the calls of CancelTask
    IDs,              \* task IDs
    IdOf,             \* Task.ID of each Task object
    MaxHistory,       \* Config.MaxHistory
    FlushMayFail,     \* whether store.Save may fail after changing the store
    ClientsWait,      \* whether clients cancel a task only when they know it,
                      \* and use its ID again only when they know its end
    NoTask,           \* no Task object in the store
    NoRun             \* no cancel function in the cancels map

ASSUME CoordinatorAssumption ==
    /\ IsFiniteSet(Requests)
    /\ IdOf \in [Requests -> IDs]
    /\ MaxHistory \in Nat \ {0}
    /\ {FlushMayFail, ClientsWait} \subseteq BOOLEAN
    /\ NoTask \notin Requests
    /\ NoRun \notin Requests

VARIABLES
    store,     \* the task store: per ID, the Task object saved last
    cancels,   \* Coordinator.cancels: per ID, the run whose cancel it holds
    status,    \* Task.Status of each Task object
    born,      \* Task.CreatedAt of each Task object, as a place in the order
    pc,        \* pc of each request and of its run
    got,       \* per request: the Task object Execute got from the store
    victim,    \* per request: the ID pruneHistory is about to delete
    canceled,  \* per request: the context of its run is canceled
    cpc,       \* pc of each call of CancelTask
    cid,       \* per call: the ID to cancel
    cobj       \* per call: the Task object it got from the store

reqVars == <<pc, got, victim, canceled>>
callVars == <<cpc, cid, cobj>>
vars == <<store, cancels, status, born, reqVars, callVars>>

-----------------------------------------------------------------------------
Statuses == {"new", "pending", "running", "completed", "failed", "cancelled"}
Terminal == {"completed", "failed", "cancelled"}

\* The run of a request exists, and its cancel function has been registered.
InRun(r) == pc[r] \in {"started", "running", "failed", "settle", "unregister"}

Stored == {store[i] : i \in IDs} \ {NoTask}

Init ==
    /\ store = [i \in IDs |-> NoTask]
    /\ cancels = [i \in IDs |-> NoRun]
    /\ status = [t \in Requests |-> "new"]
    /\ born = [t \in Requests |-> 0]
    /\ pc = [r \in Requests |-> "new"]
    /\ got = [r \in Requests |-> NoTask]
    /\ victim = [r \in Requests |-> NoTask]
    /\ canceled = [r \in Requests |-> FALSE]
    /\ cpc = [k \in CancelCalls |-> "new"]
    /\ cid \in [CancelCalls -> IDs]
    /\ cobj = [k \in CancelCalls |-> NoTask]

Goto(r, label) == pc' = [pc EXCEPT ![r] = label]

\* store.Save puts the object under its ID; the file store does so before it
\* writes the file, so an error leaves the object in the store.
Saved(t) == [store EXCEPT ![IdOf[t]] = t]

\* Save, then go on, or give up if the file could not be written.
SaveAndGo(r, t, label) ==
    /\ store' = Saved(t)
    /\ Goto(r, label) \/ (FlushMayFail /\ Goto(r, "error"))

-----------------------------------------------------------------------------
(* submit and pruneHistory.                                                *)

Clock == Cardinality({t \in Requests : born[t] > 0})

\* The tasks submitted under the same ID have sent their last event or were
\* refused.
IdFree(r) ==
    \A q \in Requests \ {r} : IdOf[q] = IdOf[r] =>
        pc[q] \in {"new", "failed", "settle", "unregister", "ended", "error"}

\* The validated task is set up and saved.
Submit(r) ==
    /\ pc[r] = "new"
    /\ ClientsWait => IdFree(r)
    /\ status' = [status EXCEPT ![r] = "pending"]
    /\ born' = [born EXCEPT ![r] = Clock + 1]
    /\ SaveAndGo(r, r, "prune")
    /\ UNCHANGED <<cancels, got, victim, canceled, callVars>>

\* Faulty variant: any stored task may be dropped.
PrunableAny == Stored

\* The stored tasks that pruneHistory may drop: the oldest that is over.
Prunable == {t \in Stored : status[t] \in Terminal}
Oldest(t) == t \in Prunable /\ \A u \in Prunable : born[t] <= born[u]

TooMany == Cardinality(Stored) > MaxHistory

\* Look for a task to drop.
PruneList(r) ==
    /\ pc[r] = "prune"
    /\ \/ /\ TooMany
          /\ \E t \in Stored : Oldest(t) /\ victim' = [victim EXCEPT ![r] = IdOf[t]]
          /\ Goto(r, "delete")
       \/ /\ ~TooMany \/ Prunable = {}
          /\ Goto(r, "get")
          /\ UNCHANGED victim
    /\ UNCHANGED <<store, cancels, status, born, got, canceled, callVars>>

\* Delete by ID whatever the store holds under it by now.
PruneDelete(r) ==
    /\ pc[r] = "delete"
    /\ store' = [store EXCEPT ![victim[r]] = NoTask]
    /\ Goto(r, "get")
    /\ UNCHANGED <<cancels, status, born, got, victim, canceled, callVars>>

-----------------------------------------------------------------------------
(* Execute.                                                                *)

\* Look the task up again by its ID.
ExecuteGet(r) ==
    /\ pc[r] = "get"
    /\ got' = [got EXCEPT ![r] = store[IdOf[r]]]
    /\ Goto(r, IF store[IdOf[r]] = NoTask THEN "error" ELSE "check")
    /\ UNCHANGED <<store, cancels, status, born, victim, canceled, callVars>>

MayStart(t) == status[t] = "pending"

\* "task already started"
ExecuteCheck(r) ==
    /\ pc[r] = "check"
    /\ Goto(r, IF MayStart(got[r]) THEN "mark" ELSE "error")
    /\ UNCHANGED <<store, cancels, status, born, got, victim, canceled, callVars>>

ExecuteMark(r) ==
    /\ pc[r] = "mark"
    /\ status' = [status EXCEPT ![got[r]] = "running"]
    /\ Goto(r, "save")
    /\ UNCHANGED <<store, cancels, born, got, victim, canceled, callVars>>

ExecuteSave(r) ==
    /\ pc[r] = "save"
    /\ SaveAndGo(r, got[r], "register")
    /\ UNCHANGED <<cancels, status, born, got, victim, canceled, callVars>>

\* Faulty variant: the run starts without its cancel function being known.
ExecuteUnregistered(r) ==
    /\ pc[r] = "register"
    /\ Goto(r, "started")
    /\ UNCHANGED <<store, cancels, status, born, got, victim, canceled, callVars>>

\* Make the cancel function known, then start the goroutine of the run.
ExecuteRegister(r) ==
    /\ pc[r] = "register"
    /\ cancels' = [cancels EXCEPT ![IdOf[got[r]]] = r]
    /\ Goto(r, "started")
    /\ UNCHANGED <<store, status, born, got, victim, canceled, callVars>>

-----------------------------------------------------------------------------
(* The run.                                                                *)

\* The executor emits the first event: the client sees that the task runs.
Announce(r) ==
    /\ pc[r] = "started"
    /\ Goto(r, "running")
    /\ UNCHANGED <<store, cancels, status, born, got, victim, canceled, callVars>>

\* What executor.Execute leaves behind.  All waves went well, possibly in spite
\* of a cancelled context; or one has failed.  A task is cancelled only if its
\* run's context is or CancelTask has written so.  It may have failed all the
\* same: the deadline came first, and the error of a context stays what it was;
\* or the cancellation came after the test and before the write, which are one
\* step here because nothing the test may see takes "failed" away.
Outcomes(r) ==
    {"completed", "failed"}
        \cup (IF canceled[r] \/ status[got[r]] = "cancelled" THEN {"cancelled"} ELSE {})

ExecutorEnds(r) ==
    /\ pc[r] = "running"
    /\ \E o \in Outcomes(r) :
        /\ status' = [status EXCEPT ![got[r]] = o]
        /\ Goto(r, IF o = "completed" THEN "settle" ELSE "failed")
    /\ UNCHANGED <<store, cancels, born, got, victim, canceled, callVars>>

\* Faulty variant: a cancelled task becomes a failed one.
StatusAfterErrorFailed(t) == "failed"

\* After an error the goroutine sets the status once more.
StatusAfterError(t) == IF status[t] = "cancelled" THEN "cancelled" ELSE "failed"

ConfirmFailure(r) ==
    /\ pc[r] = "failed"
    /\ status' = [status EXCEPT ![got[r]] = StatusAfterError(got[r])]
    /\ Goto(r, "settle")
    /\ UNCHANGED <<store, cancels, born, got, victim, canceled, callVars>>

\* The goroutine saves the task; an error of the store is ignored.
Settle(r) ==
    /\ pc[r] = "settle"
    /\ store' = Saved(got[r])
    /\ Goto(r, "unregister")
    /\ UNCHANGED <<cancels, status, born, got, victim, canceled, callVars>>

\* Faulty variant: the entry stays.
UnregisterForgotten(r) ==
    /\ pc[r] = "unregister"
    /\ Goto(r, "ended")
    /\ UNCHANGED <<store, cancels, status, born, got, victim, canceled, callVars>>

\* The deferred delete removes the entry of the ID, whoever registered it.
Unregister(r) ==
    /\ pc[r] = "unregister"
    /\ cancels' = [cancels EXCEPT ![IdOf[got[r]]] = NoRun]
    /\ Goto(r, "ended")
    /\ UNCHANGED <<store, status, born, got, victim, canceled, callVars>>

\* The HTTP client goes away, and its request's context with it.
Disconnect(r) ==
    /\ InRun(r)
    /\ ~canceled[r]
    /\ canceled' = [canceled EXCEPT ![r] = TRUE]
    /\ UNCHANGED <<store, cancels, status, born, pc, got, victim, callVars>>

-----------------------------------------------------------------------------
(* CancelTask.                                                             *)

CGoto(k, label) == cpc' = [cpc EXCEPT ![k] = label]

\* The client has seen an event of the task, or its submission failed and left
\* it pending in the store, where clients see it.
Seen(r) ==
    \/ pc[r] \in {"running", "failed", "settle", "unregister", "ended"}
    \/ pc[r] = "error" /\ status[r] = "pending"

\* So it is with every task submitted under this ID.
Announced(i) ==
    LET submitted == {r \in Requests : IdOf[r] = i /\ pc[r] # "new"}
    IN  submitted # {} /\ \A r \in submitted : Seen(r)

\* Faulty variant: the error of store.Get is not looked at.
CancelGetUnchecked(k) ==
    /\ cpc[k] = "new"
    /\ ClientsWait => Announced(cid[k])
    /\ cobj' = [cobj EXCEPT ![k] = store[cid[k]]]
    /\ CGoto(k, "check")
    /\ UNCHANGED <<store, cancels, status, born, reqVars, cid>>

CancelGet(k) ==
    /\ cpc[k] = "new"
    /\ ClientsWait => Announced(cid[k])
    /\ cobj' = [cobj EXCEPT ![k] = store[cid[k]]]
    /\ CGoto(k, IF store[cid[k]] = NoTask THEN "refused" ELSE "check")
    /\ UNCHANGED <<store, cancels, status, born, reqVars, cid>>

\* "task cannot be cancelled"
CancelCheck(k) ==
    /\ cpc[k] = "check"
    /\ CGoto(k, IF status[cobj[k]] \in {"running", "pending"} THEN "branch" ELSE "refused")
    /\ UNCHANGED <<store, cancels, status, born, reqVars, cid, cobj>>

\* The status is read a second time to tell pending from running.
CancelBranch(k) ==
    /\ cpc[k] = "branch"
    /\ CGoto(k, IF status[cobj[k]] = "pending" THEN "mark" ELSE "lookup")
    /\ UNCHANGED <<store, cancels, status, born, reqVars, cid, cobj>>

CancelMark(k) ==
    /\ cpc[k] = "mark"
    /\ status' = [status EXCEPT ![cobj[k]] = "cancelled"]
    /\ CGoto(k, "save")
    /\ UNCHANGED <<store, cancels, born, reqVars, cid, cobj>>

CancelSave(k) ==
    /\ cpc[k] = "save"
    /\ store' = Saved(cobj[k])
    /\ CGoto(k, "accepted") \/ (FlushMayFail /\ CGoto(k, "refused"))
    /\ UNCHANGED <<cancels, status, born, reqVars, cid, cobj>>

\* Call the cancel function registered for the ID, if there is one; the
\* answer is "cancelling" either way.
CancelLookup(k) ==
    /\ cpc[k] = "lookup"
    /\ canceled' = [r \in Requests |-> canceled[r] \/ cancels[cid[k]] = r]
    /\ CGoto(k, "accepted")
    /\ UNCHANGED <<store, cancels, status, born, pc, got, victim, cid, cobj>>

-----------------------------------------------------------------------------
RequestNext(r) ==
    \/ Submit(r) \/ PruneList(r) \/ PruneDelete(r)
    \/ ExecuteGet(r) \/ ExecuteCheck(r) \/ ExecuteMark(r) \/ ExecuteSave(r)
    \/ ExecuteRegister(r)
    \/ Announce(r) \/ ExecutorEnds(r) \/ ConfirmFailure(r) \/ Settle(r) \/ Unregister(r)

CancelNext(k) ==
    \/ CancelGet(k) \/ CancelCheck(k) \/ CancelBranch(k)
    \/ CancelMark(k) \/ CancelSave(k) \/ CancelLookup(k)

Next ==
    \/ \E r \in Requests : RequestNext(r) \/ Disconnect(r)
    \/ \E k \in CancelCalls : CancelNext(k)

Spec == Init /\ [][Next]_vars

\* Handlers and runs make progress; that a run does not stay in the executor
\* for ever is what Executor shows (Ends).  A handler already in CancelTask
\* finishes; nobody has to cancel anything.
Fairness ==
    /\ \A r \in Requests : WF_vars(RequestNext(r) /\ pc[r] # "new")
    /\ \A k \in CancelCalls : WF_vars(CancelNext(k) /\ cpc[k] # "new")

FairSpec == Spec /\ Fairness

-----------------------------------------------------------------------------
(* What all this is to a client.                                           *)

\* The tasks that a lookup by their ID finds.
Known == {t \in Requests : store[IdOf[t]] = t}

\* The tasks whose cancellation was accepted.
Accepted == {cobj[k] : k \in {c \in CancelCalls : cpc[c] = "accepted"}}

Client ==
    INSTANCE TaskLife WITH
        Tasks <- Requests, life <- status, asked <- canceled, known <- Known,
        accepted <- Accepted

-----------------------------------------------------------------------------
(* Properties.                                                             *)

\* Handlers find in their variables what the steps before left there: Execute
\* never goes on with a missing task, nor CancelTask.
TypeOK ==
    /\ store \in [IDs -> Requests \cup {NoTask}]
    /\ cancels \in [IDs -> Requests \cup {NoRun}]
    /\ status \in [Requests -> Statuses]
    /\ born \in [Requests -> 0 .. Cardinality(Requests)]
    /\ pc \in [Requests -> {"new", "prune", "delete", "get", "check", "mark", "save",
                            "register", "started", "running", "failed", "settle",
                            "unregister", "ended", "error"}]
    /\ got \in [Requests -> Requests \cup {NoTask}]
    /\ \A r \in Requests :
        pc[r] \in {"check", "mark", "save", "register"} \/ InRun(r) => got[r] # NoTask
    /\ victim \in [Requests -> IDs \cup {NoTask}]
    /\ canceled \in [Requests -> BOOLEAN]
    /\ cpc \in [CancelCalls -> {"new", "check", "branch", "mark", "save", "lookup",
                                "accepted", "refused"}]
    /\ cid \in [CancelCalls -> IDs]
    /\ cobj \in [CancelCalls -> Requests \cup {NoTask}]
    /\ \A k \in CancelCalls :
        cpc[k] \in {"check", "branch", "mark", "save", "lookup"} => cobj[k] # NoTask

\* The cancels map holds the cancel function of a run exactly while the run
\* lasts: a cancellation reaches the run that has the task, and no entry is
\* left behind.
CancelsExact ==
    /\ \A r \in Requests : InRun(r) => cancels[IdOf[got[r]]] = r
    /\ \A i \in IDs : cancels[i] # NoRun => InRun(cancels[i]) /\ IdOf[got[cancels[i]]] = i

\* A task that is being executed can be looked up, and so cancelled, until it
\* is over: pruning, which deletes by ID what was over when it looked, takes
\* away none that still runs.
ActiveIsStored ==
    \A r \in Requests :
        InRun(r) /\ status[got[r]] = "running" => store[IdOf[got[r]]] = got[r]

\* "Cancel a running or pending task": an accepted cancellation has stopped
\* the task or its run, or came when the outcome was settled.
CancelTakesEffect ==
    \A k \in CancelCalls : cpc[k] = "accepted" =>
        \/ status[cobj[k]] \in Terminal
        \/ \E r \in Requests : got[r] = cobj[k] /\ canceled[r]

\* A client sees tasks go through the life of module TaskLife: each status is
\* reached once and never left backwards, although the status is read and
\* written without a lock; no run ends as cancelled that was not asked to stop;
\* a cancellation is accepted with an effect or when all is over; and a task
\* stays known from its submission until it is over.
ImplementsTaskLife == Client!Spec

\* A run that was given its events channel comes to an end: whatever is cancelled
\* meanwhile and whichever writes of the file fail, the task has a final status
\* and its cancel function is gone.
RunsSettle ==
    \A r \in Requests : pc[r] = "register" ~>
        /\ pc[r] = "ended"
        /\ status[got[r]] \in Terminal
        /\ cancels[IdOf[got[r]]] # r
=============================================================================
