------------------------------- MODULE Service -------------------------------
(***************************************************************************)
(* The HTTP service (orchestra serve --store-path): Coordinator with its   *)
(* handlers, its store file, and a process that is shut down, dies and is  *)
(* started again.                                                          *)
(*                                                                         *)
(* Every change of a task is an action of Coordinator.  Here a Save also   *)
(* writes the file, as a whole or not at all (FileStore shows that it      *)
(* does), a handler stays until its events channel is closed, and only the *)
(* file and what clients were told outlive the process.                    *)
(***************************************************************************)
EXTENDS Coordinator

CONSTANT NoStatus   \* the file has no such task; no event was sent

ASSUME ServiceAssumption ==
    /\ NoStatus \notin Statuses
    /\ \A t, u \in Requests : IdOf[t] = IdOf[u] => t = u

VARIABLES
    proc,      \* the process is up, draining (in Shutdown) or down
    file,      \* the store file: per ID, the status of the task
    accepted,  \* the requests whose handler was called
    event,     \* per request: what its task ended with, by its last event
    answered,  \* the requests whose handler has read it and returned
    begun,     \* history: the tasks ever given to the executor
    withdrawn  \* history: the tasks whose status CancelTask wrote itself

serviceVars == <<proc, file, accepted, event, answered, begun, withdrawn>>
allVars == <<vars, serviceVars>>

ServiceInit ==
    /\ Init
    /\ proc = "up"
    /\ file = [i \in IDs |-> NoStatus]
    /\ accepted = {}
    /\ event = [r \in Requests |-> NoStatus]
    /\ answered = {}
    /\ begun = {}
    /\ withdrawn = {}

\* The file gets what the store then holds, or stays as it is.
Written(ok) ==
    file' = IF ok THEN [i \in IDs |-> IF store'[i] = NoTask THEN NoStatus ELSE status'[store'[i]]]
                  ELSE file

\* An error of the store that nobody looks at.
WrittenMaybe == Written(TRUE) \/ (FlushMayFail /\ Written(FALSE))

-----------------------------------------------------------------------------
(* The handler of POST /v1/tasks.                                          *)

\* The handler decodes the request.  SubmitPrompt lists the tools and asks the
\* language model for a plan.
Accept(r) ==
    /\ proc = "up"
    /\ r \notin accepted
    /\ accepted' = accepted \cup {r}
    /\ UNCHANGED <<vars, proc, file, event, answered, begun, withdrawn>>

\* A request that cannot be decoded, a model that fails or is given up with
\* its request, a plan or a task that Validate rejects.
Reject(r) ==
    /\ r \in accepted
    /\ pc[r] = "new"
    /\ Goto(r, "error")
    /\ UNCHANGED <<store, cancels, status, born, got, victim, canceled, callVars, serviceVars>>

SubmitValid(r) ==
    /\ r \in accepted
    /\ Submit(r)
    /\ Written(pc'[r] # "error")
    /\ UNCHANGED <<proc, accepted, event, answered, begun, withdrawn>>

Prune(r) ==
    /\ \/ PruneList(r) /\ UNCHANGED file
       \/ PruneDelete(r) /\ WrittenMaybe
    /\ UNCHANGED <<proc, accepted, event, answered, begun, withdrawn>>

Execute(r) ==
    /\ \/ (ExecuteGet(r) \/ ExecuteCheck(r) \/ ExecuteMark(r)) /\ UNCHANGED <<file, begun>>
       \/ ExecuteSave(r) /\ Written(pc'[r] # "error") /\ UNCHANGED begun
       \/ ExecuteRegister(r) /\ begun' = begun \cup {got[r]} /\ UNCHANGED file
    /\ UNCHANGED <<proc, accepted, event, answered, withdrawn>>

Run(r) ==
    /\ \/ (Announce(r) \/ ConfirmFailure(r) \/ Unregister(r)) /\ UNCHANGED <<file, event>>
       \/ ExecutorEnds(r) /\ event' = [event EXCEPT ![r] = status'[got[r]]] /\ UNCHANGED file
       \/ Settle(r) /\ WrittenMaybe /\ UNCHANGED event
    /\ UNCHANGED <<proc, accepted, answered, begun, withdrawn>>

\* The channel is closed and drained: the handler writes the answer and returns.
Respond(r) ==
    /\ event[r] # NoStatus
    /\ r \notin answered
    /\ answered' = answered \cup {r}
    /\ UNCHANGED <<vars, proc, file, accepted, event, begun, withdrawn>>

Leave(r) == Disconnect(r) /\ UNCHANGED serviceVars

CancelHandler(k) ==
    /\ \/ (CancelGet(k) \/ CancelCheck(k) \/ CancelBranch(k)) /\ UNCHANGED <<file, withdrawn>>
       \/ CancelMark(k) /\ withdrawn' = withdrawn \cup {cobj[k]} /\ UNCHANGED file
       \/ CancelLookup(k) /\ UNCHANGED <<file, withdrawn>>
       \/ CancelSave(k) /\ Written(cpc'[k] = "accepted") /\ UNCHANGED withdrawn
    /\ UNCHANGED <<proc, accepted, event, answered, begun>>

-----------------------------------------------------------------------------
(* The process.                                                            *)

\* A signal: no new connections, and those in use are waited for.
Shutdown ==
    /\ proc = "up"
    /\ proc' = "draining"
    /\ UNCHANGED <<vars, file, accepted, event, answered, begun, withdrawn>>

\* Faulty variant: a handler returns when its client is gone.
HandlerDoneEarly(r) == pc[r] \in {"new", "error"} \/ r \in answered \/ canceled[r]

HandlerDone(r) ==
    \/ pc[r] = "new" /\ r \notin accepted
    \/ pc[r] = "error"
    \/ r \in answered

\* Shutdown returns when the last handler has, and main returns.
Drained ==
    /\ proc = "draining"
    /\ \A r \in Requests : HandlerDone(r)
    /\ \A k \in CancelCalls : cpc[k] \in {"new", "accepted", "refused"}
    /\ proc' = "down"
    /\ UNCHANGED <<vars, file, accepted, event, answered, begun, withdrawn>>

\* The process dies, or Shutdown has waited for ten seconds.
Die ==
    /\ proc # "down"
    /\ proc' = "down"
    /\ UNCHANGED <<vars, file, accepted, event, answered, begun, withdrawn>>

\* Faulty variant: what was not finished is to be done again.
LoadedAnew(t) == IF file[IdOf[t]] = "running" THEN "pending" ELSE file[IdOf[t]]

Loaded(t) == file[IdOf[t]]

\* The file is loaded as it is.  Handlers and runs are gone; the tasks of the
\* file are there for every client to see.
Start ==
    /\ proc = "down"
    /\ proc' = "up"
    /\ store' = [i \in IDs |-> IF file[i] = NoStatus THEN NoTask
                               ELSE CHOOSE t \in Requests : IdOf[t] = i]
    /\ status' = [t \in Requests |-> IF file[IdOf[t]] = NoStatus THEN status[t] ELSE Loaded(t)]
    /\ cancels' = [i \in IDs |-> NoRun]
    /\ pc' = [r \in Requests |->
                CASE pc[r] = "new" /\ r \notin accepted -> "new"
                  [] file[IdOf[r]] # NoStatus -> "ended"
                  [] OTHER -> "error"]
    /\ cpc' = [k \in CancelCalls |-> IF cpc[k] \in {"new", "accepted"} THEN cpc[k] ELSE "refused"]
    /\ UNCHANGED <<born, got, victim, canceled, cid, cobj, file, accepted, event, answered, begun, withdrawn>>

-----------------------------------------------------------------------------
Alive ==
    \/ \E r \in Requests :
        \/ Accept(r) \/ Reject(r) \/ SubmitValid(r) \/ Prune(r) \/ Execute(r) \/ Run(r)
        \/ Respond(r) \/ Leave(r)
    \/ \E k \in CancelCalls : CancelHandler(k)

ServiceNext ==
    \/ proc # "down" /\ Alive
    \/ Shutdown \/ Drained \/ Die \/ Start

ServiceSpec == ServiceInit /\ [][ServiceNext]_allVars

-----------------------------------------------------------------------------
(* Properties.                                                             *)

\* Whenever the process stops, a task the file has as pending was never
\* started: its client may submit it again and no tool is called twice.
PendingIsUntouched ==
    \A t \in Requests : file[IdOf[t]] = "pending" => t \notin begun

\* The end of a task that the file reports is the end its client was told,
\* through cancellations, failing writes and restarts.  Left out are tasks that
\* CancelTask found pending: it may write over what happened since.
FileAgrees ==
    \A r \in Requests \ withdrawn :
        event[r] # NoStatus /\ file[IdOf[r]] \in Terminal => file[IdOf[r]] = event[r]

\* A shutdown that did not run into its timeout has interrupted no task: it
\* waits for handlers only, and these stay as long as their tasks run, also
\* those whose clients are gone.
GracefulFinishes ==
    [][Drained => \A r \in Requests : pc[r] \notin {"started", "running"}]_allVars
=============================================================================
