------------------------------ MODULE Executor ------------------------------
(***************************************************************************)
(* One run of a task: executor.Execute and executeWave, the goroutines     *)
(* executeWave starts, the context they share and the events channel.      *)
(*                                                                         *)
(* main is the goroutine of coordinator.Execute that calls                 *)
(* executor.Execute; every step of a wave has a goroutine of its own.  A   *)
(* send on the events channel blocks while the buffer is full, so it is a  *)
(* step of its own; what a goroutine does between two sends or calls       *)
(* touches only its own step, the outputs map and the error channel, and   *)
(* is one step.  The tool call itself (executeStep: pool, transport,       *)
(* server) is a call that succeeds, fails, or keeps the goroutine waiting. *)
(*                                                                         *)
(* Execute's early return for a task without a plan is not modelled: only  *)
(* validated tasks are executed, and Planner shows that they have one.     *)
(***************************************************************************)
EXTENDS TaskGraph, FiniteSets

CONSTANTS
    Steps,      \* the IDs of the task's steps
    Jobs,       \* the tasks considered: graph, references and plan of each
    EventCap,   \* capacity of the events channel (100 in the code)
    CtxAware,   \* whether a tool call ends when its context is done
    LateCancels \* whether a CancelTask may have seen the task still pending

ASSUME ExecutorAssumption ==
    /\ IsFiniteSet(Steps)
    /\ EventCap \in Nat \ {0}
    /\ "task" \notin Steps \* the events of the task itself carry no step ID
    /\ {CtxAware, LateCancels} \subseteq BOOLEAN
    /\ \A j \in Jobs :
        /\ j.deps \in [Steps -> SUBSET Steps]
        /\ j.refs \in [Steps -> SUBSET Steps]
        /\ j.waves \in Seq(SUBSET Steps)
        /\ WellPlanned(j.deps, j.waves) \* what Planner promises

VARIABLES
    job,      \* the task being run: a member of Jobs that never changes
    wave,     \* how many waves have been started
    main,     \* pc of Execute
    pc,       \* pc of the goroutine of each step
    status,   \* Step.Status of each step
    outputs,  \* the steps whose output is in the outputs map
    errs,     \* the steps that sent an error on the wave's errChan
    unresolved, \* the steps whose arguments could not be interpolated
    ctx,      \* the task's context: live, or why it is done
    task,     \* Task.Status and, once set, the steps in Task.Result
    late,     \* such a CancelTask: none, about to write, or done
    log,      \* every event sent on the channel so far
    rcvd,     \* how many of them the consumer has received
    closed    \* the events channel is closed

stepVars == <<pc, status, outputs, errs, unresolved>>
chanVars == <<log, rcvd, closed>>
vars == <<job, wave, main, stepVars, ctx, task, late, chanVars>>

-----------------------------------------------------------------------------
Event(type, step) == [type |-> type, step |-> step]

StepEvents == {"step_start", "step_error", "step_complete"}
EndEvents == {"task_complete", "task_error", "task_cancelled"}

Deps(s) == job.deps[s]
Refs(s) == job.refs[s]
Waves == job.waves

Init ==
    /\ job \in Jobs
    /\ wave = 0
    /\ main = "loop"
    /\ pc = [s \in Steps |-> "none"]
    /\ status = [s \in Steps |-> "pending"]
    /\ outputs = {}
    /\ errs = {}
    /\ unresolved = {}
    /\ ctx = "live"
    /\ task = [status |-> "running", result |-> {}]
    /\ late \in IF LateCancels THEN {"none", "pending"} ELSE {"none"}
    /\ log = <<>>
    /\ rcvd = 0
    /\ closed = FALSE

-----------------------------------------------------------------------------
(* The events channel.                                                     *)

Room == Len(log) - rcvd < EventCap

\* Sending on a closed channel panics; NoSendAfterClose shows it cannot be.
Send(event) ==
    /\ Room
    /\ log' = Append(log, event)
    /\ UNCHANGED <<rcvd, closed>>

\* The consumer: the HTTP handler or the CLI, which drain the channel.
Receive ==
    /\ rcvd < Len(log)
    /\ rcvd' = rcvd + 1
    /\ UNCHANGED <<job, wave, main, stepVars, ctx, task, late, log, closed>>

-----------------------------------------------------------------------------
(* The goroutine of a step.                                                *)

\* Having announced the step, the goroutine marks it as running.
SendStart(s) ==
    /\ pc[s] = "start"
    /\ Send(Event("step_start", s))
    /\ pc' = [pc EXCEPT ![s] = "begin"]
    /\ status' = [status EXCEPT ![s] = "running"]
    /\ UNCHANGED <<job, wave, main, outputs, errs, unresolved, ctx, task, late>>

\* Faulty variant: only the outputs of the wave before are at hand.
ResolvedByLastWave(s) ==
    Refs(s) \subseteq {t \in outputs : wave > 1 => t \in Waves[wave - 1]}

\* Every reference in the arguments has an output to stand for it.  The map
\* only grows during the walk over the arguments, so one look at it is enough.
Resolved(s) == Refs(s) \subseteq outputs

\* executeStep returned an output.
Succeed(s) ==
    /\ pc' = [pc EXCEPT ![s] = "complete"]
    /\ status' = [status EXCEPT ![s] = "completed"]
    /\ outputs' = outputs \cup {s}
    /\ UNCHANGED errs

\* Faulty variant: the error is not sent on errChan.
FailUnreported(s) ==
    /\ pc' = [pc EXCEPT ![s] = "error"]
    /\ status' = [status EXCEPT ![s] = "failed"]
    /\ UNCHANGED <<outputs, errs>>

\* An error: from the arguments, the pool, the transport or the tool.
Fail(s) ==
    /\ pc' = [pc EXCEPT ![s] = "error"]
    /\ status' = [status EXCEPT ![s] = "failed"]
    /\ errs' = errs \cup {s}
    /\ UNCHANGED outputs

\* A step whose references cannot all be replaced fails without a call.
Interpolate(s) ==
    /\ pc[s] = "begin"
    /\ IF Resolved(s)
       THEN /\ pc' = [pc EXCEPT ![s] = "call"]
            /\ UNCHANGED <<status, outputs, errs, unresolved>>
       ELSE /\ Fail(s)
            /\ unresolved' = unresolved \cup {s}
    /\ UNCHANGED <<job, wave, main, ctx, task, late, chanVars>>

\* The server answers, or the call fails for a reason of its own.
CallReturns(s) ==
    /\ pc[s] = "call"
    /\ Succeed(s) \/ Fail(s)
    /\ UNCHANGED <<job, wave, main, unresolved, ctx, task, late, chanVars>>

\* Faulty variant: a transport that notices a cancellation but no deadline.
CallAbortsIfCanceled(s) ==
    /\ pc[s] = "call"
    /\ ctx = "canceled"
    /\ CtxAware
    /\ Fail(s)
    /\ UNCHANGED <<job, wave, main, unresolved, ctx, task, late, chanVars>>

\* The context is done and the transport notices.
CallAborts(s) ==
    /\ pc[s] = "call"
    /\ ctx # "live"
    /\ CtxAware
    /\ Fail(s)
    /\ UNCHANGED <<job, wave, main, unresolved, ctx, task, late, chanVars>>

SendResult(s) ==
    /\ \/ pc[s] = "error" /\ Send(Event("step_error", s))
       \/ pc[s] = "complete" /\ Send(Event("step_complete", s))
    /\ pc' = [pc EXCEPT ![s] = "done"]
    /\ UNCHANGED <<job, wave, main, status, outputs, errs, unresolved, ctx, task, late>>

-----------------------------------------------------------------------------
(* Execute and executeWave.                                                *)

MoreWaves == wave < Len(Waves)

\* Start the next wave: a goroutine per step, and an error channel.
StartWave ==
    /\ main = "loop"
    /\ MoreWaves
    /\ wave' = wave + 1
    /\ errs' = {}
    /\ pc' = [s \in Steps |-> IF s \in Waves[wave + 1] THEN "start" ELSE pc[s]]
    /\ main' = "wait"
    /\ UNCHANGED <<job, status, outputs, unresolved, ctx, task, late, chanVars>>

\* Faulty variants: wg.Done before the last event is sent, a wait that returns
\* with the first goroutine, and one for all the steps of the task.
JoinedBeforeEvent == \A s \in Waves[wave] : pc[s] \in {"error", "complete", "done"}
JoinedFirst == \E s \in Waves[wave] : pc[s] = "done"
JoinedAll == \A s \in Steps : pc[s] = "done"

\* wg.Wait: every goroutine of the wave has ended.
Joined == \A s \in Waves[wave] : pc[s] = "done"

\* A wave without an error is followed by the next one, whatever ctx says.
WaveOk ==
    /\ main = "wait"
    /\ Joined
    /\ errs = {}
    /\ main' = "loop"
    /\ UNCHANGED <<job, wave, stepVars, ctx, task, late, chanVars>>

\* Faulty variants: the context's error as the status, and a deadline taken
\* for a cancellation.
VerdictFromContext == IF ctx # "live" /\ task.status # "cancelled" THEN ctx ELSE "failed"
VerdictIfDone == IF ctx # "live" \/ task.status = "cancelled" THEN "cancelled" ELSE "failed"

\* How a failed wave ends the task.
Verdict == IF ctx = "canceled" \/ task.status = "cancelled" THEN "cancelled" ELSE "failed"

WaveFailed ==
    /\ main = "wait"
    /\ Joined
    /\ errs # {}
    /\ task' = [task EXCEPT !.status = Verdict]
    /\ main' = IF Verdict = "cancelled" THEN "task_cancelled" ELSE "task_error"
    /\ UNCHANGED <<job, wave, stepVars, ctx, late, chanVars>>

\* All waves went well: the result is what the outputs map holds.
Complete ==
    /\ main = "loop"
    /\ ~MoreWaves
    /\ task' = [status |-> "completed", result |-> outputs]
    /\ main' = "task_complete"
    /\ UNCHANGED <<job, wave, stepVars, ctx, late, chanVars>>

SendEnd ==
    /\ main \in EndEvents
    /\ Send(Event(main, "task"))
    /\ main' = "return"
    /\ UNCHANGED <<job, wave, stepVars, ctx, task, late>>

\* The deferred calls: release the context, close the channel.
Return ==
    /\ main = "return"
    /\ closed' = TRUE
    /\ ctx' = IF ctx = "live" THEN "canceled" ELSE ctx
    /\ main' = "ended"
    /\ UNCHANGED <<job, wave, stepVars, task, late, log, rcvd>>

-----------------------------------------------------------------------------
(* The context.                                                            *)

\* CancelTask calls the cancel function, or the HTTP client goes away.
Cancel ==
    /\ ctx = "live"
    /\ ctx' = "canceled"
    /\ UNCHANGED <<job, wave, main, stepVars, task, late, chanVars>>

\* The executor's timeout, or the one the request asked for, runs out.
Deadline ==
    /\ ctx = "live"
    /\ ctx' = "deadline"
    /\ UNCHANGED <<job, wave, main, stepVars, task, late, chanVars>>

\* CancelTask found the task pending just before it was started and only now
\* overwrites its status, which both sides reach through the same pointer.
LateCancel ==
    /\ late = "pending"
    /\ late' = "done"
    /\ task' = [task EXCEPT !.status = "cancelled"]
    /\ UNCHANGED <<job, wave, main, stepVars, ctx, chanVars>>

-----------------------------------------------------------------------------
StepNext(s) == SendStart(s) \/ Interpolate(s) \/ SendResult(s)
MainNext == StartWave \/ WaveOk \/ WaveFailed \/ Complete \/ SendEnd \/ Return

Next ==
    \/ \E s \in Steps : StepNext(s) \/ CallReturns(s) \/ CallAborts(s)
    \/ MainNext
    \/ Receive
    \/ Cancel
    \/ Deadline
    \/ LateCancel

Spec == Init /\ [][Next]_vars

\* Goroutines that can run do run, the timer fires, the consumer drains, and
\* a call whose context is done returns if its transport notices.  A server
\* owes no answer.  Several goroutines may wait to send on one channel; Go
\* queues them, so each of them gets its turn (SF).
Fairness ==
    /\ \A s \in Steps : SF_vars(StepNext(s) \/ CallAborts(s))
    /\ WF_vars(MainNext)
    /\ WF_vars(Receive)
    /\ WF_vars(Deadline)

FairSpec == Spec /\ Fairness

-----------------------------------------------------------------------------
(* Properties.                                                             *)

\* The task's run never leaves the states its fields are meant to have.
TypeOK ==
    /\ job \in Jobs
    /\ wave \in 0 .. Len(Waves)
    /\ main \in {"loop", "wait", "return", "ended"} \cup EndEvents
    /\ pc \in [Steps -> {"none", "start", "begin", "call", "error", "complete", "done"}]
    /\ status \in [Steps -> {"pending", "running", "completed", "failed"}]
    /\ outputs \subseteq Steps
    /\ errs \subseteq Steps
    /\ unresolved \subseteq Steps
    /\ ctx \in {"live", "canceled", "deadline"}
    /\ task \in [status : {"running", "completed", "failed", "cancelled"},
                 result : SUBSET Steps]
    /\ late \in {"none", "pending", "done"}
    /\ log \in Seq([type : StepEvents \cup EndEvents, step : Steps \cup {"task"}])
    /\ rcvd \in 0 .. Len(log)
    /\ closed \in BOOLEAN

\* A step only leaves "pending" when everything it depends on has completed
\* and its output can be read, however the goroutines of a wave interleave.
DependenciesFirst ==
    \A s \in Steps : status[s] # "pending" =>
        \A d \in Deps(s) : status[d] = "completed" /\ d \in outputs

\* Once a step has failed no further goroutine is started.
FailFast ==
    [][\A s \in Steps : pc[s] = "none" /\ pc'[s] # "none" =>
        \A t \in Steps : status[t] # "failed"]_vars

\* When the channel is closed no goroutine is left that could still send on
\* it, which would panic the whole server.
NoSendAfterClose ==
    closed => main = "ended" /\ \A s \in Steps : pc[s] \in {"none", "done"}

\* What a consumer may rely on: a step's result follows its start, nothing is
\* announced twice, and an end event comes last.
EventProtocol ==
    \A i \in 1 .. Len(log) :
        /\ log[i].type \in EndEvents => i = Len(log)
        /\ log[i].type \in {"step_error", "step_complete"} =>
            \E h \in 1 .. i - 1 : log[h] = Event("step_start", log[i].step)
        /\ \A h \in 1 .. i - 1 : log[h].step = log[i].step =>
            /\ log[h].type = "step_start"
            /\ log[i].type # "step_start"

\* A step that only refers to steps it depends on, directly or not, never
\* fails for want of an output.
DeclaredRefsResolve ==
    \A s \in unresolved : ~(Refs(s) \subseteq Upstream(job.deps, s))

\* How the run ended, as the consumer is told.
Outcome ==
    CASE main \in {"loop", "wait"} -> "none"
      [] main \in EndEvents -> main
      [] OTHER -> log[Len(log)].type

\* The end the consumer is told of is the one the steps had: all of them
\* completed and in the result, or one failed and none still running; and the
\* task is reported as cancelled only if somebody cancelled it, while running
\* into its timeout makes it fail.
EndMatchesSteps ==
    /\ Outcome = "task_complete" =>
        /\ \A s \in Steps : status[s] = "completed"
        /\ task.result = Steps
    /\ Outcome \in {"task_error", "task_cancelled"} =>
        /\ \E s \in Steps : status[s] = "failed"
        /\ \A s \in Steps : status[s] # "running"
    /\ Outcome = "task_cancelled" => ctx = "canceled" \/ late = "done"

\* Until the run has ended and the consumer has everything, somebody can go
\* on: full channel or not, the goroutines, the wait for them and the consumer
\* never wait for each other in a circle.  Only a call may wait for something
\* outside, its server.
NeverStuck ==
    \/ main = "ended" /\ rcvd = Len(log)
    \/ rcvd < Len(log)
    \/ \E s \in Steps :
        \/ pc[s] \in {"begin", "call"}
        \/ pc[s] \in {"start", "error", "complete"} /\ Room
    \/ main \in {"loop", "return"}
    \/ main = "wait" /\ Joined
    \/ main \in EndEvents /\ Room

\* Every run ends and tells its consumer so, even if no server ever answers,
\* as long as calls notice that their context is done.
Ends == <>(closed /\ rcvd = Len(log))

\* "Timeout: task execution timeout": a task that runs into it ends.
DeadlineEndsTask == ctx = "deadline" ~> main = "ended"

\* The run of a task implements DagRun.
DagStatus(s) ==
    CASE status[s] = "pending" -> "waiting"
      [] status[s] = "completed" -> "ok"
      [] OTHER -> status[s]

DagOutcome ==
    CASE Outcome = "none" -> "none"
      [] Outcome = "task_complete" -> "completed"
      [] Outcome = "task_error" -> "failed"
      [] OTHER -> "cancelled"

Dag == INSTANCE DagRun WITH deps <- job.deps,
                            st <- [s \in Steps |-> DagStatus(s)],
                            outcome <- DagOutcome

ImplementsDagRun == Dag!Spec
=============================================================================
