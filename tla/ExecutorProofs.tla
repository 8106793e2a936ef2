---------------------------- MODULE ExecutorProofs ----------------------------
(***************************************************************************)
(* What the run executor_run shows for four graphs of four steps, proved   *)
(* for any task with a plan as Planner makes them, any capacity of the     *)
(* events channel and any transport.                                       *)
(***************************************************************************)
EXTENDS Executor, FiniteSetTheorems, TLAPS

(* What the waves of a well-planned task give us. *)
Planned ==
    /\ job.deps \in [Steps -> SUBSET Steps]
    /\ job.refs \in [Steps -> SUBSET Steps]
    /\ Waves \in Seq(SUBSET Steps)
    /\ \A s \in Steps : \E i \in 1 .. Len(Waves) : s \in Waves[i]
    /\ \A i, j \in 1 .. Len(Waves) : \A s \in Waves[i] \cap Waves[j] : i = j
    /\ \A i \in 1 .. Len(Waves) : \A s \in Waves[i] : \A d \in Deps(s) :
        \E h \in 1 .. i - 1 : d \in Waves[h]

(* The goroutine of a step has been where its wave says, and every step of an
   earlier wave has completed. *)
WaveState ==
    \A i \in 1 .. Len(Waves) : \A s \in Waves[i] :
        /\ i > wave <=> pc[s] = "none"
        /\ i < wave => pc[s] = "done" /\ status[s] = "completed"

(* A step's status is what its goroutine has made of it. *)
StepState ==
    \A s \in Steps :
        /\ pc[s] \in {"none", "start"} => status[s] = "pending"
        /\ pc[s] \in {"begin", "call"} => status[s] = "running"
        /\ pc[s] = "error" => status[s] = "failed"
        /\ pc[s] = "complete" => status[s] = "completed"
        /\ pc[s] = "done" => status[s] \in {"completed", "failed"}
        /\ s \in outputs <=> status[s] = "completed"
        /\ s \in errs <=> status[s] = "failed"

(* Outside of a wave no goroutine is left, and an error ends the loop. *)
MainState ==
    /\ main = "wait" => wave > 0
    /\ main # "wait" => \A s \in Steps : pc[s] \in {"none", "done"}
    /\ main = "loop" => errs = {}
    /\ main \in {"return", "ended"} =>
        /\ log # <<>>
        /\ log[Len(log)].type \in EndEvents
    /\ closed <=> main = "ended"

(* The inductive invariant. *)
IInv == TypeOK /\ Planned /\ WaveState /\ StepState /\ MainState

-----------------------------------------------------------------------------
LEMMA JobPlanned ==
    ASSUME ExecutorAssumption, job \in Jobs PROVE Planned
<1>1. /\ job.deps \in [Steps -> SUBSET Steps]
      /\ job.refs \in [Steps -> SUBSET Steps]
      /\ Waves \in Seq(SUBSET Steps)
      /\ WellPlanned(job.deps, Waves)
  BY DEF ExecutorAssumption, Waves
<1> DEFINE n == Len(Waves)
<1>2. n \in Nat /\ \A i \in 1 .. n : Waves[i] \in SUBSET Steps
  BY <1>1
<1>3. ASSUME NEW s \in Steps PROVE \E i \in 1 .. n : s \in Waves[i]
  <2>1. s \in Before(Waves, n + 1)
    BY <1>1 DEF WellPlanned
  <2> QED BY <2>1, <1>2 DEF Before
<1>4. ASSUME NEW i \in 1 .. n, NEW j \in 1 .. n, NEW s \in Waves[i] \cap Waves[j], i < j
      PROVE  FALSE
  <2>1. s \in Before(Waves, j)
    BY <1>2, <1>4 DEF Before
  <2> QED BY <2>1, <1>1 DEF WellPlanned
<1>5. ASSUME NEW i \in 1 .. n, NEW j \in 1 .. n, NEW s \in Waves[i] \cap Waves[j] PROVE i = j
  BY <1>2, <1>4
<1>6. ASSUME NEW i \in 1 .. n, NEW s \in Waves[i], NEW d \in Deps(s)
      PROVE  \E h \in 1 .. i - 1 : d \in Waves[h]
  <2>1. d \in Before(Waves, i)
    BY <1>1 DEF WellPlanned, Deps
  <2> QED BY <2>1 DEF Before
<1> QED BY <1>1, <1>3, <1>5, <1>6 DEF Planned

LEMMA InitIInv == ASSUME ExecutorAssumption, Init PROVE IInv
<1>1. Planned
  BY JobPlanned DEF Init
<1>2. TypeOK
  <2>1. Len(Waves) \in Nat
    BY <1>1 DEF Planned
  <2>2. task \in [status : {"running", "completed", "failed", "cancelled"}, result : SUBSET Steps]
    BY DEF Init
  <2>3. late \in {"none", "pending", "done"}
    BY DEF Init
  <2>4. /\ log \in Seq([type : StepEvents \cup EndEvents, step : Steps \cup {"task"}])
        /\ rcvd \in 0 .. Len(log)
    BY DEF Init
  <2>5. closed \in BOOLEAN
    BY DEF Init
  <2>6. /\ pc \in [Steps -> {"none", "start", "begin", "call", "error", "complete", "done"}]
        /\ status \in [Steps -> {"pending", "running", "completed", "failed"}]
        /\ job \in Jobs /\ wave \in 0 .. Len(Waves)
        /\ main \in {"loop", "wait", "return", "ended"} \cup EndEvents
        /\ ctx \in {"live", "canceled", "deadline"}
        /\ outputs \subseteq Steps /\ errs \subseteq Steps /\ unresolved \subseteq Steps
    BY <2>1 DEF Init
  <2> QED BY <2>2, <2>3, <2>4, <2>5, <2>6 DEF TypeOK
<1>3. WaveState
  BY <1>1 DEF Init, WaveState, Planned
<1>4. StepState /\ MainState
  BY DEF Init, StepState, MainState
<1> QED BY <1>1, <1>2, <1>3, <1>4 DEF IInv

(* What a send does to the log. *)
LEMMA Sent ==
    ASSUME TypeOK, NEW e \in [type : StepEvents \cup EndEvents, step : Steps \cup {"task"}],
           Send(e)
    PROVE  /\ log' \in Seq([type : StepEvents \cup EndEvents, step : Steps \cup {"task"}])
           /\ Len(log') = Len(log) + 1
           /\ log'[Len(log')] = e
           /\ \A i \in 1 .. Len(log) : log'[i] = log[i]
           /\ rcvd' = rcvd /\ rcvd' \in 0 .. Len(log')
           /\ closed' = closed
BY DEF TypeOK, Send

(* Each action leaves the variables within their types. *)
LEMMA TypeStep ==
    ASSUME ExecutorAssumption, TypeOK, Planned, Next PROVE TypeOK'
<1> USE DEF TypeOK, stepVars, chanVars, Waves
<1>1. ASSUME NEW s \in Steps, SendStart(s) PROVE TypeOK'
  <2>1. \E e \in [type : StepEvents \cup EndEvents, step : Steps \cup {"task"}] : Send(e)
    BY <1>1 DEF SendStart, Event, StepEvents, EndEvents
  <2>2. /\ log' \in Seq([type : StepEvents \cup EndEvents, step : Steps \cup {"task"}])
        /\ rcvd' \in 0 .. Len(log') /\ closed' = closed
    BY <2>1, Sent
  <2> QED BY <1>1, <2>2 DEF SendStart
<1>2. ASSUME NEW s \in Steps, Interpolate(s) PROVE TypeOK'
  BY <1>2 DEF Interpolate, Resolved, Fail
<1>3. ASSUME NEW s \in Steps, CallReturns(s) PROVE TypeOK'
  BY <1>3 DEF CallReturns, Succeed, Fail
<1>4. ASSUME NEW s \in Steps, CallAborts(s) PROVE TypeOK'
  BY <1>4 DEF CallAborts, Fail
<1>5. ASSUME NEW s \in Steps, SendResult(s) PROVE TypeOK'
  <2>1. \E e \in [type : StepEvents \cup EndEvents, step : Steps \cup {"task"}] : Send(e)
    BY <1>5 DEF SendResult, Event, StepEvents, EndEvents
  <2>2. /\ log' \in Seq([type : StepEvents \cup EndEvents, step : Steps \cup {"task"}])
        /\ rcvd' \in 0 .. Len(log') /\ closed' = closed
    BY <2>1, Sent
  <2> QED BY <1>5, <2>2 DEF SendResult
<1>6. ASSUME StartWave PROVE TypeOK'
  BY <1>6 DEF StartWave, MoreWaves
<1>7. ASSUME WaveOk PROVE TypeOK'
  BY <1>7 DEF WaveOk, Joined
<1>8. ASSUME WaveFailed PROVE TypeOK'
  BY <1>8 DEF WaveFailed, Joined, Verdict, EndEvents
<1>9. ASSUME Complete PROVE TypeOK'
  BY <1>9 DEF Complete, MoreWaves, EndEvents
<1>10. ASSUME SendEnd PROVE TypeOK'
  <2>1. \E e \in [type : StepEvents \cup EndEvents, step : Steps \cup {"task"}] : Send(e)
    BY <1>10 DEF SendEnd, Event, StepEvents, EndEvents
  <2>2. /\ log' \in Seq([type : StepEvents \cup EndEvents, step : Steps \cup {"task"}])
        /\ rcvd' \in 0 .. Len(log') /\ closed' = closed
    BY <2>1, Sent
  <2> QED BY <1>10, <2>2 DEF SendEnd
<1>11. ASSUME Return PROVE TypeOK'
  BY <1>11 DEF Return
<1>12. ASSUME Receive PROVE TypeOK'
  BY <1>12 DEF Receive
<1>13. ASSUME Cancel PROVE TypeOK'
  BY <1>13 DEF Cancel
<1>14. ASSUME Deadline PROVE TypeOK'
  BY <1>14 DEF Deadline
<1>15. ASSUME LateCancel PROVE TypeOK'
  BY <1>15 DEF LateCancel
<1> QED BY <1>1, <1>2, <1>3, <1>4, <1>5, <1>6, <1>7, <1>8, <1>9, <1>10, <1>11, <1>12, <1>13, <1>14, <1>15 DEF Next, StepNext, MainNext

(* Goroutines are started wave by wave. *)
LEMMA WaveStep ==
    ASSUME IInv, Next PROVE WaveState'
<1> USE DEF IInv, TypeOK, Planned, WaveState, StepState, MainState, stepVars, chanVars, Waves
<1>1. ASSUME NEW s \in Steps, SendStart(s) PROVE WaveState'
  BY <1>1 DEF SendStart, Event, StepEvents
<1>2. ASSUME NEW s \in Steps, Interpolate(s) PROVE WaveState'
  BY <1>2 DEF Interpolate, Resolved, Fail
<1>3. ASSUME NEW s \in Steps, CallReturns(s) PROVE WaveState'
  BY <1>3 DEF CallReturns, Succeed, Fail
<1>4. ASSUME NEW s \in Steps, CallAborts(s) PROVE WaveState'
  BY <1>4 DEF CallAborts, Fail
<1>5. ASSUME NEW s \in Steps, SendResult(s) PROVE WaveState'
  BY <1>5 DEF SendResult, Event, StepEvents
<1>6. ASSUME StartWave PROVE WaveState'
  <2> DEFINE w == wave + 1
  <2>1. /\ main = "loop" /\ errs = {} /\ w \in 1 .. Len(Waves) /\ wave' = w
        /\ status' = status /\ job' = job
        /\ pc' = [s \in Steps |-> IF s \in Waves[w] THEN "start" ELSE pc[s]]
    BY <1>6 DEF StartWave, MoreWaves
  <2> SUFFICES ASSUME NEW i \in 1 .. Len(Waves), NEW s \in Waves[i]
               PROVE  /\ i > w <=> pc'[s] = "none"
                      /\ i < w => pc'[s] = "done" /\ status'[s] = "completed"
    BY <2>1
  <2>2. s \in Steps
    OBVIOUS
  <2>3. s \in Waves[w] <=> i = w
    BY <2>1
  <2>4. CASE i = w
    BY <2>1, <2>2, <2>3, <2>4
  <2>5. CASE i # w
    <3>1. pc'[s] = pc[s]
      BY <2>1, <2>2, <2>3, <2>5
    <3>2. pc[s] \in {"none", "done"}
      BY <2>1, <2>2
    <3>3. status[s] # "failed"
      BY <2>1, <2>2
    <3>4. i <= wave => pc[s] = "done" /\ status[s] = "completed"
      BY <2>1, <2>2, <3>2, <3>3
    <3> QED BY <2>1, <2>5, <3>1, <3>4
  <2> QED BY <2>4, <2>5
<1>7. ASSUME WaveOk PROVE WaveState'
  BY <1>7 DEF WaveOk, Joined
<1>8. ASSUME WaveFailed PROVE WaveState'
  BY <1>8 DEF WaveFailed, Joined, Verdict, EndEvents
<1>9. ASSUME Complete PROVE WaveState'
  BY <1>9 DEF Complete, MoreWaves, EndEvents
<1>10. ASSUME SendEnd PROVE WaveState'
  BY <1>10 DEF SendEnd, EndEvents
<1>11. ASSUME Return PROVE WaveState'
  BY <1>11 DEF Return
<1>12. ASSUME Receive PROVE WaveState'
  BY <1>12 DEF Receive
<1>13. ASSUME Cancel PROVE WaveState'
  BY <1>13 DEF Cancel
<1>14. ASSUME Deadline PROVE WaveState'
  BY <1>14 DEF Deadline
<1>15. ASSUME LateCancel PROVE WaveState'
  BY <1>15 DEF LateCancel
<1> QED BY <1>1, <1>2, <1>3, <1>4, <1>5, <1>6, <1>7, <1>8, <1>9, <1>10, <1>11, <1>12, <1>13, <1>14, <1>15 DEF Next, StepNext, MainNext

(* Statuses follow the goroutines. *)
LEMMA StatusStep ==
    ASSUME IInv, Next PROVE StepState'
<1> USE DEF IInv, TypeOK, Planned, WaveState, StepState, MainState, stepVars, chanVars, Waves
<1>1. ASSUME NEW s \in Steps, SendStart(s) PROVE StepState'
  BY <1>1 DEF SendStart, Event, StepEvents
<1>2. ASSUME NEW s \in Steps, Interpolate(s) PROVE StepState'
  BY <1>2 DEF Interpolate, Resolved, Fail
<1>3. ASSUME NEW s \in Steps, CallReturns(s) PROVE StepState'
  BY <1>3 DEF CallReturns, Succeed, Fail
<1>4. ASSUME NEW s \in Steps, CallAborts(s) PROVE StepState'
  BY <1>4 DEF CallAborts, Fail
<1>5. ASSUME NEW s \in Steps, SendResult(s) PROVE StepState'
  BY <1>5 DEF SendResult, Event, StepEvents
<1>6. ASSUME StartWave PROVE StepState'
  BY <1>6, SMTT(30) DEF StartWave, MoreWaves
<1>7. ASSUME WaveOk PROVE StepState'
  BY <1>7 DEF WaveOk, Joined
<1>8. ASSUME WaveFailed PROVE StepState'
  BY <1>8 DEF WaveFailed, Joined, Verdict, EndEvents
<1>9. ASSUME Complete PROVE StepState'
  BY <1>9 DEF Complete, MoreWaves, EndEvents
<1>10. ASSUME SendEnd PROVE StepState'
  BY <1>10 DEF SendEnd, EndEvents
<1>11. ASSUME Return PROVE StepState'
  BY <1>11 DEF Return
<1>12. ASSUME Receive PROVE StepState'
  BY <1>12 DEF Receive
<1>13. ASSUME Cancel PROVE StepState'
  BY <1>13 DEF Cancel
<1>14. ASSUME Deadline PROVE StepState'
  BY <1>14 DEF Deadline
<1>15. ASSUME LateCancel PROVE StepState'
  BY <1>15 DEF LateCancel
<1> QED BY <1>1, <1>2, <1>3, <1>4, <1>5, <1>6, <1>7, <1>8, <1>9, <1>10, <1>11, <1>12, <1>13, <1>14, <1>15 DEF Next, StepNext, MainNext

(* The end of a run comes after all goroutines. *)
LEMMA MainStep ==
    ASSUME IInv, Next PROVE MainState'
<1> USE DEF IInv, TypeOK, Planned, WaveState, StepState, MainState, stepVars, chanVars, Waves
<1>1. ASSUME NEW s \in Steps, SendStart(s) PROVE MainState'
  <2>1. main = "wait" /\ main' = main
    BY <1>1 DEF SendStart
  <2>2. closed' = closed /\ wave' = wave
    BY <1>1 DEF SendStart, Send
  <2> QED BY <2>1, <2>2 DEF EndEvents
<1>2. ASSUME NEW s \in Steps, Interpolate(s) PROVE MainState'
  BY <1>2 DEF Interpolate, Resolved, Fail
<1>3. ASSUME NEW s \in Steps, CallReturns(s) PROVE MainState'
  BY <1>3 DEF CallReturns, Succeed, Fail
<1>4. ASSUME NEW s \in Steps, CallAborts(s) PROVE MainState'
  BY <1>4 DEF CallAborts, Fail
<1>5. ASSUME NEW s \in Steps, SendResult(s) PROVE MainState'
  <2>1. main = "wait" /\ main' = main
    BY <1>5 DEF SendResult
  <2>2. closed' = closed /\ wave' = wave
    BY <1>5 DEF SendResult, Send
  <2> QED BY <2>1, <2>2 DEF EndEvents
<1>6. ASSUME StartWave PROVE MainState'
  BY <1>6 DEF StartWave, MoreWaves
<1>7. ASSUME WaveOk PROVE MainState'
  BY <1>7 DEF WaveOk, Joined
<1>8. ASSUME WaveFailed PROVE MainState'
  BY <1>8 DEF WaveFailed, Joined, Verdict, EndEvents
<1>9. ASSUME Complete PROVE MainState'
  BY <1>9 DEF Complete, MoreWaves, EndEvents
<1>10. ASSUME SendEnd PROVE MainState'
  <2>1. \E e \in [type : StepEvents \cup EndEvents, step : Steps \cup {"task"}] :
            Send(e) /\ e.type \in EndEvents
    BY <1>10 DEF SendEnd, Event, EndEvents
  <2>2. log' # <<>> /\ log'[Len(log')].type \in EndEvents /\ closed' = closed
    BY <2>1, Sent
  <2>3. main' = "return" /\ pc' = pc /\ main \in EndEvents
    BY <1>10 DEF SendEnd
  <2> QED BY <2>2, <2>3 DEF EndEvents
<1>11. ASSUME Return PROVE MainState'
  BY <1>11 DEF Return
<1>12. ASSUME Receive PROVE MainState'
  BY <1>12 DEF Receive
<1>13. ASSUME Cancel PROVE MainState'
  BY <1>13 DEF Cancel
<1>14. ASSUME Deadline PROVE MainState'
  BY <1>14 DEF Deadline
<1>15. ASSUME LateCancel PROVE MainState'
  BY <1>15 DEF LateCancel
<1> QED BY <1>1, <1>2, <1>3, <1>4, <1>5, <1>6, <1>7, <1>8, <1>9, <1>10, <1>11, <1>12, <1>13, <1>14, <1>15 DEF Next, StepNext, MainNext

LEMMA Always == ASSUME ExecutorAssumption PROVE Spec => []IInv
<1>1. Init => IInv
  BY InitIInv
<1>2. IInv /\ [Next]_vars => IInv'
  <2>1. ASSUME IInv, Next PROVE IInv'
    <3>1. TypeOK'
      BY <2>1, TypeStep DEF IInv
    <3>2. job' = job
      BY <2>1 DEF Next, StepNext, MainNext, SendStart, Interpolate, SendResult, CallReturns,
                  CallAborts, StartWave, WaveOk, WaveFailed, Complete, SendEnd, Return,
                  Receive, Cancel, Deadline, LateCancel
    <3>3. Planned'
      BY <2>1, <3>2 DEF IInv, Planned, Waves, Deps
    <3> QED BY <2>1, <3>1, <3>3, WaveStep, StatusStep, MainStep DEF IInv
  <2>2. ASSUME IInv, UNCHANGED vars PROVE IInv'
    BY <2>2 DEF IInv, TypeOK, Planned, WaveState, StepState, MainState, Waves, Deps,
                vars, stepVars, chanVars
  <2> QED BY <2>1, <2>2
<1> QED BY <1>1, <1>2, PTL DEF Spec

(* In a run that has come to its outcome only the channel and the context
   change any more. *)
LEMMA Frozen ==
    ASSUME IInv, Next, main \notin {"loop", "wait"}
    PROVE  /\ UNCHANGED <<job, pc, status, outputs, unresolved>>
           /\ main' \notin {"loop", "wait"}
           /\ task'.result = task.result
           /\ Outcome' = Outcome
<1> USE DEF IInv, TypeOK, MainState, stepVars, chanVars
<1>1. ASSUME NEW s \in Steps, pc[s] \in {"start", "begin", "call", "error", "complete"} PROVE FALSE
  BY <1>1
<1>2. CASE SendEnd
  <2>1. /\ main \in EndEvents /\ main' = "return" /\ Send(Event(main, "task"))
        /\ UNCHANGED <<job, pc, status, outputs, unresolved, task>>
    BY <1>2 DEF SendEnd
  <2>2. log'[Len(log')].type = main
    BY <2>1, Sent DEF Event
  <2>3. Outcome = main
    BY <2>1 DEF Outcome, EndEvents
  <2> QED BY <2>1, <2>2, <2>3 DEF Outcome, EndEvents
<1>3. CASE Return
  BY <1>3 DEF Return, Outcome, EndEvents
<1>4. CASE Receive \/ Cancel \/ Deadline \/ LateCancel
  <2>1. /\ UNCHANGED <<job, pc, status, outputs, unresolved, main, log>>
        /\ task'.result = task.result
    BY <1>4 DEF Receive, Cancel, Deadline, LateCancel
  <2> QED BY <2>1 DEF Outcome
<1> QED BY <1>1, <1>2, <1>3, <1>4 DEF Next, StepNext, MainNext, SendStart, Interpolate, SendResult,
           CallReturns, CallAborts, StartWave, WaveOk, WaveFailed, Complete

(* Only the end of a wave gives a run its outcome. *)
LEMMA Undecided ==
    ASSUME IInv, Next, main \in {"loop", "wait"}
    PROVE  /\ Outcome = "none"
           /\ \/ main' \in {"loop", "wait"} /\ Outcome' = "none" /\ ~WaveFailed /\ ~Complete
              \/ (WaveFailed \/ Complete) /\ main' \in EndEvents /\ Outcome' = main'
<1>1. Outcome = "none"
  BY DEF Outcome, EndEvents
<1>2. CASE WaveFailed \/ Complete
  <2>1. main' \in EndEvents
    BY <1>2 DEF WaveFailed, Complete, EndEvents
  <2>2. Outcome' = main'
    BY <2>1 DEF Outcome, EndEvents
  <2> QED BY <1>1, <1>2, <2>1, <2>2
<1>3. CASE ~WaveFailed /\ ~Complete
  <2>1. main' \in {"loop", "wait"}
    BY <1>3 DEF Next, StepNext, MainNext, SendStart, Interpolate, SendResult, CallReturns,
                CallAborts, StartWave, WaveOk, SendEnd, Return, Receive, Cancel, Deadline,
                LateCancel, EndEvents
  <2>2. Outcome' = "none"
    BY <2>1 DEF Outcome, EndEvents
  <2> QED BY <1>1, <1>3, <2>1, <2>2
<1> QED BY <1>2, <1>3

-----------------------------------------------------------------------------
(* The variables of a run stay within their types. *)
THEOREM TypeCorrect == Spec => []TypeOK
<1>1. IInv => TypeOK
  BY DEF IInv
<1> QED BY <1>1, Always, ExecutorAssumption, PTL

LEMMA DependenciesDone == ASSUME IInv PROVE DependenciesFirst
<1> USE DEF IInv, Planned, Waves, Deps
<1> SUFFICES ASSUME NEW s \in Steps, status[s] # "pending", NEW d \in Deps(s)
             PROVE  status[d] = "completed" /\ d \in outputs
  BY DEF DependenciesFirst
<1>1. pc[s] # "none"
  BY DEF StepState
<1>2. PICK i \in 1 .. Len(Waves) : s \in Waves[i]
  OBVIOUS
<1>3. i <= wave
  BY <1>1, <1>2 DEF WaveState, TypeOK
<1>4. PICK h \in 1 .. i - 1 : d \in Waves[h]
  BY <1>2
<1>5. h \in 1 .. Len(Waves) /\ h < wave
  BY <1>3, <1>4 DEF TypeOK
<1>6. status[d] = "completed" /\ d \in Steps
  BY <1>4, <1>5 DEF WaveState
<1> QED BY <1>6 DEF StepState

(* A step begins only when everything it depends on has completed and its
   output can be read, whatever the goroutines of a wave do. *)
THEOREM OrderRespected == Spec => []DependenciesFirst
BY Always, DependenciesDone, ExecutorAssumption, PTL

(* When the channel is closed no goroutine is left that could send on it. *)
THEOREM ChannelSafe == Spec => []NoSendAfterClose
<1>1. IInv => NoSendAfterClose
  BY DEF IInv, MainState, NoSendAfterClose
<1> QED BY <1>1, Always, ExecutorAssumption, PTL

(* After a failure no goroutine is started. *)
THEOREM FailsFast == Spec => FailFast
<1> DEFINE Fast == \A s \in Steps : pc[s] = "none" /\ pc'[s] # "none" =>
                       \A t \in Steps : status[t] # "failed"
<1>1. IInv /\ [Next]_vars => Fast
  <2> SUFFICES ASSUME IInv, [Next]_vars, NEW s \in Steps, pc[s] = "none", pc'[s] # "none"
               PROVE  \A t \in Steps : status[t] # "failed"
    OBVIOUS
  <2>1. StartWave
    BY DEF IInv, TypeOK, Next, StepNext, MainNext, SendStart, Interpolate, Succeed, Fail, SendResult,
           CallReturns, CallAborts, WaveOk, WaveFailed, Complete, SendEnd, Return,
           Receive, Cancel, Deadline, LateCancel, vars, stepVars
  <2> QED BY <2>1 DEF StartWave, IInv, StepState, MainState
<1> QED BY <1>1, Always, ExecutorAssumption, PTL DEF Spec, FailFast

LEMMA DeclaredStep ==
    ASSUME IInv, DeclaredRefsResolve, Next PROVE DeclaredRefsResolve'
<1> USE DEF IInv, stepVars, chanVars
<1>1. job' = job
  BY DEF Next, StepNext, MainNext, SendStart, Interpolate, SendResult, CallReturns,
         CallAborts, StartWave, WaveOk, WaveFailed, Complete, SendEnd, Return,
         Receive, Cancel, Deadline, LateCancel
<1>2. ASSUME NEW s \in Steps, Interpolate(s), Refs(s) \subseteq Upstream(job.deps, s)
      PROVE  Resolved(s)
  <2> USE DEF Planned, Deps, Waves
  <2>1. pc[s] = "begin"
    BY <1>2 DEF Interpolate
  <2>2. PICK i \in 1 .. Len(Waves) : s \in Waves[i]
    OBVIOUS
  <2>3. i <= wave
    BY <2>1, <2>2 DEF WaveState, TypeOK
  <2> DEFINE C == {t \in Steps : \E h \in 1 .. i - 1 : t \in Waves[h]}
  <2>4. job.deps[s] \subseteq C
    BY <2>2
  <2>5. ASSUME NEW u \in C PROVE job.deps[u] \subseteq C
    <3>1. PICK h \in 1 .. i - 1 : u \in Waves[h]
      OBVIOUS
    <3>2. h \in 1 .. Len(Waves)
      BY <3>1
    <3>3. \A d \in job.deps[u] : \E g \in 1 .. h - 1 : d \in Waves[g]
      BY <3>1, <3>2
    <3>4. job.deps[u] \in SUBSET Steps
      OBVIOUS
    <3> QED BY <3>1, <3>3, <3>4
  <2>6. Upstream(job.deps, s) \subseteq C
    <3>1. C \in SUBSET DOMAIN job.deps
      OBVIOUS
    <3> HIDE DEF C
    <3> QED BY <2>4, <2>5, <3>1 DEF Upstream
  <2>7. C \subseteq outputs
    <3> SUFFICES ASSUME NEW t \in Steps, NEW h \in 1 .. i - 1, t \in Waves[h] PROVE t \in outputs
      OBVIOUS
    <3>1. h \in 1 .. Len(Waves) /\ h < wave
      BY <2>3 DEF TypeOK
    <3>2. status[t] = "completed"
      BY <3>1 DEF WaveState
    <3> QED BY <3>2 DEF StepState
  <2> QED BY <1>2, <2>6, <2>7 DEF Resolved
<1>3. ASSUME NEW s \in unresolved' \ unresolved PROVE s \in Steps /\ Interpolate(s) /\ ~Resolved(s)
  BY DEF Next, StepNext, MainNext, SendStart, Interpolate, SendResult, CallReturns,
         CallAborts, StartWave, WaveOk, WaveFailed, Complete, SendEnd, Return,
         Receive, Cancel, Deadline, LateCancel
<1>4. ASSUME NEW s \in unresolved', Refs(s) \subseteq Upstream(job.deps, s) PROVE FALSE
  <2>1. CASE s \in unresolved
    BY <1>4, <2>1 DEF DeclaredRefsResolve
  <2>2. CASE s \notin unresolved
    BY <1>2, <1>3, <1>4, <2>2
  <2> QED BY <2>1, <2>2
<1> QED BY <1>1, <1>4 DEF DeclaredRefsResolve, Refs

(* A step that refers only to steps it depends on, directly or not, finds
   their outputs: the wave it is in comes after all of theirs. *)
THEOREM DeclaredReferences == Spec => []DeclaredRefsResolve
<1>1. Init => DeclaredRefsResolve
  BY DEF Init, DeclaredRefsResolve
<1>2. IInv /\ DeclaredRefsResolve /\ [Next]_vars => DeclaredRefsResolve'
  <2>1. CASE IInv /\ DeclaredRefsResolve /\ Next
    BY <2>1, DeclaredStep
  <2>2. CASE DeclaredRefsResolve /\ UNCHANGED vars
    BY <2>2 DEF DeclaredRefsResolve, Refs, vars, stepVars
  <2> QED BY <2>1, <2>2
<1> QED BY <1>1, <1>2, Always, ExecutorAssumption, PTL DEF Spec

-----------------------------------------------------------------------------
(* How a run ended is what its steps say. *)
StepsAgree ==
    /\ Outcome = "task_complete" =>
        /\ \A s \in Steps : status[s] = "completed"
        /\ task.result = Steps
    /\ Outcome \in {"task_error", "task_cancelled"} =>
        /\ \E s \in Steps : status[s] = "failed"
        /\ \A s \in Steps : status[s] # "running"

LEMMA EndStep ==
    ASSUME IInv, StepsAgree, Next PROVE StepsAgree'
<1>1. CASE main \notin {"loop", "wait"}
  BY <1>1, Frozen DEF StepsAgree
<1>2. CASE main \in {"loop", "wait"} /\ ~WaveFailed /\ ~Complete
  BY <1>2, Undecided DEF StepsAgree
<1>3. CASE WaveFailed
  <2>1. main = "wait" /\ errs # {} /\ status' = status /\ main' # "task_complete"
    BY <1>3 DEF WaveFailed, stepVars
  <2>2. \E s \in Steps : status[s] = "failed"
    BY <2>1 DEF IInv, TypeOK, StepState
  <2>3. PICK i \in 1 .. Len(Waves) : i = wave
    BY <2>1 DEF IInv, MainState, TypeOK
  <2>4. ASSUME NEW s \in Steps PROVE status[s] # "running"
    <3>1. PICK h \in 1 .. Len(Waves) : s \in Waves[h]
      BY DEF IInv, Planned
    <3>2. pc[s] \in {"none", "done"}
      <4>1. CASE h > wave
        BY <3>1, <4>1 DEF IInv, WaveState
      <4>2. CASE h < wave
        BY <3>1, <4>2 DEF IInv, WaveState
      <4>3. CASE h = wave
        BY <1>3, <3>1, <4>3 DEF WaveFailed, Joined
      <4> QED BY <2>3, <4>1, <4>2, <4>3
    <3> QED BY <3>2 DEF IInv, TypeOK, StepState
  <2>5. Outcome' # "task_complete"
    BY <1>3, <2>1, Undecided
  <2> QED BY <2>1, <2>2, <2>4, <2>5 DEF StepsAgree
<1>4. CASE Complete
  <2>1. main = "loop" /\ ~MoreWaves /\ status' = status /\ main' = "task_complete"
        /\ task'.result = outputs
    BY <1>4 DEF Complete, stepVars
  <2>2. ASSUME NEW s \in Steps PROVE status[s] = "completed" /\ s \in outputs
    <3>1. PICK h \in 1 .. Len(Waves) : s \in Waves[h]
      BY DEF IInv, Planned
    <3>2. h <= wave
      BY <2>1 DEF MoreWaves, IInv, TypeOK, Planned
    <3>3. pc[s] = "done"
      BY <2>1, <3>1, <3>2 DEF IInv, WaveState, MainState, TypeOK
    <3> QED BY <2>1, <3>3 DEF IInv, StepState, MainState
  <2>3. Outcome' = "task_complete"
    BY <1>4, <2>1, Undecided
  <2>4. outputs = Steps
    BY <2>2 DEF IInv, TypeOK
  <2> QED BY <2>1, <2>2, <2>3, <2>4 DEF StepsAgree
<1> QED BY <1>1, <1>2, <1>3, <1>4

LEMMA StepsAgreeAlways == ASSUME ExecutorAssumption PROVE Spec => []StepsAgree
<1>1. Init => StepsAgree
  BY DEF Init, StepsAgree, Outcome, EndEvents
<1>2. IInv /\ StepsAgree /\ [Next]_vars => StepsAgree'
  <2>1. CASE IInv /\ StepsAgree /\ Next
    BY <2>1, EndStep
  <2>2. CASE StepsAgree /\ UNCHANGED vars
    BY <2>2 DEF StepsAgree, Outcome, vars, stepVars, chanVars
  <2> QED BY <2>1, <2>2
<1> QED BY <1>1, <1>2, Always, PTL DEF Spec

(* Only CancelTask makes the status "cancelled" while the run lasts. *)
Asked ==
    /\ main \in {"loop", "wait"} /\ task.status = "cancelled" => late = "done"
    /\ Outcome = "task_cancelled" => ctx = "canceled" \/ late = "done"

LEMMA AskedStep == ASSUME IInv, Asked, Next PROVE Asked'
<1> USE DEF Asked, IInv, TypeOK, stepVars, chanVars
<1>1. /\ ctx = "canceled" => ctx' = "canceled"
      /\ late = "done" => late' = "done"
  BY DEF Next, StepNext, MainNext, SendStart, Interpolate, SendResult, CallReturns,
         CallAborts, StartWave, WaveOk, WaveFailed, Complete, SendEnd, Return,
         Receive, Cancel, Deadline, LateCancel
<1>2. CASE main \notin {"loop", "wait"}
  BY <1>1, <1>2, Frozen
<1>3. CASE main \in {"loop", "wait"} /\ ~WaveFailed /\ ~Complete
  <2>1. task' = task \/ late' = "done"
    BY <1>3 DEF Next, StepNext, MainNext, SendStart, Interpolate, SendResult, CallReturns,
                CallAborts, StartWave, WaveOk, SendEnd, Return, Receive, Cancel, Deadline,
                LateCancel, EndEvents
  <2>2. Outcome' = "none"
    BY <1>3, Undecided
  <2> QED BY <1>1, <1>3, <2>1, <2>2
<1>4. CASE WaveFailed
  <2>1. Outcome' = main' /\ main' \in EndEvents /\ main \in {"loop", "wait"}
    BY <1>4, Undecided DEF WaveFailed
  <2>2. main' = "task_cancelled" => ctx = "canceled" \/ task.status = "cancelled"
    BY <1>4 DEF WaveFailed, Verdict
  <2> QED BY <1>1, <2>1, <2>2 DEF EndEvents
<1>5. CASE Complete
  <2>1. Outcome' = "task_complete" /\ main' = "task_complete"
    BY <1>5, Undecided DEF Complete
  <2> QED BY <2>1
<1> QED BY <1>2, <1>3, <1>4, <1>5

LEMMA AskedAlways == ASSUME ExecutorAssumption PROVE Spec => []Asked
<1>1. Init => Asked
  BY DEF Init, Asked, Outcome, EndEvents
<1>2. IInv /\ Asked /\ [Next]_vars => Asked'
  <2>1. CASE IInv /\ Asked /\ Next
    BY <2>1, AskedStep
  <2>2. CASE Asked /\ UNCHANGED vars
    BY <2>2 DEF Asked, Outcome, vars, stepVars, chanVars
  <2> QED BY <2>1, <2>2
<1> QED BY <1>1, <1>2, Always, PTL DEF Spec

(* What the consumer is told of the end is what became of the steps; a task
   whose time is up fails, and cancelled is only what somebody cancelled. *)
THEOREM EndIsTrue == Spec => []EndMatchesSteps
<1>1. StepsAgree /\ Asked => EndMatchesSteps
  BY DEF StepsAgree, Asked, EndMatchesSteps
<1> QED BY <1>1, StepsAgreeAlways, AskedAlways, ExecutorAssumption, PTL

-----------------------------------------------------------------------------
(* Every step of a run is a step of DagRun or changes nothing it can see. *)
LEMMA DagStep ==
    ASSUME IInv, StepsAgree', Next PROVE [Dag!Next]_(Dag!dagVars)
<1> USE DEF IInv, TypeOK, stepVars, chanVars
<1>1. job' = job
  BY DEF Next, StepNext, MainNext, SendStart, Interpolate, SendResult, CallReturns,
         CallAborts, StartWave, WaveOk, WaveFailed, Complete, SendEnd, Return,
         Receive, Cancel, Deadline, LateCancel
<1>2. ASSUME status' = status, Outcome' = Outcome PROVE UNCHANGED Dag!dagVars
  BY <1>1, <1>2 DEF Dag!dagVars, DagStatus, DagOutcome
<1>3. CASE main \notin {"loop", "wait"}
  BY <1>2, <1>3, Frozen
<1>4. ASSUME NEW s \in Steps, main \in {"loop", "wait"}, Outcome' = "none", SendStart(s)
      PROVE  Dag!Begin(s)
  <2>1. pc[s] = "start" /\ status' = [status EXCEPT ![s] = "running"]
    BY <1>4 DEF SendStart
  <2>2. status[s] = "pending" /\ Outcome = "none"
    BY <1>4, <2>1, Undecided DEF StepState
  <2>3. ASSUME NEW d \in Deps(s) PROVE status[d] = "completed" /\ d \in Steps
    <3>1. PICK i \in 1 .. Len(Waves) : s \in Waves[i]
      BY DEF Planned
    <3>2. i <= wave
      BY <2>1, <3>1 DEF WaveState
    <3>3. PICK h \in 1 .. i - 1 : d \in Waves[h]
      BY <3>1, <2>3 DEF Planned
    <3>4. h \in 1 .. Len(Waves) /\ h < wave
      BY <3>2, <3>3
    <3> QED BY <3>3, <3>4 DEF WaveState, Planned
  <2>4. [t \in Steps |-> DagStatus(t)]' = [[t \in Steps |-> DagStatus(t)] EXCEPT ![s] = "running"]
    BY <2>1 DEF DagStatus
  <2>5. DagOutcome = "none" /\ DagOutcome' = DagOutcome
    BY <1>4, <2>2 DEF DagOutcome
  <2> QED BY <1>1, <2>2, <2>3, <2>4, <2>5 DEF Dag!Begin, DagStatus, Deps
<1>5. ASSUME NEW s \in Steps, main \in {"loop", "wait"}, Outcome' = "none", status[s] = "running",
             NEW v \in {"completed", "failed"}, status' = [status EXCEPT ![s] = v]
      PROVE  Dag!Finish(s)
  <2>1. [t \in Steps |-> DagStatus(t)]'
            = [[t \in Steps |-> DagStatus(t)] EXCEPT ![s] = IF v = "completed" THEN "ok" ELSE v]
    BY <1>5 DEF DagStatus
  <2>2. DagOutcome' = DagOutcome
    BY <1>5, Undecided DEF DagOutcome
  <2> QED BY <1>1, <1>5, <2>1, <2>2 DEF Dag!Finish, DagStatus
<1>6. CASE WaveFailed \/ Complete
  <2>1. Outcome = "none" /\ Outcome' \in EndEvents /\ status' = status
    BY <1>6, Undecided DEF WaveFailed, Complete
  <2>2. /\ Outcome' = "task_complete" => \A s \in Steps : status[s] = "completed"
        /\ Outcome' # "task_complete" => \E s \in Steps : status[s] = "failed"
        /\ \A s \in Steps : status[s] # "running"
    BY <2>1 DEF StepsAgree, EndEvents
  <2>3. \A s \in Steps : DagStatus(s) # "running"
    BY <2>2 DEF DagStatus
  <2>4. DagOutcome = "none"
    BY <2>1 DEF DagOutcome
  <2>5. \/ /\ DagOutcome' = "completed"
           /\ \A s \in Steps : DagStatus(s) = "ok"
        \/ /\ DagOutcome' \in {"failed", "cancelled"}
           /\ \E s \in Steps : DagStatus(s) = "failed"
    BY <2>1, <2>2 DEF DagOutcome, DagStatus, EndEvents
  <2>6. [t \in Steps |-> DagStatus(t)]' = [t \in Steps |-> DagStatus(t)]
    BY <2>1 DEF DagStatus
  <2>7. Dag!Conclude
    BY <1>1, <2>3, <2>4, <2>5, <2>6 DEF Dag!Conclude, Dag!Quiet
  <2> QED BY <2>7 DEF Dag!Next
<1>7. CASE main \in {"loop", "wait"} /\ ~WaveFailed /\ ~Complete
  <2>1. Outcome = "none" /\ Outcome' = "none" /\ main \in {"loop", "wait"}
    BY <1>7, Undecided
  <2>2. ASSUME NEW s \in Steps, SendStart(s) PROVE Dag!Next
    BY <1>4, <2>1, <2>2 DEF Dag!Next
  <2>3. ASSUME NEW s \in Steps, Interpolate(s) \/ CallReturns(s) \/ CallAborts(s), status' # status
        PROVE  Dag!Next
    <3>1. status[s] = "running"
      BY <2>3 DEF Interpolate, CallReturns, CallAborts, StepState
    <3>2. \E v \in {"completed", "failed"} : status' = [status EXCEPT ![s] = v]
      BY <2>3 DEF Interpolate, CallReturns, CallAborts, Succeed, Fail
    <3> QED BY <1>5, <2>1, <3>1, <3>2 DEF Dag!Next
  <2>4. \/ status' = status
        \/ \E s \in Steps : SendStart(s) \/ Interpolate(s) \/ CallReturns(s) \/ CallAborts(s)
    BY DEF Next, StepNext, MainNext, SendResult, StartWave, WaveOk, WaveFailed, Complete,
           SendEnd, Return, Receive, Cancel, Deadline, LateCancel
  <2> QED BY <1>2, <2>1, <2>2, <2>3, <2>4
<1> QED BY <1>3, <1>6, <1>7

(* A run, with its waves, goroutines, context and events, does what DagRun
   says a run does. *)
THEOREM RunImplementsDag == Spec => ImplementsDagRun
<1>1. Init => Dag!Init
  <2> SUFFICES ASSUME Init PROVE Dag!Init
    OBVIOUS
  <2>1. job.deps \in [Steps -> SUBSET Steps]
    BY JobPlanned, ExecutorAssumption DEF Init, Planned
  <2>2. DagOutcome = "none"
    BY DEF Init, DagOutcome, Outcome, EndEvents
  <2>3. [s \in Steps |-> DagStatus(s)] = [s \in Steps |-> "waiting"]
    BY DEF Init, DagStatus
  <2> QED BY <2>1, <2>2, <2>3 DEF Dag!Init
<1>2. IInv /\ StepsAgree' /\ [Next]_vars => [Dag!Next]_(Dag!dagVars)
  <2>1. CASE IInv /\ StepsAgree' /\ Next
    BY <2>1, DagStep
  <2>2. CASE UNCHANGED vars
    BY <2>2 DEF Dag!dagVars, DagStatus, DagOutcome, Outcome, vars, stepVars, chanVars
  <2> QED BY <2>1, <2>2
<1> QED BY <1>1, <1>2, Always, StepsAgreeAlways, ExecutorAssumption, PTL DEF Spec, ImplementsDagRun, Dag!Spec

-----------------------------------------------------------------------------
(* The log has the events of the goroutines that have sent them. *)
Logged ==
    /\ \A i \in 1 .. Len(log) :
        /\ log[i].type \in EndEvents => main \in {"return", "ended"}
        /\ log[i].type = "step_start" =>
            log[i].step \in Steps /\ pc[log[i].step] \notin {"none", "start"}
        /\ log[i].type \in {"step_error", "step_complete"} =>
            log[i].step \in Steps /\ pc[log[i].step] = "done"
    /\ \A s \in Steps : pc[s] \notin {"none", "start"} =>
        \E h \in 1 .. Len(log) : log[h] = Event("step_start", s)

LEMMA LogKept ==
    ASSUME IInv, Logged, EventProtocol, log' = log,
           main \in {"return", "ended"} => main' \in {"return", "ended"},
           \A s \in Steps : /\ pc[s] \notin {"none", "start"} <=> pc'[s] \notin {"none", "start"}
                            /\ pc[s] = "done" => pc'[s] = "done"
    PROVE  (Logged /\ EventProtocol)'
<1>1. Logged'
  BY DEF Logged, Event
<1>2. EventProtocol'
  BY DEF EventProtocol, Event
<1> QED BY <1>1, <1>2

LEMMA LogTyped ==
    ASSUME TypeOK, NEW i \in 1 .. Len(log)
    PROVE  log[i].type \in StepEvents \cup EndEvents /\ log[i].step \in Steps \cup {"task"}
<1> DEFINE E == [type : StepEvents \cup EndEvents, step : Steps \cup {"task"}]
<1>1. log \in Seq(E)
  BY DEF TypeOK
<1>2. log[i] \in E
  <2> HIDE DEF E
  <2> QED BY <1>1
<1> QED BY <1>2

(* One more event, which the earlier ones agree with. *)
LEMMA LogGrown ==
    ASSUME Logged, EventProtocol, Len(log) \in Nat, NEW e,
           Len(log') = Len(log) + 1, log'[Len(log')] = e,
           \A i \in 1 .. Len(log) : log'[i] = log[i],
           \A i \in 1 .. Len(log) : log[i].type \notin EndEvents,
           e.type \in {"step_error", "step_complete"} =>
               \E h \in 1 .. Len(log) : log[h] = Event("step_start", e.step),
           \A h \in 1 .. Len(log) : log[h].step = e.step =>
               log[h].type = "step_start" /\ e.type # "step_start"
    PROVE  EventProtocol'
<1> SUFFICES ASSUME NEW i \in 1 .. Len(log')
             PROVE  /\ log'[i].type \in EndEvents => i = Len(log')
                    /\ log'[i].type \in {"step_error", "step_complete"} =>
                        \E h \in 1 .. i - 1 : log'[h] = Event("step_start", log'[i].step)
                    /\ \A h \in 1 .. i - 1 : log'[h].step = log'[i].step =>
                        /\ log'[h].type = "step_start"
                        /\ log'[i].type # "step_start"
  BY DEF EventProtocol, EndEvents, Event
<1>1. CASE i = Len(log')
  <2>1. i - 1 = Len(log) /\ log'[i] = e
    BY <1>1
  <2> QED BY <1>1, <2>1
<1>2. CASE i # Len(log')
  <2>1. i \in 1 .. Len(log) /\ log'[i] = log[i] /\ \A h \in 1 .. i - 1 : log'[h] = log[h]
    BY <1>2
  <2> QED BY <2>1 DEF EventProtocol
<1> QED BY <1>1, <1>2

LEMMA LogStep ==
    ASSUME ExecutorAssumption, IInv, Logged, EventProtocol, Next PROVE (Logged /\ EventProtocol)'
<1> USE DEF IInv, stepVars, chanVars
<1>0. /\ Len(log) \in Nat
      /\ pc \in [Steps -> {"none", "start", "begin", "call", "error", "complete", "done"}]
      /\ \A i \in 1 .. Len(log) :
            log[i].type \in StepEvents \cup EndEvents /\ log[i].step \in Steps \cup {"task"}
  BY LogTyped DEF TypeOK
<1>1. ASSUME NEW s \in Steps, SendStart(s) PROVE (Logged /\ EventProtocol)'
  <2> DEFINE e == Event("step_start", s)
  <2>1. /\ Send(e) /\ pc[s] = "start" /\ main' = main
        /\ pc' = [pc EXCEPT ![s] = "begin"]
    BY <1>1 DEF SendStart
  <2>2. e \in [type : StepEvents \cup EndEvents, step : Steps \cup {"task"}]
    BY DEF Event, StepEvents
  <2>3. /\ Len(log') = Len(log) + 1 /\ log'[Len(log')] = e
        /\ \A i \in 1 .. Len(log) : log'[i] = log[i]
    BY <2>1, <2>2, Sent
  <2>4. main = "wait"
    BY <2>1 DEF MainState
  <2>5. \A i \in 1 .. Len(log) : log[i].type \notin EndEvents /\ log[i].step # s
    BY <1>0, <2>1, <2>4 DEF Logged, StepEvents
  <2>6. Logged'
    BY <1>0, <2>1, <2>3, <2>4, <2>5 DEF Logged, Event, EndEvents
  <2>7. EventProtocol'
    BY <1>0, <2>3, <2>5, LogGrown DEF Event
  <2> QED BY <2>6, <2>7
<1>2. ASSUME NEW s \in Steps, SendResult(s) PROVE (Logged /\ EventProtocol)'
  <2>1. PICK t \in {"step_error", "step_complete"} :
            /\ Send(Event(t, s)) /\ pc[s] \in {"error", "complete"} /\ main' = main
            /\ pc' = [pc EXCEPT ![s] = "done"]
    BY <1>2 DEF SendResult
  <2> DEFINE e == Event(t, s)
  <2>2. e \in [type : StepEvents \cup EndEvents, step : Steps \cup {"task"}]
    BY DEF Event, StepEvents
  <2>3. /\ Len(log') = Len(log) + 1 /\ log'[Len(log')] = e
        /\ \A i \in 1 .. Len(log) : log'[i] = log[i]
    BY <2>1, <2>2, Sent
  <2>4. main = "wait"
    BY <2>1 DEF MainState
  <2>5. \A i \in 1 .. Len(log) :
            log[i].type \notin EndEvents /\ (log[i].step = s => log[i].type = "step_start")
    BY <1>0, <2>1, <2>4 DEF Logged, StepEvents
  <2>6. \E h \in 1 .. Len(log) : log[h] = Event("step_start", s)
    BY <2>1 DEF Logged
  <2>7. Logged'
    BY <1>0, <2>1, <2>3, <2>4, <2>5 DEF Logged, Event, EndEvents
  <2>8. EventProtocol'
    BY <1>0, <2>3, <2>5, <2>6, LogGrown DEF Event
  <2> QED BY <2>7, <2>8
<1>3. ASSUME SendEnd PROVE (Logged /\ EventProtocol)'
  <2> DEFINE e == Event(main, "task")
  <2>1. main \in EndEvents /\ Send(e) /\ main' = "return" /\ pc' = pc
    BY <1>3 DEF SendEnd
  <2>2. e \in [type : StepEvents \cup EndEvents, step : Steps \cup {"task"}]
    BY <2>1 DEF Event
  <2>3. /\ Len(log') = Len(log) + 1 /\ log'[Len(log')] = e
        /\ \A i \in 1 .. Len(log) : log'[i] = log[i]
    BY <2>1, <2>2, Sent
  <2>4. \A i \in 1 .. Len(log) : log[i].type \notin EndEvents /\ log[i].step # "task"
    BY <1>0, <2>1 DEF Logged, StepEvents, EndEvents, ExecutorAssumption
  <2>5. Logged'
    BY <1>0, <2>1, <2>3, <2>4 DEF Logged, Event, EndEvents
  <2>6. e.step = "task" /\ e.type \notin {"step_start", "step_error", "step_complete"}
    BY <2>1 DEF Event, EndEvents
  <2>7. /\ Len(log) \in Nat
        /\ \A i \in 1 .. Len(log) : log[i].type \notin EndEvents
        /\ \A h \in 1 .. Len(log) : log[h].step # e.step
    BY <1>0, <2>4, <2>6
  <2>8. EventProtocol'
    <3> HIDE DEF e
    <3> QED BY <1>0, <2>3, <2>6, <2>7, LogGrown
  <2> QED BY <2>5, <2>8
<1>4. CASE StartWave
  <2>1. /\ log' = log /\ main = "loop" /\ wave + 1 \in 1 .. Len(Waves)
        /\ pc' = [s \in Steps |-> IF s \in Waves[wave + 1] THEN "start" ELSE pc[s]]
    BY <1>4 DEF StartWave, MoreWaves, Planned, TypeOK
  <2>2. \A s \in Waves[wave + 1] : pc[s] = "none"
    BY <2>1 DEF WaveState, TypeOK
  <2>3. main \in {"return", "ended"} => main' \in {"return", "ended"}
    BY <2>1
  <2>4. \A s \in Steps : /\ pc[s] \notin {"none", "start"} <=> pc'[s] \notin {"none", "start"}
                         /\ pc[s] = "done" => pc'[s] = "done"
    BY <2>1, <2>2
  <2> QED BY <2>1, <2>3, <2>4, LogKept
<1>5. ASSUME ~StartWave, ~SendEnd, \A s \in Steps : ~SendStart(s) /\ ~SendResult(s)
      PROVE  (Logged /\ EventProtocol)'
  <2>1. log' = log
    BY <1>5 DEF Next, StepNext, MainNext, Interpolate, CallReturns, CallAborts, WaveOk,
                WaveFailed, Complete, Return, Receive, Cancel, Deadline, LateCancel
  <2>2. main \in {"return", "ended"} => main' \in {"return", "ended"}
    BY <1>5 DEF Next, StepNext, MainNext, Interpolate, CallReturns, CallAborts, WaveOk,
                WaveFailed, Complete, Return, Receive, Cancel, Deadline, LateCancel
  <2>3. \A s \in Steps : /\ pc[s] \notin {"none", "start"} <=> pc'[s] \notin {"none", "start"}
                         /\ pc[s] = "done" => pc'[s] = "done"
    BY <1>0, <1>5 DEF Next, StepNext, MainNext, Interpolate, Succeed, Fail, CallReturns, CallAborts,
                WaveOk, WaveFailed, Complete, Return, Receive, Cancel, Deadline, LateCancel
  <2> QED BY <2>1, <2>2, <2>3, LogKept
<1> QED BY <1>1, <1>2, <1>3, <1>4, <1>5

(* The consumer sees the start of a step before its result, nothing twice,
   and the end of the task last. *)
THEOREM EventsInOrder == Spec => []EventProtocol
<1>1. Init => Logged /\ EventProtocol
  BY DEF Init, Logged, EventProtocol
<1>2. IInv /\ Logged /\ EventProtocol /\ [Next]_vars => (Logged /\ EventProtocol)'
  <2>1. CASE IInv /\ Logged /\ EventProtocol /\ Next
    BY <2>1, LogStep, ExecutorAssumption
  <2>2. CASE Logged /\ EventProtocol /\ UNCHANGED vars
    BY <2>2 DEF Logged, EventProtocol, vars, stepVars, chanVars
  <2> QED BY <2>1, <2>2
<1> QED BY <1>1, <1>2, Always, ExecutorAssumption, PTL DEF Spec

-----------------------------------------------------------------------------
(* Nobody waits for ever for somebody else of the run: while the channel has
   room, whoever main waits for can go on, and while it has none, the consumer
   can. *)
LEMMA SomebodyMoves == ASSUME ExecutorAssumption, IInv PROVE NeverStuck
<1> USE DEF IInv
<1> SUFFICES ASSUME rcvd = Len(log), main # "ended" PROVE NeverStuck
  BY DEF NeverStuck, TypeOK
<1>1. Room
  BY DEF ExecutorAssumption, Room, TypeOK
<1>2. CASE main = "wait" /\ ~Joined
  <2>1. wave \in 1 .. Len(Waves)
    BY <1>2 DEF TypeOK, MainState, Planned
  <2>2. PICK s \in Waves[wave] : pc[s] # "done"
    BY <1>2 DEF Joined
  <2>3. s \in Steps /\ pc[s] # "none"
    BY <2>1, <2>2 DEF Planned, WaveState
  <2>4. pc[s] \in {"begin", "call"} \/ pc[s] \in {"start", "error", "complete"}
    BY <2>2, <2>3 DEF TypeOK
  <2> QED BY <1>1, <2>3, <2>4 DEF NeverStuck
<1>3. CASE main # "wait" \/ Joined
  BY <1>1, <1>3 DEF NeverStuck, TypeOK
<1> QED BY <1>2, <1>3

(* A run never comes to a point where its goroutines, the wait for them and
   the consumer all wait for each other, however small the channel is. *)
THEOREM NoDeadlock == Spec => []NeverStuck
BY Always, SomebodyMoves, ExecutorAssumption, PTL

-----------------------------------------------------------------------------
(* Why every run ends: it can only do so much.  Each goroutine has a number of
   steps left, and so has main; each of those may put one event on the
   channel, which the consumer takes off again. *)
Left(label) ==
    CASE label = "none" -> 5
      [] label = "start" -> 4
      [] label = "begin" -> 3
      [] label = "call" -> 2
      [] label = "done" -> 0
      [] OTHER -> 1

Todo == {w \in Steps \X (1 .. 5) : w[2] <= Left(pc[w[1]])}

MainLeft ==
    CASE main = "loop" -> 2 * (Len(Waves) - wave) + 3
      [] main = "wait" -> 2 * (Len(Waves) - wave) + 4
      [] main \in EndEvents -> 2
      [] main = "return" -> 1
      [] OTHER -> 0

CtxLeft == IF ctx = "live" THEN 1 ELSE 0
LateLeft == IF late = "pending" THEN 1 ELSE 0

WorkLeft == 2 * (Cardinality(Todo) + MainLeft + CtxLeft + LateLeft) + (Len(log) - rcvd)

LEMMA LeftType == \A l : Left(l) \in 0 .. 5
BY DEF Left

LEMMA TodoType == ASSUME ExecutorAssumption PROVE IsFiniteSet(Todo) /\ Cardinality(Todo) \in Nat
<1>1. IsFiniteSet(1 .. 5)
  BY 1 \in Int, 5 \in Int, FS_Interval
<1>2. IsFiniteSet(Steps \X (1 .. 5))
  BY <1>1, FS_Product DEF ExecutorAssumption
<1> QED BY <1>2, FS_Subset, FS_CardinalityType DEF Todo

(* A goroutine that goes on has less to do. *)
LEMMA TodoShrinks ==
    ASSUME ExecutorAssumption, \A s \in Steps : Left(pc'[s]) <= Left(pc[s])
    PROVE  /\ Cardinality(Todo)' \in Nat
           /\ Cardinality(Todo)' <= Cardinality(Todo)
           /\ (\E s \in Steps : Left(pc'[s]) < Left(pc[s])) => Cardinality(Todo)' < Cardinality(Todo)
<1>1. Todo' \subseteq Todo
  <2> SUFFICES ASSUME NEW w \in Steps \X (1 .. 5), w[2] <= Left(pc'[w[1]])
               PROVE  w[2] <= Left(pc[w[1]])
    BY DEF Todo
  <2>1. w[1] \in Steps /\ w[2] \in 1 .. 5
    OBVIOUS
  <2> QED BY <2>1, LeftType
<1>2. /\ IsFiniteSet(Todo) /\ Cardinality(Todo) \in Nat
      /\ Cardinality(Todo') \in Nat /\ Cardinality(Todo') <= Cardinality(Todo)
      /\ Todo' # Todo => Cardinality(Todo') # Cardinality(Todo)
  BY <1>1, TodoType, FS_Subset, FS_CardinalityType
<1>3. ASSUME NEW s \in Steps, Left(pc'[s]) < Left(pc[s]) PROVE Todo' # Todo
  <2>1. Left(pc[s]) \in 1 .. 5 /\ Left(pc'[s]) \in 0 .. 5
    BY <1>3, LeftType
  <2>2. <<s, Left(pc[s])>> \in Todo
    BY <2>1 DEF Todo
  <2>3. <<s, Left(pc[s])>> \notin Todo'
    BY <2>1, <1>3 DEF Todo
  <2> QED BY <2>2, <2>3
<1> QED BY <1>2, <1>3

LEMMA RestType ==
    ASSUME IInv
    PROVE  /\ MainLeft \in Nat /\ CtxLeft \in Nat /\ LateLeft \in Nat
           /\ Len(log) \in Nat /\ rcvd \in Nat /\ Len(log) - rcvd \in Nat
<1>1. Len(Waves) \in Nat /\ wave \in Nat /\ wave <= Len(Waves)
  BY DEF IInv, TypeOK, Planned
<1>2. MainLeft \in Nat
  BY <1>1 DEF MainLeft
<1> QED BY <1>2 DEF IInv, TypeOK, CtxLeft, LateLeft

LEMMA WorkLeftType == ASSUME ExecutorAssumption, IInv PROVE WorkLeft \in Nat
BY TodoType, RestType DEF WorkLeft

(* Sums that shrink. *)
LEMMA SumShrinks ==
    ASSUME NEW a \in Nat, NEW b \in Nat, NEW c \in Nat, NEW d \in Nat, NEW e \in Nat,
           NEW u \in Nat, NEW v \in Nat, NEW w \in Nat, NEW x \in Nat, NEW y \in Nat,
           u <= a, v <= b, w <= c, x <= d,
           \/ (u < a \/ v < b \/ w < c \/ x < d) /\ y <= e + 1
           \/ y < e
    PROVE  2 * (u + v + w + x) + y < 2 * (a + b + c + d) + e
OBVIOUS

LEMMA WorkShrinks ==
    ASSUME ExecutorAssumption, IInv, IInv', Next PROVE WorkLeft' < WorkLeft
<1> DEFINE T == Cardinality(Todo)
           E == Len(log) - rcvd
           Down == /\ \A s \in Steps : Left(pc'[s]) <= Left(pc[s])
                   /\ MainLeft' <= MainLeft /\ CtxLeft' <= CtxLeft /\ LateLeft' <= LateLeft
                   /\ \/ /\ \/ \E s \in Steps : Left(pc'[s]) < Left(pc[s])
                            \/ MainLeft' < MainLeft \/ CtxLeft' < CtxLeft \/ LateLeft' < LateLeft
                         /\ E' <= E + 1
                      \/ E' < E
<1>0. /\ T \in Nat /\ MainLeft \in Nat /\ CtxLeft \in Nat /\ LateLeft \in Nat /\ E \in Nat
      /\ MainLeft' \in Nat /\ CtxLeft' \in Nat /\ LateLeft' \in Nat /\ E' \in Nat
  <2>1. (IInv => /\ MainLeft \in Nat /\ CtxLeft \in Nat /\ LateLeft \in Nat
                 /\ Len(log) - rcvd \in Nat)'
    BY RestType, PTL
  <2> QED BY <2>1, TodoType, RestType
<1>1. Down
  <2> USE DEF IInv, TypeOK, stepVars, chanVars
  <2>0. /\ Len(log) \in Nat /\ rcvd \in Nat /\ Len(Waves) \in Nat /\ wave \in Nat
        /\ \A s \in Steps : Left(pc[s]) \in Int /\ Left(pc'[s]) \in Int
    <3>1. \A s \in Steps : Left(pc[s]) \in 0 .. 5 /\ Left(pc'[s]) \in 0 .. 5
      BY LeftType
    <3>2. \A s \in Steps : Left(pc[s]) \in Int /\ Left(pc'[s]) \in Int
      <4> HIDE DEF IInv, TypeOK
      <4> QED BY <3>1
    <3> QED BY <3>2 DEF Planned
  <2>1. ASSUME NEW s \in Steps, SendStart(s) \/ SendResult(s)
      PROVE  Down
    <3>1. /\ pc[s] \in {"start", "error", "complete"}
          /\ pc' = [pc EXCEPT ![s] = IF pc[s] = "start" THEN "begin" ELSE "done"]
          /\ UNCHANGED <<job, wave, main, ctx, late>>
      BY <2>1 DEF SendStart, SendResult
    <3>2. Len(log') = Len(log) + 1 /\ rcvd' = rcvd
      BY <2>1 DEF SendStart, SendResult, Send
    <3>3. /\ Left(pc'[s]) < Left(pc[s])
          /\ \A t \in Steps \ {s} : pc'[t] = pc[t]
      BY <3>1 DEF Left
    <3>4. MainLeft' = MainLeft /\ CtxLeft' = CtxLeft /\ LateLeft' = LateLeft
      BY <3>1 DEF MainLeft, CtxLeft, LateLeft, Waves
    <3>5. \A t \in Steps : Left(pc'[t]) <= Left(pc[t])
      <4> HIDE DEF IInv, TypeOK
      <4> SUFFICES ASSUME NEW t \in Steps PROVE Left(pc'[t]) <= Left(pc[t])
        OBVIOUS
      <4>1. CASE t = s
        BY <2>0, <3>3, <4>1
      <4>2. CASE t # s
        BY <2>0, <3>3, <4>2
      <4> QED BY <4>1, <4>2
    <3>6. E' = E + 1
      BY <2>0, <3>2
    <3> HIDE DEF IInv, TypeOK, E
    <3> QED BY <1>0, <3>3, <3>4, <3>5, <3>6
  <2>2. ASSUME NEW s \in Steps, Interpolate(s) \/ CallReturns(s) \/ CallAborts(s)
      PROVE  Down
    <3>1. /\ pc[s] \in {"begin", "call"}
          /\ \E l \in {"call", "error", "complete"} : l # pc[s] /\ pc' = [pc EXCEPT ![s] = l]
          /\ UNCHANGED <<job, wave, main, ctx, late, log, rcvd>>
      BY <2>2 DEF Interpolate, CallReturns, CallAborts, Succeed, Fail
    <3>3. /\ Left(pc'[s]) < Left(pc[s])
          /\ \A t \in Steps \ {s} : pc'[t] = pc[t]
      BY <3>1 DEF Left
    <3>4. MainLeft' = MainLeft /\ CtxLeft' = CtxLeft /\ LateLeft' = LateLeft
      BY <3>1 DEF MainLeft, CtxLeft, LateLeft, Waves
    <3>5. \A t \in Steps : Left(pc'[t]) <= Left(pc[t])
      <4> HIDE DEF IInv, TypeOK
      <4> SUFFICES ASSUME NEW t \in Steps PROVE Left(pc'[t]) <= Left(pc[t])
        OBVIOUS
      <4>1. CASE t = s
        BY <2>0, <3>3, <4>1
      <4>2. CASE t # s
        BY <2>0, <3>3, <4>2
      <4> QED BY <4>1, <4>2
    <3>6. E' = E
      BY <3>1
    <3> HIDE DEF IInv, TypeOK, E
    <3> QED BY <1>0, <3>3, <3>4, <3>5, <3>6
  <2>3. CASE StartWave
    <3>1. /\ main = "loop" /\ main' = "wait" /\ wave' = wave + 1 /\ wave < Len(Waves)
          /\ pc' = [s \in Steps |-> IF s \in Waves[wave + 1] THEN "start" ELSE pc[s]]
          /\ UNCHANGED <<job, ctx, late, log, rcvd>>
      BY <2>3 DEF StartWave, MoreWaves
    <3>2. \A s \in Steps : pc'[s] = pc[s] \/ (pc[s] = "none" /\ pc'[s] = "start")
      <4>1. wave + 1 \in 1 .. Len(Waves) /\ wave + 1 > wave
        BY <2>0, <3>1
      <4>2. \A s \in Waves[wave + 1] : pc[s] = "none"
        BY <4>1 DEF WaveState
      <4> QED BY <3>1, <4>2
    <3>3. \A s \in Steps : Left(pc'[s]) <= Left(pc[s])
      BY <2>0, <3>2 DEF Left
    <3>4. MainLeft' < MainLeft /\ CtxLeft' = CtxLeft /\ LateLeft' = LateLeft
      <4>1. MainLeft = 2 * (Len(Waves) - wave) + 3
        BY <3>1 DEF MainLeft, EndEvents
      <4>2. MainLeft' = 2 * (Len(Waves) - (wave + 1)) + 4
        BY <3>1 DEF MainLeft, EndEvents, Waves
      <4>3. CtxLeft' = CtxLeft /\ LateLeft' = LateLeft
        BY <3>1 DEF CtxLeft, LateLeft
      <4> QED BY <2>0, <4>1, <4>2, <4>3
    <3> QED BY <1>0, <3>1, <3>3, <3>4
  <2>4. CASE WaveOk \/ WaveFailed \/ Complete \/ SendEnd \/ Return
    <3>1. /\ pc' = pc /\ UNCHANGED <<job, wave, late>>
          /\ ctx' = ctx \/ ctx' # "live"
      BY <2>4 DEF WaveOk, WaveFailed, Complete, SendEnd, Return
    <3>2. \/ main = "wait" /\ main' \in {"loop", "task_cancelled", "task_error"}
          \/ main = "loop" /\ main' = "task_complete"
          \/ main \in EndEvents /\ main' = "return"
          \/ main = "return" /\ main' = "ended"
      BY <2>4 DEF WaveOk, WaveFailed, Complete, SendEnd, Return
    <3>3. MainLeft' < MainLeft
      <4>1. wave <= Len(Waves) /\ Waves' = Waves
        BY <3>1, <2>0 DEF Waves
      <4> QED BY <2>0, <3>1, <3>2, <4>1 DEF MainLeft, EndEvents
    <3>4. Len(log') - rcvd' <= Len(log) - rcvd + 1
      BY <2>0, <2>4 DEF WaveOk, WaveFailed, Complete, SendEnd, Send, Return
    <3>5. CtxLeft' <= CtxLeft /\ LateLeft' = LateLeft
      BY <3>1 DEF CtxLeft, LateLeft
    <3>6. \A s \in Steps : Left(pc'[s]) <= Left(pc[s])
      <4> HIDE DEF IInv, TypeOK
      <4> QED BY <2>0, <3>1
    <3>7. E' <= E + 1
      BY <3>4
    <3> HIDE DEF IInv, TypeOK, E
    <3> QED BY <1>0, <3>3, <3>5, <3>6, <3>7
  <2>5. CASE Receive
    <3>1. /\ rcvd' = rcvd + 1 /\ UNCHANGED <<job, wave, main, pc, ctx, late, log>>
      BY <2>5 DEF Receive
    <3>2. MainLeft' = MainLeft /\ CtxLeft' = CtxLeft /\ LateLeft' = LateLeft
      BY <3>1 DEF MainLeft, CtxLeft, LateLeft, Waves
    <3>3. \A s \in Steps : Left(pc'[s]) <= Left(pc[s])
      BY <2>0, <3>1
    <3>4. E' < E
      BY <2>0, <3>1
    <3> HIDE DEF IInv, TypeOK, E
    <3> QED BY <1>0, <3>2, <3>3, <3>4
  <2>6. CASE Cancel \/ Deadline
    <3>1. /\ ctx = "live" /\ ctx' # "live" /\ UNCHANGED <<job, wave, main, pc, late, log, rcvd>>
      BY <2>6 DEF Cancel, Deadline
    <3>2. MainLeft' = MainLeft /\ CtxLeft' < CtxLeft /\ LateLeft' = LateLeft
      BY <3>1 DEF MainLeft, CtxLeft, LateLeft, Waves
    <3> QED BY <1>0, <2>0, <3>1, <3>2
  <2>7. CASE LateCancel
    <3>1. /\ late = "pending" /\ late' = "done" /\ UNCHANGED <<job, wave, main, pc, ctx, log, rcvd>>
      BY <2>7 DEF LateCancel
    <3>2. MainLeft' = MainLeft /\ CtxLeft' = CtxLeft /\ LateLeft' < LateLeft
      BY <3>1 DEF MainLeft, CtxLeft, LateLeft, Waves
    <3> QED BY <1>0, <2>0, <3>1, <3>2
  <2> QED BY <2>1, <2>2, <2>3, <2>4, <2>5, <2>6, <2>7 DEF Next, StepNext, MainNext
<1>2. /\ T' \in Nat /\ T' <= T
      /\ (\E s \in Steps : Left(pc'[s]) < Left(pc[s])) => T' < T
  BY <1>1, TodoShrinks
<1>3. \/ (T' < T \/ MainLeft' < MainLeft \/ CtxLeft' < CtxLeft \/ LateLeft' < LateLeft) /\ E' <= E + 1
      \/ E' < E
  BY <1>1, <1>2
<1>4. WorkLeft = 2 * (T + MainLeft + CtxLeft + LateLeft) + E
  BY DEF WorkLeft
<1>5. WorkLeft' = 2 * (T' + MainLeft' + CtxLeft' + LateLeft') + E'
  BY DEF WorkLeft
<1> HIDE DEF T, E
<1> QED BY <1>0, <1>1, <1>2, <1>3, <1>4, <1>5, SumShrinks

(* Every step of a run, of its goroutines, its context and its consumer, uses
   up work of which there is only so much: no run goes on for ever, whatever
   is cancelled, fails or times out.  With NoDeadlock, a run that does not end
   has a call that its server has not answered. *)
RunsDown == WorkLeft \in Nat /\ WorkLeft' \in Nat /\ WorkLeft' < WorkLeft

THEOREM RunsAreFinite == Spec => [][RunsDown]_vars
<1>1. IInv => WorkLeft \in Nat
  BY WorkLeftType, ExecutorAssumption
<1>2. IInv /\ IInv' /\ [Next]_vars => [WorkLeft' < WorkLeft]_vars
  BY WorkShrinks, ExecutorAssumption
<1>3. (IInv => WorkLeft \in Nat)'
  BY <1>1, PTL
<1>4. IInv /\ IInv' /\ [Next]_vars => [RunsDown]_vars
  BY <1>1, <1>2, <1>3 DEF RunsDown
<1> QED BY <1>4, Always, ExecutorAssumption, PTL DEF Spec
===============================================================================
