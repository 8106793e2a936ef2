---------------------------- MODULE ServiceProofs ----------------------------
(***************************************************************************)
(* What Service promises through crashes and restarts, proved for any      *)
(* number of requests and cancellations, however writes of the file fail   *)
(* and whenever the process stops.                                         *)
(***************************************************************************)
EXTENDS Service, TLAPS

Labels == {"new", "prune", "delete", "get", "check", "mark", "save", "register", "started",
           "running", "failed", "settle", "unregister", "ended", "error"}

(* Where a request is before its task has an outcome. *)
Early == {"new", "prune", "delete", "get", "check", "mark", "save", "register", "started",
          "running"}

Unstarted == {"new", "pending"}

Base ==
    /\ store \in [IDs -> Requests \cup {NoTask}]
    /\ status \in [Requests -> Statuses]
    /\ pc \in [Requests -> Labels]
    /\ got \in [Requests -> Requests \cup {NoTask}]
    /\ cid \in [CancelCalls -> IDs]
    /\ cobj \in [CancelCalls -> Requests \cup {NoTask}]
    /\ cpc \in [CancelCalls -> {"new", "check", "branch", "mark", "save", "lookup",
                                "accepted", "refused"}]

(* The file has only tasks that were submitted. *)
Named == \A i \in IDs : file[i] # NoStatus => \E t \in Requests : IdOf[t] = i

Typed ==
    /\ Base
    /\ Named
    /\ file \in [IDs -> Statuses \cup {NoStatus}]
    /\ event \in [Requests -> Statuses \cup {NoStatus}]

(* With distinct IDs everybody who found a task in the store has the task of
   the ID it asked for. *)
Owned ==
    /\ \A i \in IDs : store[i] # NoTask => IdOf[store[i]] = i
    /\ \A r \in Requests : pc[r] \in {"check", "mark", "save", "register"} \/ InRun(r) => got[r] = r
    /\ \A k \in CancelCalls : cpc[k] \in {"check", "branch", "mark", "save", "lookup"} =>
        cobj[k] \in Requests /\ IdOf[cobj[k]] = cid[k]

(* A task is marked, and the mark is in the file, before it is executed. *)
Marked ==
    /\ \A r \in Requests : pc[r] = "new" => r \notin begun
    /\ \A r \in Requests : InRun(r) => r \in begun
    /\ \A r \in Requests : pc[r] \in {"save", "register"} => status[r] \notin Unstarted
    /\ \A r \in Requests : pc[r] = "register" => file[IdOf[r]] \notin Unstarted
    /\ \A r \in Requests : r \in begun => status[r] \notin Unstarted /\ file[IdOf[r]] \notin Unstarted

(* A handler answers when the run of its task is through the executor. *)
Told ==
    /\ \A r \in Requests : event[r] # NoStatus => r \in begun /\ pc[r] \notin Early
    /\ \A r \in answered : event[r] # NoStatus

(* Once a task has an outcome, nobody but a CancelTask that found it pending
   gives it another one. *)
Decided ==
    /\ \A r \in Requests \ withdrawn : pc[r] \in Early =>
        status[r] \notin Terminal /\ file[IdOf[r]] \notin Terminal
    /\ \A r \in Requests \ withdrawn :
        event[r] # NoStatus /\ status[r] \in Terminal => status[r] = event[r]
    /\ \A r \in Requests \ withdrawn : pc[r] = "failed" =>
        event[r] = status[r] /\ status[r] \in {"failed", "cancelled"}

(* What any step may do to the file, as far as one task is concerned. *)
FileMoves ==
    \A r \in Requests : file'[IdOf[r]] \in {file[IdOf[r]], NoStatus, status'[r]}

-----------------------------------------------------------------------------
LEMMA WrittenFacts ==
    ASSUME Typed, Owned, NEW ok \in BOOLEAN, Written(ok),
           store' \in [IDs -> Requests \cup {NoTask}],
           status' \in [Requests -> Statuses],
           \A i \in IDs : store'[i] # NoTask => IdOf[store'[i]] = i
    PROVE  /\ file' \in [IDs -> Statuses \cup {NoStatus}]
           /\ Named'
           /\ FileMoves
           /\ ok => \A r \in Requests : store'[IdOf[r]] = r => file'[IdOf[r]] = status'[r]
<1>1. IdOf \in [Requests -> IDs] /\ NoTask \notin Requests
  BY CoordinatorAssumption
<1>2. \A t, u \in Requests : IdOf[t] = IdOf[u] => t = u
  BY ServiceAssumption
<1>3. CASE ~ok
  BY <1>1, <1>3 DEF Written, Typed, Named, FileMoves
<1>4. CASE ok
  <2>1. file' = [i \in IDs |-> IF store'[i] = NoTask THEN NoStatus ELSE status'[store'[i]]]
    BY <1>4 DEF Written
  <2>2. \A i \in IDs : file'[i] = IF store'[i] = NoTask THEN NoStatus ELSE status'[store'[i]]
    BY <2>1
  <2>3. \A r \in Requests : store'[IdOf[r]] \in {NoTask, r}
    BY <1>1, <1>2
  <2>4. file' \in [IDs -> Statuses \cup {NoStatus}]
    BY <2>1
  <2>5. Named'
    BY <2>2 DEF Named
  <2>6. FileMoves
    BY <1>1, <2>2, <2>3 DEF FileMoves
  <2> QED BY <1>1, <2>2, <2>4, <2>5, <2>6
<1> QED BY <1>3, <1>4

LEMMA InitTyped == ServiceInit => Typed /\ Owned /\ Marked /\ Told /\ Decided /\ FileAgrees
<1> SUFFICES ASSUME ServiceInit PROVE Typed /\ Owned /\ Marked /\ Told /\ Decided /\ FileAgrees
  OBVIOUS
<1> USE CoordinatorAssumption, ServiceAssumption DEF ServiceInit, Init
<1>1. Typed
  BY DEF Base, Typed, Named, Statuses, Labels
<1>2. Owned
  BY DEF Owned, InRun
<1>3. Marked
  BY DEF Marked, InRun, Unstarted
<1>4. Told
  BY DEF Told
<1>5. Decided
  <2>1. NoStatus \notin Terminal
    BY DEF Terminal, Statuses
  <2>2. "new" \notin Terminal
    BY DEF Terminal
  <2> QED BY <2>1, <2>2 DEF Decided, Early
<1>6. FileAgrees
  BY DEF FileAgrees
<1> QED BY <1>1, <1>2, <1>3, <1>4, <1>5, <1>6

-----------------------------------------------------------------------------
LEMMA BaseStep ==
    ASSUME Base, Owned, Next \/ \E r \in Requests : pc[r] = "new" /\ Goto(r, "error") /\
                                  UNCHANGED <<store, cancels, status, born, got, victim, canceled, callVars>>
    PROVE  Base' /\ Owned'
<1> USE CoordinatorAssumption, ServiceAssumption DEF Base, Owned, Labels, InRun, reqVars, callVars
<1>1. ASSUME NEW r \in Requests, Submit(r) PROVE Base' /\ Owned'
  <2>1. Base'
    BY <1>1 DEF Submit, SaveAndGo, Saved, Goto, Statuses
  <2>2. Owned'
    BY <1>1 DEF Submit, SaveAndGo, Saved, Goto, Statuses
  <2> QED BY <2>1, <2>2
<1>2. ASSUME NEW r \in Requests, PruneList(r) PROVE Base' /\ Owned'
  <2>1. Base'
    BY <1>2 DEF PruneList, Goto
  <2>2. Owned'
    BY <1>2 DEF PruneList, Goto
  <2> QED BY <2>1, <2>2
<1>3. ASSUME NEW r \in Requests, PruneDelete(r) PROVE Base' /\ Owned'
  <2>1. Base'
    BY <1>3 DEF PruneDelete, Goto
  <2>2. Owned'
    BY <1>3 DEF PruneDelete, Goto
  <2> QED BY <2>1, <2>2
<1>4. ASSUME NEW r \in Requests, ExecuteGet(r) PROVE Base' /\ Owned'
  <2>1. Base'
    BY <1>4 DEF ExecuteGet, Goto
  <2>2. Owned'
    BY <1>4 DEF ExecuteGet, Goto
  <2> QED BY <2>1, <2>2
<1>5. ASSUME NEW r \in Requests, ExecuteCheck(r) PROVE Base' /\ Owned'
  <2>1. Base'
    BY <1>5 DEF ExecuteCheck, Goto
  <2>2. Owned'
    BY <1>5 DEF ExecuteCheck, Goto
  <2> QED BY <2>1, <2>2
<1>6. ASSUME NEW r \in Requests, ExecuteMark(r) PROVE Base' /\ Owned'
  <2>1. Base'
    BY <1>6 DEF ExecuteMark, Goto, Statuses
  <2>2. Owned'
    BY <1>6 DEF ExecuteMark, Goto, Statuses
  <2> QED BY <2>1, <2>2
<1>7. ASSUME NEW r \in Requests, ExecuteSave(r) PROVE Base' /\ Owned'
  <2>1. Base'
    BY <1>7 DEF ExecuteSave, SaveAndGo, Saved, Goto
  <2>2. Owned'
    BY <1>7 DEF ExecuteSave, SaveAndGo, Saved, Goto
  <2> QED BY <2>1, <2>2
<1>8. ASSUME NEW r \in Requests, ExecuteRegister(r) PROVE Base' /\ Owned'
  <2>1. Base'
    BY <1>8 DEF ExecuteRegister, Goto
  <2>2. Owned'
    BY <1>8 DEF ExecuteRegister, Goto
  <2> QED BY <2>1, <2>2
<1>9. ASSUME NEW r \in Requests, Announce(r) PROVE Base' /\ Owned'
  <2>1. Base'
    BY <1>9 DEF Announce, Goto
  <2>2. Owned'
    BY <1>9 DEF Announce, Goto
  <2> QED BY <2>1, <2>2
<1>10. ASSUME NEW r \in Requests, ExecutorEnds(r) PROVE Base' /\ Owned'
  <2>1. Base'
    BY <1>10 DEF ExecutorEnds, Outcomes, Goto, Statuses
  <2>2. Owned'
    BY <1>10 DEF ExecutorEnds, Outcomes, Goto, Statuses
  <2> QED BY <2>1, <2>2
<1>11. ASSUME NEW r \in Requests, ConfirmFailure(r) PROVE Base' /\ Owned'
  <2>1. Base'
    BY <1>11 DEF ConfirmFailure, StatusAfterError, Goto, Statuses
  <2>2. Owned'
    BY <1>11 DEF ConfirmFailure, StatusAfterError, Goto, Statuses
  <2> QED BY <2>1, <2>2
<1>12. ASSUME NEW r \in Requests, Settle(r) PROVE Base' /\ Owned'
  <2>1. Base'
    BY <1>12 DEF Settle, Saved, Goto
  <2>2. Owned'
    BY <1>12 DEF Settle, Saved, Goto
  <2> QED BY <2>1, <2>2
<1>13. ASSUME NEW r \in Requests, Unregister(r) PROVE Base' /\ Owned'
  <2>1. Base'
    BY <1>13 DEF Unregister, Goto
  <2>2. Owned'
    BY <1>13 DEF Unregister, Goto
  <2> QED BY <2>1, <2>2
<1>14. ASSUME NEW r \in Requests, Disconnect(r) PROVE Base' /\ Owned'
  <2>1. Base'
    BY <1>14 DEF Disconnect
  <2>2. Owned'
    BY <1>14 DEF Disconnect
  <2> QED BY <2>1, <2>2
<1>15. ASSUME NEW k \in CancelCalls, CancelGet(k) PROVE Base' /\ Owned'
  <2>1. Base'
    BY <1>15 DEF CancelGet, CGoto
  <2>2. Owned'
    BY <1>15 DEF CancelGet, CGoto
  <2> QED BY <2>1, <2>2
<1>16. ASSUME NEW k \in CancelCalls, CancelCheck(k) PROVE Base' /\ Owned'
  <2>1. Base'
    BY <1>16 DEF CancelCheck, CGoto
  <2>2. Owned'
    BY <1>16 DEF CancelCheck, CGoto
  <2> QED BY <2>1, <2>2
<1>17. ASSUME NEW k \in CancelCalls, CancelBranch(k) PROVE Base' /\ Owned'
  <2>1. Base'
    BY <1>17 DEF CancelBranch, CGoto
  <2>2. Owned'
    BY <1>17 DEF CancelBranch, CGoto
  <2> QED BY <2>1, <2>2
<1>18. ASSUME NEW k \in CancelCalls, CancelMark(k) PROVE Base' /\ Owned'
  <2>1. Base'
    BY <1>18 DEF CancelMark, CGoto, Statuses
  <2>2. Owned'
    BY <1>18 DEF CancelMark, CGoto, Statuses
  <2> QED BY <2>1, <2>2
<1>19. ASSUME NEW k \in CancelCalls, CancelSave(k) PROVE Base' /\ Owned'
  <2>1. Base'
    BY <1>19 DEF CancelSave, Saved, CGoto
  <2>2. Owned'
    BY <1>19 DEF CancelSave, Saved, CGoto
  <2> QED BY <2>1, <2>2
<1>20. ASSUME NEW k \in CancelCalls, CancelLookup(k) PROVE Base' /\ Owned'
  <2>1. Base'
    BY <1>20 DEF CancelLookup, CGoto
  <2>2. Owned'
    BY <1>20 DEF CancelLookup, CGoto
  <2> QED BY <2>1, <2>2
<1>21. ASSUME NEW r \in Requests, pc[r] = "new", Goto(r, "error"),
            UNCHANGED <<store, cancels, status, born, got, victim, canceled, callVars>>
      PROVE  Base' /\ Owned'
  BY <1>21 DEF Goto
<1> QED BY <1>1, <1>2, <1>3, <1>4, <1>5, <1>6, <1>7, <1>8, <1>9, <1>10, <1>11, <1>12, <1>13, <1>14, <1>15, <1>16, <1>17, <1>18, <1>19, <1>20, <1>21 DEF Next, RequestNext, CancelNext

-----------------------------------------------------------------------------
(* One step of the living process. *)
LEMMA AliveStep ==
    ASSUME Typed, Owned, Alive
    PROVE  Typed' /\ Owned' /\ FileMoves
<1>1. \/ Next
      \/ \E r \in Requests : pc[r] = "new" /\ Goto(r, "error") /\
            UNCHANGED <<store, cancels, status, born, got, victim, canceled, callVars>>
      \/ UNCHANGED vars
  BY DEF Alive, Accept, Reject, SubmitValid, Prune, Execute, Run, Respond, Leave, CancelHandler,
         Next, RequestNext, CancelNext
<1>2. Base' /\ Owned'
  <2>1. CASE UNCHANGED vars
    BY <2>1 DEF Typed, Base, Owned, InRun, vars, reqVars, callVars
  <2> QED BY <1>1, <2>1, BaseStep DEF Typed
<1>5. UNCHANGED file \/ \E ok \in BOOLEAN : Written(ok)
  <2>1. ASSUME NEW r \in Requests, Prune(r) \/ Run(r) PROVE UNCHANGED file \/ \E ok \in BOOLEAN : Written(ok)
    BY <2>1 DEF Prune, Run, WrittenMaybe
  <2>2. ASSUME NEW r \in Requests, SubmitValid(r) PROVE \E ok \in BOOLEAN : Written(ok)
    <3>1. (pc'[r] # "error") \in BOOLEAN
      OBVIOUS
    <3> QED BY <2>2, <3>1 DEF SubmitValid
  <2>3. ASSUME NEW r \in Requests, Execute(r) PROVE UNCHANGED file \/ \E ok \in BOOLEAN : Written(ok)
    <3>1. (pc'[r] # "error") \in BOOLEAN
      OBVIOUS
    <3> QED BY <2>3, <3>1 DEF Execute
  <2>4. ASSUME NEW k \in CancelCalls, CancelHandler(k) PROVE UNCHANGED file \/ \E ok \in BOOLEAN : Written(ok)
    <3>1. (cpc'[k] = "accepted") \in BOOLEAN
      OBVIOUS
    <3> QED BY <2>4, <3>1 DEF CancelHandler
  <2>5. ASSUME NEW r \in Requests, Accept(r) \/ Reject(r) \/ Respond(r) \/ Leave(r) PROVE UNCHANGED file
    BY <2>5 DEF Accept, Reject, Respond, Leave, serviceVars
  <2> QED BY <2>1, <2>2, <2>3, <2>4, <2>5 DEF Alive
<1>6. file' \in [IDs -> Statuses \cup {NoStatus}] /\ Named' /\ FileMoves
  <2>1. CASE UNCHANGED file
    BY <2>1, CoordinatorAssumption DEF Typed, Named, FileMoves
  <2>2. CASE \E ok \in BOOLEAN : Written(ok)
    BY <1>2, <2>2, WrittenFacts DEF Base, Owned
  <2> QED BY <1>5, <2>1, <2>2
<1>7. event' \in [Requests -> Statuses \cup {NoStatus}]
  <2>1. ASSUME NEW r \in Requests, Run(r) PROVE event' \in [Requests -> Statuses \cup {NoStatus}]
    <3>1. CASE UNCHANGED event
      BY <3>1 DEF Typed
    <3>2. CASE ExecutorEnds(r) /\ event' = [event EXCEPT ![r] = status'[got[r]]]
      <4>1. got[r] = r
        BY <3>2 DEF ExecutorEnds, Owned, InRun
      <4>2. status'[r] \in Statuses
        BY <1>2 DEF Base
      <4> QED BY <3>2, <4>1, <4>2 DEF Typed
    <3> QED BY <2>1, <3>1, <3>2 DEF Run
  <2>2. ~(\E r \in Requests : Run(r)) => UNCHANGED event
    BY DEF Alive, Accept, Reject, SubmitValid, Prune, Execute, Respond, Leave, CancelHandler, serviceVars
  <2> QED BY <2>1, <2>2 DEF Typed
<1> QED BY <1>2, <1>6, <1>7 DEF Typed

(* A restart. *)
LEMMA StartFacts ==
    ASSUME Typed, Owned, Start
    PROVE  /\ \A r \in Requests : status'[r] = IF file[IdOf[r]] = NoStatus THEN status[r] ELSE file[IdOf[r]]
           /\ \A r \in Requests :
                /\ pc'[r] \in {"new", "ended", "error"}
                /\ pc'[r] = "new" => pc[r] = "new"
                /\ file[IdOf[r]] # NoStatus /\ pc'[r] # "new" => pc'[r] = "ended"
           /\ \A k \in CancelCalls : cpc'[k] \in {"new", "accepted", "refused"}
           /\ UNCHANGED <<got, cid, cobj, file, event, answered, begun, withdrawn>>
<1>1. \A r \in Requests : pc'[r] = CASE pc[r] = "new" /\ r \notin accepted -> "new"
                                     [] file[IdOf[r]] # NoStatus -> "ended"
                                     [] OTHER -> "error"
  BY DEF Start
<1>2. \A k \in CancelCalls : cpc'[k] = IF cpc[k] \in {"new", "accepted"} THEN cpc[k] ELSE "refused"
  BY DEF Start
<1>3. \A r \in Requests : status'[r] = IF file[IdOf[r]] = NoStatus THEN status[r] ELSE file[IdOf[r]]
  BY DEF Start, Loaded
<1> QED BY <1>1, <1>2, <1>3 DEF Start

LEMMA StartStep ==
    ASSUME Typed, Owned, Start
    PROVE  Typed' /\ Owned'
<1> USE CoordinatorAssumption, ServiceAssumption
<1>1. pc' \in [Requests -> Labels]
  <2>1. pc' = [r \in Requests |-> pc'[r]]
    BY DEF Start
  <2> QED BY <2>1, StartFacts DEF Labels
<1>2. cpc' \in [CancelCalls -> {"new", "check", "branch", "mark", "save", "lookup", "accepted", "refused"}]
  <2>1. cpc' = [k \in CancelCalls |-> cpc'[k]]
    BY DEF Start
  <2> QED BY <2>1, StartFacts
<1>3. status' \in [Requests -> Statuses]
  <2>1. status' = [r \in Requests |-> status'[r]]
    BY DEF Start
  <2>2. \A r \in Requests : status'[r] \in Statuses
    BY StartFacts DEF Typed, Base
  <2> QED BY <2>1, <2>2
<1>4. \A i \in IDs : store'[i] \in {t \in Requests : IdOf[t] = i} \cup {NoTask}
  <2> TAKE i \in IDs
  <2>1. store'[i] = IF file[i] = NoStatus THEN NoTask ELSE CHOOSE t \in Requests : IdOf[t] = i
    BY DEF Start
  <2>2. CASE file[i] = NoStatus
    BY <2>1, <2>2
  <2>3. CASE file[i] # NoStatus
    <3>1. \E t \in Requests : IdOf[t] = i
      BY <2>3 DEF Typed, Named
    <3> DEFINE u == CHOOSE t \in Requests : IdOf[t] = i
    <3>2. u \in Requests /\ IdOf[u] = i
      BY <3>1
    <3> QED BY <2>1, <2>3, <3>2
  <2> QED BY <2>2, <2>3
<1>5. store' \in [IDs -> Requests \cup {NoTask}]
  <2>1. store' = [i \in IDs |-> store'[i]]
    BY DEF Start
  <2> QED BY <1>4, <2>1
<1>6. Base'
  BY <1>1, <1>2, <1>3, <1>5, StartFacts DEF Typed, Base
<1>7. Owned'
  BY <1>4, StartFacts DEF Owned, InRun
<1> QED BY <1>6, <1>7, StartFacts DEF Typed, Named

-----------------------------------------------------------------------------
LEMMA MarkedStep ==
    ASSUME Typed, Owned, Marked, Alive
    PROVE  Marked'
<1> USE CoordinatorAssumption, ServiceAssumption DEF Typed, Base, Owned, Marked, Statuses, Unstarted, FileMoves, InRun, reqVars, callVars
<1>0. Typed' /\ Owned' /\ FileMoves
  BY AliveStep
<1>1. ASSUME NEW r \in Requests, Accept(r)
      PROVE  Marked'
  BY <1>0, <1>1 DEF Accept, vars
<1>2. ASSUME NEW r \in Requests, Reject(r)
      PROVE  Marked'
  BY <1>0, <1>2 DEF Reject, Goto, serviceVars
<1>3. ASSUME NEW r \in Requests, SubmitValid(r)
      PROVE  Marked'
  BY <1>0, <1>3 DEF SubmitValid, Submit, SaveAndGo, Goto
<1>4. ASSUME NEW r \in Requests, Prune(r)
      PROVE  Marked'
  BY <1>0, <1>4 DEF Prune, PruneList, PruneDelete, Goto
<1>5. ASSUME NEW r \in Requests, ExecuteGet(r), UNCHANGED <<file, begun>>,
             UNCHANGED <<proc, accepted, event, answered>>
      PROVE  Marked'
  BY <1>0, <1>5 DEF ExecuteGet, Goto
<1>6. ASSUME NEW r \in Requests, ExecuteCheck(r), UNCHANGED <<file, begun>>,
             UNCHANGED <<proc, accepted, event, answered>>
      PROVE  Marked'
  BY <1>0, <1>6 DEF ExecuteCheck, Goto
<1>7. ASSUME NEW r \in Requests, ExecuteMark(r), UNCHANGED <<file, begun>>,
             UNCHANGED <<proc, accepted, event, answered>>
      PROVE  Marked'
  BY <1>0, <1>7 DEF ExecuteMark, Goto
<1>8. ASSUME NEW r \in Requests, ExecuteSave(r), Written(pc'[r] # "error"), UNCHANGED begun,
             UNCHANGED <<proc, accepted, event, answered>>
      PROVE  Marked'
  <2>1. got[r] = r /\ store'[IdOf[r]] = r
    BY <1>8 DEF ExecuteSave, SaveAndGo, Saved
  <2>2. pc'[r] # "error" => file'[IdOf[r]] = status'[r]
    <3>1. (pc'[r] # "error") \in BOOLEAN
      OBVIOUS
    <3> QED BY <1>0, <1>8, <2>1, <3>1, WrittenFacts
  <2> QED BY <1>0, <1>8, <2>1, <2>2 DEF ExecuteSave, SaveAndGo, Goto
<1>9. ASSUME NEW r \in Requests, ExecuteRegister(r), begun' = begun \cup {got[r]}, UNCHANGED file,
             UNCHANGED <<proc, accepted, event, answered>>
      PROVE  Marked'
  BY <1>0, <1>9 DEF ExecuteRegister, Goto
<1>10. ASSUME NEW r \in Requests, Announce(r), UNCHANGED <<file, event>>,
             UNCHANGED <<proc, accepted, answered, begun>>
      PROVE  Marked'
  BY <1>0, <1>10 DEF Announce, Goto
<1>11. ASSUME NEW r \in Requests, ExecutorEnds(r), event' = [event EXCEPT ![r] = status'[got[r]]], UNCHANGED file,
             UNCHANGED <<proc, accepted, answered, begun>>
      PROVE  Marked'
  BY <1>0, <1>11 DEF ExecutorEnds, Outcomes, Goto
<1>12. ASSUME NEW r \in Requests, ConfirmFailure(r), UNCHANGED <<file, event>>,
             UNCHANGED <<proc, accepted, answered, begun>>
      PROVE  Marked'
  BY <1>0, <1>12 DEF ConfirmFailure, StatusAfterError, Goto
<1>13. ASSUME NEW r \in Requests, Settle(r), UNCHANGED event,
             UNCHANGED <<proc, accepted, answered, begun>>
      PROVE  Marked'
  BY <1>0, <1>13 DEF Settle, Goto
<1>14. ASSUME NEW r \in Requests, Unregister(r), UNCHANGED <<file, event>>,
             UNCHANGED <<proc, accepted, answered, begun>>
      PROVE  Marked'
  BY <1>0, <1>14 DEF Unregister, Goto
<1>15. ASSUME NEW r \in Requests, Respond(r)
      PROVE  Marked'
  BY <1>0, <1>15 DEF Respond, vars
<1>16. ASSUME NEW r \in Requests, Leave(r)
      PROVE  Marked'
  BY <1>0, <1>16 DEF Leave, Disconnect, serviceVars
<1>17. ASSUME NEW k \in CancelCalls, CancelGet(k), UNCHANGED file,
             UNCHANGED <<proc, accepted, event, answered, begun>>
      PROVE  Marked'
  BY <1>0, <1>17 DEF CancelGet, CGoto
<1>18. ASSUME NEW k \in CancelCalls, CancelCheck(k), UNCHANGED file,
             UNCHANGED <<proc, accepted, event, answered, begun>>
      PROVE  Marked'
  BY <1>0, <1>18 DEF CancelCheck, CGoto
<1>19. ASSUME NEW k \in CancelCalls, CancelBranch(k), UNCHANGED file,
             UNCHANGED <<proc, accepted, event, answered, begun>>
      PROVE  Marked'
  BY <1>0, <1>19 DEF CancelBranch, CGoto
<1>20. ASSUME NEW k \in CancelCalls, CancelMark(k), UNCHANGED file,
             UNCHANGED <<proc, accepted, event, answered, begun>>
      PROVE  Marked'
  BY <1>0, <1>20 DEF CancelMark, CGoto
<1>21. ASSUME NEW k \in CancelCalls, CancelLookup(k), UNCHANGED file,
             UNCHANGED <<proc, accepted, event, answered, begun>>
      PROVE  Marked'
  BY <1>0, <1>21 DEF CancelLookup, CGoto
<1>22. ASSUME NEW k \in CancelCalls, CancelSave(k),
             UNCHANGED <<proc, accepted, event, answered, begun>>
      PROVE  Marked'
  BY <1>0, <1>22 DEF CancelSave, CGoto
<1> QED BY <1>1, <1>2, <1>3, <1>4, <1>5, <1>6, <1>7, <1>8, <1>9, <1>10, <1>11, <1>12, <1>13, <1>14, <1>15, <1>16, <1>17, <1>18, <1>19, <1>20, <1>21, <1>22 DEF Alive, Execute, Run, CancelHandler

LEMMA ToldStep ==
    ASSUME Typed, Owned, Marked, Told, Alive
    PROVE  Told'
<1> USE CoordinatorAssumption, ServiceAssumption DEF Typed, Base, Owned, Marked, Told, Labels, Early, InRun, reqVars, callVars
<1>0. Typed' /\ Owned' /\ FileMoves
  BY AliveStep
<1>1. ASSUME NEW r \in Requests, Accept(r)
      PROVE  Told'
  BY <1>0, <1>1 DEF Accept, vars
<1>2. ASSUME NEW r \in Requests, Reject(r)
      PROVE  Told'
  BY <1>0, <1>2 DEF Reject, Goto, serviceVars
<1>3. ASSUME NEW r \in Requests, SubmitValid(r)
      PROVE  Told'
  BY <1>0, <1>3 DEF SubmitValid, Submit, SaveAndGo, Goto
<1>4. ASSUME NEW r \in Requests, Prune(r)
      PROVE  Told'
  BY <1>0, <1>4 DEF Prune, PruneList, PruneDelete, Goto
<1>5. ASSUME NEW r \in Requests, ExecuteGet(r), UNCHANGED <<file, begun>>,
             UNCHANGED <<proc, accepted, event, answered>>
      PROVE  Told'
  BY <1>0, <1>5 DEF ExecuteGet, Goto
<1>6. ASSUME NEW r \in Requests, ExecuteCheck(r), UNCHANGED <<file, begun>>,
             UNCHANGED <<proc, accepted, event, answered>>
      PROVE  Told'
  BY <1>0, <1>6 DEF ExecuteCheck, Goto
<1>7. ASSUME NEW r \in Requests, ExecuteMark(r), UNCHANGED <<file, begun>>,
             UNCHANGED <<proc, accepted, event, answered>>
      PROVE  Told'
  BY <1>0, <1>7 DEF ExecuteMark, Goto
<1>8. ASSUME NEW r \in Requests, ExecuteSave(r), Written(pc'[r] # "error"), UNCHANGED begun,
             UNCHANGED <<proc, accepted, event, answered>>
      PROVE  Told'
  BY <1>0, <1>8 DEF ExecuteSave, SaveAndGo, Saved, Goto
<1>9. ASSUME NEW r \in Requests, ExecuteRegister(r), begun' = begun \cup {got[r]}, UNCHANGED file,
             UNCHANGED <<proc, accepted, event, answered>>
      PROVE  Told'
  BY <1>0, <1>9 DEF ExecuteRegister, Goto
<1>10. ASSUME NEW r \in Requests, Announce(r), UNCHANGED <<file, event>>,
             UNCHANGED <<proc, accepted, answered, begun>>
      PROVE  Told'
  BY <1>0, <1>10 DEF Announce, Goto
<1>11. ASSUME NEW r \in Requests, ExecutorEnds(r), event' = [event EXCEPT ![r] = status'[got[r]]], UNCHANGED file,
             UNCHANGED <<proc, accepted, answered, begun>>
      PROVE  Told'
  BY <1>0, <1>11 DEF ExecutorEnds, Outcomes, Goto
<1>12. ASSUME NEW r \in Requests, ConfirmFailure(r), UNCHANGED <<file, event>>,
             UNCHANGED <<proc, accepted, answered, begun>>
      PROVE  Told'
  BY <1>0, <1>12 DEF ConfirmFailure, StatusAfterError, Goto
<1>13. ASSUME NEW r \in Requests, Settle(r), UNCHANGED event,
             UNCHANGED <<proc, accepted, answered, begun>>
      PROVE  Told'
  BY <1>0, <1>13 DEF Settle, Goto
<1>14. ASSUME NEW r \in Requests, Unregister(r), UNCHANGED <<file, event>>,
             UNCHANGED <<proc, accepted, answered, begun>>
      PROVE  Told'
  BY <1>0, <1>14 DEF Unregister, Goto
<1>15. ASSUME NEW r \in Requests, Respond(r)
      PROVE  Told'
  BY <1>0, <1>15 DEF Respond, vars
<1>16. ASSUME NEW r \in Requests, Leave(r)
      PROVE  Told'
  BY <1>0, <1>16 DEF Leave, Disconnect, serviceVars
<1>17. ASSUME NEW k \in CancelCalls, CancelGet(k), UNCHANGED file,
             UNCHANGED <<proc, accepted, event, answered, begun>>
      PROVE  Told'
  BY <1>0, <1>17 DEF CancelGet, CGoto
<1>18. ASSUME NEW k \in CancelCalls, CancelCheck(k), UNCHANGED file,
             UNCHANGED <<proc, accepted, event, answered, begun>>
      PROVE  Told'
  BY <1>0, <1>18 DEF CancelCheck, CGoto
<1>19. ASSUME NEW k \in CancelCalls, CancelBranch(k), UNCHANGED file,
             UNCHANGED <<proc, accepted, event, answered, begun>>
      PROVE  Told'
  BY <1>0, <1>19 DEF CancelBranch, CGoto
<1>20. ASSUME NEW k \in CancelCalls, CancelMark(k), UNCHANGED file,
             UNCHANGED <<proc, accepted, event, answered, begun>>
      PROVE  Told'
  BY <1>0, <1>20 DEF CancelMark, CGoto
<1>21. ASSUME NEW k \in CancelCalls, CancelLookup(k), UNCHANGED file,
             UNCHANGED <<proc, accepted, event, answered, begun>>
      PROVE  Told'
  BY <1>0, <1>21 DEF CancelLookup, CGoto
<1>22. ASSUME NEW k \in CancelCalls, CancelSave(k),
             UNCHANGED <<proc, accepted, event, answered, begun>>
      PROVE  Told'
  BY <1>0, <1>22 DEF CancelSave, CGoto
<1> QED BY <1>1, <1>2, <1>3, <1>4, <1>5, <1>6, <1>7, <1>8, <1>9, <1>10, <1>11, <1>12, <1>13, <1>14, <1>15, <1>16, <1>17, <1>18, <1>19, <1>20, <1>21, <1>22 DEF Alive, Execute, Run, CancelHandler


LEMMA DecidedStep ==
    ASSUME Typed, Owned, Marked, Told, Decided, Alive
    PROVE  Decided'
<1> USE CoordinatorAssumption, ServiceAssumption DEF Typed, Base, Owned, Marked, Told, Decided, Statuses, Terminal, Unstarted, Labels, Early, FileMoves, InRun, Announced, reqVars, callVars
<1>0. Typed' /\ Owned' /\ FileMoves
  BY AliveStep
<1>1. ASSUME NEW r \in Requests, Accept(r)
      PROVE  Decided'
  BY <1>0, <1>1 DEF Accept, vars
<1>2. ASSUME NEW r \in Requests, Reject(r)
      PROVE  Decided'
  BY <1>0, <1>2 DEF Reject, Goto, serviceVars
<1>3. ASSUME NEW r \in Requests, SubmitValid(r)
      PROVE  Decided'
  BY <1>0, <1>3 DEF SubmitValid, Submit, SaveAndGo, Goto
<1>4. ASSUME NEW r \in Requests, Prune(r)
      PROVE  Decided'
  BY <1>0, <1>4 DEF Prune, PruneList, PruneDelete, Goto
<1>5. ASSUME NEW r \in Requests, ExecuteGet(r), UNCHANGED <<file, begun>>,
             UNCHANGED <<proc, accepted, event, answered, withdrawn>>
      PROVE  Decided'
  BY <1>0, <1>5 DEF ExecuteGet, Goto
<1>6. ASSUME NEW r \in Requests, ExecuteCheck(r), UNCHANGED <<file, begun>>,
             UNCHANGED <<proc, accepted, event, answered, withdrawn>>
      PROVE  Decided'
  BY <1>0, <1>6 DEF ExecuteCheck, Goto
<1>7. ASSUME NEW r \in Requests, ExecuteMark(r), UNCHANGED <<file, begun>>,
             UNCHANGED <<proc, accepted, event, answered, withdrawn>>
      PROVE  Decided'
  BY <1>0, <1>7 DEF ExecuteMark, Goto
<1>8. ASSUME NEW r \in Requests, ExecuteSave(r), Written(pc'[r] # "error"), UNCHANGED begun,
             UNCHANGED <<proc, accepted, event, answered, withdrawn>>
      PROVE  Decided'
  BY <1>0, <1>8 DEF ExecuteSave, SaveAndGo, Saved, Goto
<1>9. ASSUME NEW r \in Requests, ExecuteRegister(r), begun' = begun \cup {got[r]}, UNCHANGED file,
             UNCHANGED <<proc, accepted, event, answered, withdrawn>>
      PROVE  Decided'
  BY <1>0, <1>9 DEF ExecuteRegister, Goto
<1>10. ASSUME NEW r \in Requests, Announce(r), UNCHANGED <<file, event>>,
             UNCHANGED <<proc, accepted, answered, begun, withdrawn>>
      PROVE  Decided'
  BY <1>0, <1>10 DEF Announce, Goto
<1>11. ASSUME NEW r \in Requests, ExecutorEnds(r), event' = [event EXCEPT ![r] = status'[got[r]]], UNCHANGED file,
             UNCHANGED <<proc, accepted, answered, begun, withdrawn>>
      PROVE  Decided'
  BY <1>0, <1>11 DEF ExecutorEnds, Outcomes, Goto
<1>12. ASSUME NEW r \in Requests, ConfirmFailure(r), UNCHANGED <<file, event>>,
             UNCHANGED <<proc, accepted, answered, begun, withdrawn>>
      PROVE  Decided'
  BY <1>0, <1>12 DEF ConfirmFailure, StatusAfterError, Goto
<1>13. ASSUME NEW r \in Requests, Settle(r), UNCHANGED event,
             UNCHANGED <<proc, accepted, answered, begun, withdrawn>>
      PROVE  Decided'
  BY <1>0, <1>13 DEF Settle, Goto
<1>14. ASSUME NEW r \in Requests, Unregister(r), UNCHANGED <<file, event>>,
             UNCHANGED <<proc, accepted, answered, begun, withdrawn>>
      PROVE  Decided'
  BY <1>0, <1>14 DEF Unregister, Goto
<1>15. ASSUME NEW r \in Requests, Respond(r)
      PROVE  Decided'
  BY <1>0, <1>15 DEF Respond, vars
<1>16. ASSUME NEW r \in Requests, Leave(r)
      PROVE  Decided'
  BY <1>0, <1>16 DEF Leave, Disconnect, serviceVars
<1>17. ASSUME NEW k \in CancelCalls, CancelGet(k), UNCHANGED <<file, withdrawn>>,
             UNCHANGED <<proc, accepted, event, answered, begun>>
      PROVE  Decided'
  BY <1>0, <1>17 DEF CancelGet, CGoto
<1>18. ASSUME NEW k \in CancelCalls, CancelCheck(k), UNCHANGED <<file, withdrawn>>,
             UNCHANGED <<proc, accepted, event, answered, begun>>
      PROVE  Decided'
  BY <1>0, <1>18 DEF CancelCheck, CGoto
<1>19. ASSUME NEW k \in CancelCalls, CancelBranch(k), UNCHANGED <<file, withdrawn>>,
             UNCHANGED <<proc, accepted, event, answered, begun>>
      PROVE  Decided'
  BY <1>0, <1>19 DEF CancelBranch, CGoto
<1>20. ASSUME NEW k \in CancelCalls, CancelMark(k), withdrawn' = withdrawn \cup {cobj[k]}, UNCHANGED file,
             UNCHANGED <<proc, accepted, event, answered, begun>>
      PROVE  Decided'
  BY <1>0, <1>20 DEF CancelMark, CGoto
<1>21. ASSUME NEW k \in CancelCalls, CancelLookup(k), UNCHANGED <<file, withdrawn>>,
             UNCHANGED <<proc, accepted, event, answered, begun>>
      PROVE  Decided'
  BY <1>0, <1>21 DEF CancelLookup, CGoto
<1>22. ASSUME NEW k \in CancelCalls, CancelSave(k), UNCHANGED withdrawn,
             UNCHANGED <<proc, accepted, event, answered, begun>>
      PROVE  Decided'
  BY <1>0, <1>22 DEF CancelSave, CGoto
<1> QED BY <1>1, <1>2, <1>3, <1>4, <1>5, <1>6, <1>7, <1>8, <1>9, <1>10, <1>11, <1>12, <1>13, <1>14, <1>15, <1>16, <1>17, <1>18, <1>19, <1>20, <1>21, <1>22 DEF Alive, Execute, Run, CancelHandler

(* The file gets the outcome of a task from the task alone. *)
LEMMA AgreesStep ==
    ASSUME Typed, Owned, Marked, Told, Decided, FileAgrees, Alive
    PROVE  FileAgrees'
<1>1. Typed' /\ Decided' /\ FileMoves
  BY AliveStep, DecidedStep
<1>2. \A r \in Requests : event'[r] # event[r] => pc[r] = "running"
  <2>1. ASSUME NEW r \in Requests, Run(r)
        PROVE  \A q \in Requests : event'[q] # event[q] => pc[q] = "running"
    <3>1. CASE ExecutorEnds(r) /\ event' = [event EXCEPT ![r] = status'[got[r]]]
      BY <3>1 DEF ExecutorEnds, Owned, InRun, Typed
    <3>2. CASE UNCHANGED event
      BY <3>2
    <3> QED BY <2>1, <3>1, <3>2 DEF Run
  <2>2. ~(\E r \in Requests : Run(r)) => UNCHANGED event
    BY DEF Alive, Accept, Reject, SubmitValid, Prune, Execute, Respond, Leave, CancelHandler, serviceVars
  <2> QED BY <2>1, <2>2 DEF Alive
<1>6. withdrawn \subseteq withdrawn'
  BY DEF Alive, Accept, Reject, SubmitValid, Prune, Execute, Run, Respond, Leave, CancelHandler, serviceVars
<1> SUFFICES ASSUME NEW r \in Requests \ withdrawn', event'[r] # NoStatus, file'[IdOf[r]] \in Terminal
             PROVE  file'[IdOf[r]] = event'[r]
  BY CoordinatorAssumption DEF FileAgrees
<1>3. CASE file'[IdOf[r]] = status'[r]
  BY <1>1, <1>3 DEF Decided
<1>4. CASE file'[IdOf[r]] = file[IdOf[r]]
  <2>1. pc[r] # "running"
    BY <1>4, <1>6 DEF Decided, Early
  <2> QED BY <1>2, <1>4, <1>6, <2>1 DEF FileAgrees
<1>5. file'[IdOf[r]] # NoStatus
  BY ServiceAssumption DEF Terminal, Statuses
<1> QED BY <1>1, <1>3, <1>4, <1>5 DEF FileMoves

-----------------------------------------------------------------------------
(* Restarting forgets the handlers and the runs, and every status the file
   does not have. *)
LEMMA StartKeeps ==
    ASSUME Typed, Owned, Marked, Told, Start
    PROVE  Marked' /\ Told'
<1>1. Marked'
  BY StartFacts, ServiceAssumption DEF Marked, InRun, Unstarted
<1>2. Told'
  BY StartFacts DEF Told, Marked, Typed, Base, Labels, Early
<1> QED BY <1>1, <1>2

LEMMA StartDecides ==
    ASSUME Typed, Owned, Marked, Told, Decided, FileAgrees, Start
    PROVE  Decided' /\ FileAgrees'
<1>1. \A r \in Requests : pc'[r] \in Early => pc'[r] = "new"
  BY StartFacts DEF Early
<1>2. \A r \in Requests \ withdrawn' : pc'[r] \in Early => status'[r] \notin Terminal /\ file'[IdOf[r]] \notin Terminal
  BY <1>1, StartFacts DEF Decided, Early
<1>3. \A r \in Requests \ withdrawn' : event'[r] # NoStatus /\ status'[r] \in Terminal => status'[r] = event'[r]
  BY StartFacts DEF Decided, FileAgrees
<1>4. Decided'
  BY <1>2, <1>3, StartFacts DEF Decided
<1>5. FileAgrees'
  BY StartFacts DEF FileAgrees
<1> QED BY <1>4, <1>5

(* The other steps of the process touch nothing but the process. *)
LEMMA Quiet ==
    ASSUME Typed, Owned, Marked, Told, Shutdown \/ Drained \/ Die \/ UNCHANGED allVars
    PROVE  /\ Typed' /\ Owned' /\ Marked' /\ Told'
           /\ Decided => Decided'
           /\ FileAgrees => FileAgrees'
<1>1. UNCHANGED <<vars, file, event, answered, begun, withdrawn>>
  BY DEF Shutdown, Drained, Die, allVars, serviceVars
<1> USE <1>1 DEF vars, reqVars, callVars
<1>2. Typed' /\ Owned'
  BY DEF Typed, Base, Named, Owned, InRun
<1>3. Marked' /\ Told'
  BY DEF Marked, Told, InRun
<1>4. Decided => Decided'
  BY DEF Decided
<1>5. FileAgrees => FileAgrees'
  BY DEF FileAgrees
<1> QED BY <1>2, <1>3, <1>4, <1>5

Sound == Typed /\ Owned /\ Marked /\ Told

LEMMA SoundAlways == ServiceSpec => []Sound
<1>1. ServiceInit => Sound
  BY InitTyped DEF Sound
<1>2. Sound /\ [ServiceNext]_allVars => Sound'
  <2>1. CASE Sound /\ Alive
    BY <2>1, AliveStep, MarkedStep, ToldStep DEF Sound
  <2>2. CASE Sound /\ Start
    BY <2>2, StartStep, StartKeeps DEF Sound
  <2>3. CASE Sound /\ (Shutdown \/ Drained \/ Die \/ UNCHANGED allVars)
    BY <2>3, Quiet DEF Sound
  <2> QED BY <2>1, <2>2, <2>3 DEF ServiceNext
<1> QED BY <1>1, <1>2, PTL DEF ServiceSpec

-----------------------------------------------------------------------------
(* A task that is pending in the file was never given to the executor,
   whenever the process stopped and however often it was started again. *)
THEOREM PendingNeverRan == ServiceSpec => []PendingIsUntouched
<1>1. Sound => PendingIsUntouched
  BY DEF Sound, Marked, Unstarted, PendingIsUntouched
<1> QED BY <1>1, SoundAlways, PTL

(* A shutdown that waits for the handlers has waited for the tasks. *)
THEOREM ShutdownInterruptsNothing == ServiceSpec => GracefulFinishes
<1>1. Sound /\ [ServiceNext]_allVars =>
        (Drained => \A r \in Requests : pc[r] \notin {"started", "running"})
  <2> SUFFICES ASSUME Sound, Drained, NEW r \in Requests
               PROVE  pc[r] \notin {"started", "running"}
    OBVIOUS
  <2>1. HandlerDone(r)
    BY DEF Drained
  <2>2. r \in answered => pc[r] \notin Early
    BY DEF Sound, Told
  <2> QED BY <2>1, <2>2 DEF HandlerDone, Early
<1> QED BY <1>1, SoundAlways, PTL DEF ServiceSpec, GracefulFinishes

(* What the file says a task ended with is what its client was told, unless
   CancelTask found it pending. *)
THEOREM FileAgreesWithClients == ServiceSpec => []FileAgrees
<1> DEFINE Agreed == Decided /\ FileAgrees
<1>1. ServiceInit => Agreed
  BY InitTyped
<1>2. Sound /\ Agreed /\ [ServiceNext]_allVars => Agreed'
  <2>1. CASE Sound /\ Agreed /\ Alive
    BY <2>1, DecidedStep, AgreesStep DEF Sound
  <2>2. CASE Sound /\ Agreed /\ Start
    BY <2>2, StartDecides DEF Sound
  <2>3. CASE Sound /\ Agreed /\ (Shutdown \/ Drained \/ Die \/ UNCHANGED allVars)
    BY <2>3, Quiet DEF Sound
  <2> QED BY <2>1, <2>2, <2>3 DEF ServiceNext
<1>3. Agreed => FileAgrees
  OBVIOUS
<1> QED BY <1>1, <1>2, <1>3, SoundAlways, PTL DEF ServiceSpec

-----------------------------------------------------------------------------
(* The cancels map is as exact as in Coordinator when processes come and go. *)
Entries == cancels \in [IDs -> Requests \cup {NoRun}] /\ CancelsExact

LEMMA EntriesKept ==
    ASSUME Entries, UNCHANGED cancels,
           \A q \in Requests : (InRun(q)' <=> InRun(q)) /\ (InRun(q) => got'[q] = got[q])
    PROVE  Entries'
<1>1. CancelsExact'
  BY CoordinatorAssumption DEF CoordinatorAssumption, Entries, CancelsExact
<1> QED BY <1>1 DEF Entries

LEMMA EntriesStep == ASSUME Typed, Owned, Entries, Alive PROVE Entries'
<1> USE DEF Typed, Base, Labels, InRun, reqVars, callVars, serviceVars
<1>1. ASSUME NEW r \in Requests, ExecuteRegister(r) PROVE Entries'
  <2>1. /\ pc[r] = "register" /\ pc' = [pc EXCEPT ![r] = "started"]
        /\ got[r] = r /\ got' = got /\ IdOf[r] \in IDs
        /\ cancels' = [cancels EXCEPT ![IdOf[r]] = r]
    BY <1>1, CoordinatorAssumption DEF ExecuteRegister, Goto, Owned, CoordinatorAssumption
  <2>2. \A q \in Requests : InRun(q)' => q = r \/ InRun(q)
    BY <2>1
  <2>3. \A q \in Requests : InRun(q) => got[q] = q
    BY DEF Owned
  <2>4. \A q \in Requests : InRun(q)' => cancels'[IdOf[got'[q]]] = q
    BY <2>1, <2>2, <2>3, CoordinatorAssumption, ServiceAssumption
       DEF CoordinatorAssumption, ServiceAssumption, Entries, CancelsExact
  <2>5. ASSUME NEW i \in IDs, cancels'[i] # NoRun PROVE InRun(cancels[i])' /\ IdOf[got'[cancels'[i]]] = i
    <3>1. CASE i = IdOf[r]
      <4>1. cancels'[i] = r
        BY <2>1, <3>1 DEF Entries
      <4> QED BY <2>1, <3>1, <4>1
    <3>2. CASE i # IdOf[r]
      <4>1. cancels'[i] = cancels[i] /\ cancels[i] \in Requests /\ cancels[i] # NoRun
        BY <2>1, <2>5, <3>2 DEF Entries
      <4>2. InRun(cancels[i]) /\ IdOf[got[cancels[i]]] = i
        BY <4>1 DEF Entries, CancelsExact
      <4>3. cancels[i] # r
        BY <2>1, <4>2
      <4>4. pc'[cancels[i]] = pc[cancels[i]]
        BY <2>1, <4>1, <4>3
      <4> QED BY <2>1, <4>1, <4>2, <4>4
    <3> QED BY <3>1, <3>2
  <2> QED BY <2>1, <2>4, <2>5 DEF Entries, CancelsExact
<1>2. ASSUME NEW r \in Requests, Unregister(r) PROVE Entries'
  <2>1. /\ pc[r] = "unregister" /\ pc' = [pc EXCEPT ![r] = "ended"]
        /\ got[r] = r /\ got' = got /\ IdOf[r] \in IDs
        /\ cancels' = [cancels EXCEPT ![IdOf[r]] = NoRun]
    BY <1>2, CoordinatorAssumption DEF Unregister, Goto, Owned, CoordinatorAssumption
  <2>2. \A q \in Requests : InRun(q)' => q # r /\ InRun(q)
    BY <2>1
  <2>3. \A q \in Requests : InRun(q) => got[q] = q
    BY DEF Owned
  <2>4. \A q \in Requests : InRun(q)' => cancels'[IdOf[got'[q]]] = q
    BY <2>1, <2>2, <2>3, ServiceAssumption DEF ServiceAssumption, Entries, CancelsExact
  <2>5. cancels[IdOf[r]] = r
    BY <2>1 DEF Entries, CancelsExact
  <2>6. ASSUME NEW i \in IDs, cancels'[i] # NoRun PROVE InRun(cancels[i])' /\ IdOf[got'[cancels'[i]]] = i
    <3>1. i # IdOf[r]
      BY <2>1, <2>6 DEF Entries
    <3>2. cancels'[i] = cancels[i] /\ cancels[i] \in Requests /\ cancels[i] # NoRun
      BY <2>1, <2>6, <3>1 DEF Entries
    <3>3. InRun(cancels[i]) /\ IdOf[got[cancels[i]]] = i
      BY <3>2 DEF Entries, CancelsExact
    <3>4. cancels[i] # r
      BY <2>1, <3>1, <3>3
    <3>5. pc'[cancels[i]] = pc[cancels[i]]
      BY <2>1, <3>2, <3>4
    <3> QED BY <2>1, <3>2, <3>3, <3>5
  <2> QED BY <2>1, <2>4, <2>6, CoordinatorAssumption DEF CoordinatorAssumption, Entries, CancelsExact
<1>3. ASSUME NEW r \in Requests,
             \/ Accept(r) \/ Reject(r) \/ SubmitValid(r) \/ Prune(r)
             \/ Execute(r) /\ ~ExecuteRegister(r)
      PROVE  Entries'
  <2>1. /\ cancels' = cancels
        /\ \A q \in Requests \ {r} : pc'[q] = pc[q] /\ got'[q] = got[q]
        /\ (pc'[r] = pc[r] /\ got'[r] = got[r]) \/ (~InRun(r) /\ ~InRun(r)')
    BY <1>3 DEF Accept, Reject, SubmitValid, Submit, SaveAndGo, Prune, PruneList, PruneDelete, Execute,
                ExecuteGet, ExecuteCheck, ExecuteMark, ExecuteSave, Goto, vars
  <2>2. \A q \in Requests : (InRun(q)' <=> InRun(q)) /\ (InRun(q) => got'[q] = got[q])
    BY <2>1
  <2> QED BY <2>1, <2>2, EntriesKept
<1>4. ASSUME NEW r \in Requests, Run(r) \/ Respond(r) \/ Leave(r), ~Unregister(r) PROVE Entries'
  <2>1. /\ cancels' = cancels /\ got' = got
        /\ \A q \in Requests : InRun(q)' <=> InRun(q)
    BY <1>4 DEF Run, Announce, ConfirmFailure, ExecutorEnds, Settle, Respond, Leave,
                Disconnect, Goto, vars
  <2> QED BY <2>1, EntriesKept
<1>5. ASSUME NEW k \in CancelCalls, CancelHandler(k) PROVE Entries'
  <2>1. UNCHANGED <<cancels, pc, got>>
    BY <1>5 DEF CancelHandler, CancelGet, CancelCheck, CancelBranch, CancelMark, CancelLookup, CancelSave
  <2> QED BY <2>1, EntriesKept
<1> QED BY <1>1, <1>2, <1>3, <1>4, <1>5 DEF Alive

(* In the service, too, a cancellation finds exactly the runs that last: no
   entry outlives its run, and a restart leaves none behind. *)
THEOREM CancelsExactAfterRestart == ServiceSpec => []CancelsExact
<1>1. ServiceInit => Entries
  BY DEF ServiceInit, Init, Entries, CancelsExact, InRun
<1>2. Sound /\ Entries /\ [ServiceNext]_allVars => Entries'
  <2>1. CASE Sound /\ Entries /\ Alive
    BY <2>1, EntriesStep DEF Sound
  <2>2. CASE Sound /\ Start
    <3>1. cancels' = [i \in IDs |-> NoRun] /\ \A r \in Requests : ~InRun(r)'
      BY <2>2 DEF Start, InRun
    <3> QED BY <3>1 DEF Entries, CancelsExact
  <2>3. CASE Entries /\ (Shutdown \/ Drained \/ Die \/ UNCHANGED allVars)
    <3>1. UNCHANGED <<cancels, pc, got>>
      BY <2>3 DEF Shutdown, Drained, Die, allVars, vars, reqVars
    <3> QED BY <2>3, <3>1, EntriesKept DEF InRun
  <2> QED BY <2>1, <2>2, <2>3 DEF ServiceNext
<1>3. Entries => CancelsExact
  BY DEF Entries
<1> QED BY <1>1, <1>2, <1>3, SoundAlways, PTL DEF ServiceSpec
=============================================================================
