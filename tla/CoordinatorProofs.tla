-------------------------- MODULE CoordinatorProofs --------------------------
(***************************************************************************)
(* What the runs of Coordinator show for two requests and two calls of     *)
(* CancelTask, proved for any number of them and any MaxHistory: what      *)
(* holds in general, what holds when no two tasks share an ID, and what    *)
(* holds when clients also cancel only tasks that have announced           *)
(* themselves or whose submission has failed.  Without these conditions    *)
(* the code's missing lock around a task shows.                            *)
(***************************************************************************)
EXTENDS Coordinator, FiniteSetTheorems, TLAPS

(* A task that has not been submitted has no creation time. *)
Fresh == \A r \in Requests : pc[r] = "new" => born[r] = 0

Typed == TypeOK /\ Fresh

LEMMA InitTyped == ASSUME CoordinatorAssumption, Init PROVE Typed
<1>1. Cardinality(Requests) \in Nat
  BY FS_CardinalityType DEF CoordinatorAssumption
<1>2. TypeOK
  BY <1>1 DEF Init, TypeOK, Statuses, InRun
<1>3. Fresh
  BY DEF Init, Fresh
<1> QED BY <1>2, <1>3 DEF Typed

(* The clock has not run out while a task is still to be submitted. *)
LEMMA ClockBound ==
    ASSUME CoordinatorAssumption, Typed, NEW r \in Requests, pc[r] = "new"
    PROVE  Clock + 1 \in 0 .. Cardinality(Requests)
<1> DEFINE B == {t \in Requests : born[t] > 0}
<1>1. B \subseteq Requests \ {r}
  BY DEF Typed, Fresh
<1>2. IsFiniteSet(Requests \ {r}) /\ Cardinality(Requests \ {r}) = Cardinality(Requests) - 1
  BY FS_RemoveElement DEF CoordinatorAssumption
<1>3. IsFiniteSet(B) /\ Cardinality(B) <= Cardinality(Requests \ {r})
  BY <1>1, <1>2, FS_Subset
<1>4. Cardinality(B) \in Nat /\ Cardinality(Requests) \in Nat
  BY <1>3, FS_CardinalityType DEF CoordinatorAssumption
<1> QED BY <1>2, <1>3, <1>4 DEF Clock

(* Each action leaves the variables within their types. *)
LEMMA TypedStep ==
    ASSUME CoordinatorAssumption, Typed, Next PROVE Typed'
<1> USE DEF CoordinatorAssumption, Typed, TypeOK, Fresh, InRun, reqVars, callVars
<1>1. ASSUME NEW r \in Requests, Submit(r) PROVE Typed'
  BY <1>1, ClockBound DEF Submit, SaveAndGo, Saved, Goto, Statuses
<1>2. ASSUME NEW r \in Requests, PruneList(r) PROVE Typed'
  BY <1>2 DEF PruneList, Goto, Oldest, Prunable, Stored
<1>3. ASSUME NEW r \in Requests, PruneDelete(r) PROVE Typed'
  BY <1>3 DEF PruneDelete, Goto
<1>4. ASSUME NEW r \in Requests, ExecuteGet(r) PROVE Typed'
  BY <1>4 DEF ExecuteGet, Goto
<1>5. ASSUME NEW r \in Requests, ExecuteCheck(r) PROVE Typed'
  BY <1>5 DEF ExecuteCheck, Goto, MayStart
<1>6. ASSUME NEW r \in Requests, ExecuteMark(r) PROVE Typed'
  BY <1>6 DEF ExecuteMark, Goto, Statuses
<1>7. ASSUME NEW r \in Requests, ExecuteSave(r) PROVE Typed'
  BY <1>7 DEF ExecuteSave, SaveAndGo, Saved, Goto
<1>8. ASSUME NEW r \in Requests, ExecuteRegister(r) PROVE Typed'
  BY <1>8 DEF ExecuteRegister, Goto
<1>9. ASSUME NEW r \in Requests, Announce(r) PROVE Typed'
  BY <1>9 DEF Announce, Goto
<1>10. ASSUME NEW r \in Requests, ExecutorEnds(r) PROVE Typed'
  BY <1>10 DEF ExecutorEnds, Outcomes, Goto, Statuses
<1>11. ASSUME NEW r \in Requests, ConfirmFailure(r) PROVE Typed'
  BY <1>11 DEF ConfirmFailure, StatusAfterError, Goto, Statuses
<1>12. ASSUME NEW r \in Requests, Settle(r) PROVE Typed'
  BY <1>12 DEF Settle, Saved, Goto
<1>13. ASSUME NEW r \in Requests, Unregister(r) PROVE Typed'
  BY <1>13 DEF Unregister, Goto
<1>14. ASSUME NEW r \in Requests, Disconnect(r) PROVE Typed'
  BY <1>14 DEF Disconnect
<1>15. ASSUME NEW k \in CancelCalls, CancelGet(k) PROVE Typed'
  BY <1>15 DEF CancelGet, CGoto
<1>16. ASSUME NEW k \in CancelCalls, CancelCheck(k) PROVE Typed'
  BY <1>16 DEF CancelCheck, CGoto
<1>17. ASSUME NEW k \in CancelCalls, CancelBranch(k) PROVE Typed'
  BY <1>17 DEF CancelBranch, CGoto
<1>18. ASSUME NEW k \in CancelCalls, CancelMark(k) PROVE Typed'
  BY <1>18 DEF CancelMark, CGoto, Statuses
<1>19. ASSUME NEW k \in CancelCalls, CancelSave(k) PROVE Typed'
  BY <1>19 DEF CancelSave, Saved, CGoto
<1>20. ASSUME NEW k \in CancelCalls, CancelLookup(k) PROVE Typed'
  BY <1>20 DEF CancelLookup, CGoto
<1> QED BY <1>1, <1>2, <1>3, <1>4, <1>5, <1>6, <1>7, <1>8, <1>9, <1>10, <1>11, <1>12, <1>13, <1>14, <1>15, <1>16, <1>17, <1>18, <1>19, <1>20 DEF Next, RequestNext, CancelNext

-----------------------------------------------------------------------------
(* No two tasks share an ID: IDs are generated, or clients choose them well. *)
Distinct == \A r, q \in Requests : IdOf[r] = IdOf[q] => r = q

(* Then everybody works on the object of the ID they were given, and a request
   on its own. *)
Owned ==
    /\ \A i \in IDs : store[i] # NoTask => IdOf[store[i]] = i
    /\ \A r \in Requests :
        /\ got[r] \in {NoTask, r}
        /\ pc[r] = "ended" => got[r] = r
    /\ \A k \in CancelCalls : cobj[k] # NoTask => IdOf[cobj[k]] = cid[k]

Own == Typed /\ Owned /\ CancelsExact

LEMMA InitOwn == ASSUME CoordinatorAssumption, Init PROVE Own
<1>1. Owned
  BY DEF CoordinatorAssumption, Init, Owned
<1>2. CancelsExact
  BY DEF Init, CancelsExact, InRun
<1> QED BY <1>1, <1>2, InitTyped DEF Own

(* Each action keeps to the object of its ID, and only the run that registered
   a cancel function removes it. *)
LEMMA OwnStep ==
    ASSUME CoordinatorAssumption, Distinct, Own, Next PROVE (Owned /\ CancelsExact)'
<1> USE DEF CoordinatorAssumption, Own, Typed, TypeOK, Owned, CancelsExact, InRun, Distinct, reqVars, callVars
<1>1. ASSUME NEW r \in Requests, Submit(r) PROVE (Owned /\ CancelsExact)'
  BY <1>1, SMTT(40) DEF Submit, SaveAndGo, Saved, Goto, Statuses
<1>2. ASSUME NEW r \in Requests, PruneList(r) PROVE (Owned /\ CancelsExact)'
  BY <1>2, SMTT(40) DEF PruneList, Goto, Oldest, Prunable, Stored
<1>3. ASSUME NEW r \in Requests, PruneDelete(r) PROVE (Owned /\ CancelsExact)'
  BY <1>3 DEF PruneDelete, Goto
<1>4. ASSUME NEW r \in Requests, ExecuteGet(r) PROVE (Owned /\ CancelsExact)'
  BY <1>4 DEF ExecuteGet, Goto
<1>5. ASSUME NEW r \in Requests, ExecuteCheck(r) PROVE (Owned /\ CancelsExact)'
  BY <1>5 DEF ExecuteCheck, Goto, MayStart
<1>6. ASSUME NEW r \in Requests, ExecuteMark(r) PROVE (Owned /\ CancelsExact)'
  BY <1>6 DEF ExecuteMark, Goto, Statuses
<1>7. ASSUME NEW r \in Requests, ExecuteSave(r) PROVE (Owned /\ CancelsExact)'
  BY <1>7 DEF ExecuteSave, SaveAndGo, Saved, Goto
<1>8. ASSUME NEW r \in Requests, ExecuteRegister(r) PROVE (Owned /\ CancelsExact)'
  BY <1>8 DEF ExecuteRegister, Goto
<1>9. ASSUME NEW r \in Requests, Announce(r) PROVE (Owned /\ CancelsExact)'
  BY <1>9 DEF Announce, Goto
<1>10. ASSUME NEW r \in Requests, ExecutorEnds(r) PROVE (Owned /\ CancelsExact)'
  BY <1>10 DEF ExecutorEnds, Outcomes, Goto, Statuses
<1>11. ASSUME NEW r \in Requests, ConfirmFailure(r) PROVE (Owned /\ CancelsExact)'
  BY <1>11 DEF ConfirmFailure, StatusAfterError, Goto, Statuses
<1>12. ASSUME NEW r \in Requests, Settle(r) PROVE (Owned /\ CancelsExact)'
  BY <1>12 DEF Settle, Saved, Goto
<1>13. ASSUME NEW r \in Requests, Unregister(r) PROVE (Owned /\ CancelsExact)'
  BY <1>13 DEF Unregister, Goto
<1>14. ASSUME NEW r \in Requests, Disconnect(r) PROVE (Owned /\ CancelsExact)'
  BY <1>14 DEF Disconnect
<1>15. ASSUME NEW k \in CancelCalls, CancelGet(k) PROVE (Owned /\ CancelsExact)'
  BY <1>15 DEF CancelGet, CGoto
<1>16. ASSUME NEW k \in CancelCalls, CancelCheck(k) PROVE (Owned /\ CancelsExact)'
  BY <1>16 DEF CancelCheck, CGoto
<1>17. ASSUME NEW k \in CancelCalls, CancelBranch(k) PROVE (Owned /\ CancelsExact)'
  BY <1>17 DEF CancelBranch, CGoto
<1>18. ASSUME NEW k \in CancelCalls, CancelMark(k) PROVE (Owned /\ CancelsExact)'
  BY <1>18 DEF CancelMark, CGoto, Statuses
<1>19. ASSUME NEW k \in CancelCalls, CancelSave(k) PROVE (Owned /\ CancelsExact)'
  BY <1>19 DEF CancelSave, Saved, CGoto
<1>20. ASSUME NEW k \in CancelCalls, CancelLookup(k) PROVE (Owned /\ CancelsExact)'
  BY <1>20 DEF CancelLookup, CGoto
<1> QED BY <1>1, <1>2, <1>3, <1>4, <1>5, <1>6, <1>7, <1>8, <1>9, <1>10, <1>11, <1>12, <1>13, <1>14, <1>15, <1>16, <1>17, <1>18, <1>19, <1>20 DEF Next, RequestNext, CancelNext

-----------------------------------------------------------------------------
(* A cancellation comes after the first event of the task, or after its
   submission has failed. *)

Begun(r) == pc[r] \in {"running", "failed", "settle", "unregister", "ended"}

(* The task of a failed submission, which no run will ever take: pending until
   somebody cancels it. *)
Unrun(r) == pc[r] = "error" /\ status[r] \in {"pending", "cancelled"}

(* The status of a task follows the program counter of its request. *)
Life ==
    \A r \in Requests :
        /\ pc[r] = "new" => status[r] = "new"
        /\ pc[r] \in {"prune", "delete", "get", "check", "mark"} => status[r] = "pending"
        /\ pc[r] \in {"save", "register", "started", "running"} => status[r] = "running"
        /\ pc[r] = "failed" => status[r] \in {"failed", "cancelled"}
        /\ pc[r] \in {"settle", "unregister", "ended"} => status[r] \in Terminal
        /\ pc[r] = "error" => status[r] \in {"pending", "running", "cancelled"}

(* A cancellation takes the branch for pending tasks only with one that is not
   run, and once accepted it has stopped the task or come too late. *)
Reached ==
    \A k \in CancelCalls :
        /\ cpc[k] \in {"check", "branch", "mark", "save", "lookup", "accepted"} =>
            cobj[k] \in Requests /\ (Begun(cobj[k]) \/ Unrun(cobj[k]))
        /\ cpc[k] \in {"mark", "save"} => Unrun(cobj[k])
        /\ cpc[k] = "save" => status[cobj[k]] = "cancelled"
        /\ cpc[k] = "lookup" => Begun(cobj[k]) \/ status[cobj[k]] = "cancelled"
        /\ cpc[k] = "accepted" =>
            \/ status[cobj[k]] \in Terminal
            \/ Begun(cobj[k]) /\ canceled[cobj[k]]

(* What pruning has chosen was over and stays so. *)
Doomed ==
    \A r, t \in Requests :
        pc[r] = "delete" /\ victim[r] = IdOf[t] => status[t] \in Terminal

(* A task is in the store from its submission until its run has an outcome. *)
Kept ==
    \A r \in Requests :
        pc[r] \in {"prune", "delete", "get", "check", "mark", "save",
                   "register", "started", "running"} => store[IdOf[r]] = r

Late == Life /\ Reached /\ Doomed /\ Kept

LEMMA InitLate == ASSUME Init PROVE Late
  BY DEF Init, Late, Life, Reached, Doomed, Kept

(* Each action keeps the status, the store and the cancellations in step. *)
LEMMA LateStep ==
    ASSUME CoordinatorAssumption, Distinct, ClientsWait, Own, Late, Next PROVE Late'
<1> USE DEF CoordinatorAssumption, Own, Typed, TypeOK, Owned, CancelsExact, InRun, Distinct, Late, Life, Reached, Doomed, Kept, Begun, Unrun, Announced, Terminal, reqVars, callVars
<1>1. ASSUME NEW r \in Requests, Submit(r) PROVE Late'
  BY <1>1 DEF Submit, SaveAndGo, Saved, Goto, Statuses
<1>2. ASSUME NEW r \in Requests, PruneList(r) PROVE Late'
  BY <1>2 DEF PruneList, Goto, Oldest, Prunable, Stored
<1>3. ASSUME NEW r \in Requests, PruneDelete(r) PROVE Late'
  BY <1>3 DEF PruneDelete, Goto
<1>4. ASSUME NEW r \in Requests, ExecuteGet(r) PROVE Late'
  BY <1>4 DEF ExecuteGet, Goto
<1>5. ASSUME NEW r \in Requests, ExecuteCheck(r) PROVE Late'
  BY <1>5 DEF ExecuteCheck, Goto, MayStart
<1>6. ASSUME NEW r \in Requests, ExecuteMark(r) PROVE Late'
  BY <1>6 DEF ExecuteMark, Goto, Statuses
<1>7. ASSUME NEW r \in Requests, ExecuteSave(r) PROVE Late'
  BY <1>7 DEF ExecuteSave, SaveAndGo, Saved, Goto
<1>8. ASSUME NEW r \in Requests, ExecuteRegister(r) PROVE Late'
  BY <1>8 DEF ExecuteRegister, Goto
<1>9. ASSUME NEW r \in Requests, Announce(r) PROVE Late'
  BY <1>9 DEF Announce, Goto
<1>10. ASSUME NEW r \in Requests, ExecutorEnds(r) PROVE Late'
  BY <1>10 DEF ExecutorEnds, Outcomes, Goto, Statuses
<1>11. ASSUME NEW r \in Requests, ConfirmFailure(r) PROVE Late'
  BY <1>11 DEF ConfirmFailure, StatusAfterError, Goto, Statuses
<1>12. ASSUME NEW r \in Requests, Settle(r) PROVE Late'
  BY <1>12 DEF Settle, Saved, Goto
<1>13. ASSUME NEW r \in Requests, Unregister(r) PROVE Late'
  BY <1>13 DEF Unregister, Goto
<1>14. ASSUME NEW r \in Requests, Disconnect(r) PROVE Late'
  BY <1>14 DEF Disconnect
<1>15. ASSUME NEW k \in CancelCalls, CancelGet(k) PROVE Late'
  <2>1. PICK r \in Requests : IdOf[r] = cid[k] /\ (Begun(r) \/ Unrun(r))
    BY <1>15 DEF CancelGet, Seen
  <2>2. store[cid[k]] \in {NoTask, r}
    BY <2>1
  <2>3. /\ cobj' = [cobj EXCEPT ![k] = store[cid[k]]]
        /\ cpc' = [cpc EXCEPT ![k] = IF store[cid[k]] = NoTask THEN "refused" ELSE "check"]
        /\ UNCHANGED <<store, cancels, status, born, pc, got, victim, canceled, cid>>
    BY <1>15 DEF CancelGet, CGoto
  <2>4. Reached'
    BY <2>1, <2>2, <2>3
  <2> QED BY <2>3, <2>4
<1>16. ASSUME NEW k \in CancelCalls, CancelCheck(k) PROVE Late'
  BY <1>16 DEF CancelCheck, CGoto
<1>17. ASSUME NEW k \in CancelCalls, CancelBranch(k) PROVE Late'
  BY <1>17 DEF CancelBranch, CGoto
<1>18. ASSUME NEW k \in CancelCalls, CancelMark(k) PROVE Late'
  BY <1>18 DEF CancelMark, CGoto, Statuses
<1>19. ASSUME NEW k \in CancelCalls, CancelSave(k) PROVE Late'
  BY <1>19 DEF CancelSave, Saved, CGoto
<1>20. ASSUME NEW k \in CancelCalls, CancelLookup(k) PROVE Late'
  <2>1. /\ cpc[k] = "lookup"
        /\ canceled' = [r \in Requests |-> canceled[r] \/ cancels[cid[k]] = r]
        /\ cpc' = [cpc EXCEPT ![k] = "accepted"]
        /\ UNCHANGED <<store, cancels, status, born, pc, got, victim, cid, cobj>>
    BY <1>20 DEF CancelLookup, CGoto
  <2>2. \A r \in Requests : canceled[r] => canceled'[r]
    BY <2>1
  <2>3. cobj[k] \in Requests /\ (Begun(cobj[k]) \/ status[cobj[k]] = "cancelled")
    BY <2>1
  <2>4. status[cobj[k]] \in Terminal \/ (Begun(cobj[k]) /\ cancels[cid[k]] = cobj[k])
    <3>1. CASE InRun(cobj[k])
      BY <2>3, <3>1
    <3>2. CASE ~InRun(cobj[k])
      BY <2>3, <3>2
    <3> QED BY <3>1, <3>2
  <2>5. status[cobj[k]] \in Terminal \/ (Begun(cobj[k]) /\ canceled'[cobj[k]])
    BY <2>1, <2>3, <2>4
  <2>6. Reached'
    BY <2>1, <2>2, <2>3, <2>5
  <2>7. Life'
    BY <2>1
  <2>8. Doomed'
    BY <2>1
  <2>9. Kept'
    BY <2>1
  <2> QED BY <2>6, <2>7, <2>8, <2>9
<1> QED BY <1>1, <1>2, <1>3, <1>4, <1>5, <1>6, <1>7, <1>8, <1>9, <1>10, <1>11, <1>12, <1>13, <1>14, <1>15, <1>16, <1>17, <1>18, <1>19, <1>20 DEF Next, RequestNext, CancelNext
-----------------------------------------------------------------------------
LEMMA TypedAlways == ASSUME CoordinatorAssumption PROVE Spec => []Typed
<1>1. Init => Typed
  BY InitTyped
<1>2. Typed /\ [Next]_vars => Typed'
  <2>1. CASE Next
    BY <2>1, TypedStep
  <2>2. CASE UNCHANGED vars
    BY <2>2 DEF Typed, TypeOK, Fresh, InRun, vars, reqVars, callVars
  <2> QED BY <2>1, <2>2
<1> QED BY <1>1, <1>2, PTL DEF Spec

LEMMA OwnAlways == ASSUME CoordinatorAssumption, Distinct PROVE Spec => []Own
<1>1. Init => Own
  BY InitOwn
<1>2. Own /\ [Next]_vars => Own'
  <2>1. CASE Next
    BY <2>1, OwnStep, TypedStep DEF Own
  <2>2. CASE UNCHANGED vars
    BY <2>2 DEF Own, Typed, TypeOK, Fresh, InRun, Owned, CancelsExact, vars, reqVars, callVars
  <2> QED BY <2>1, <2>2
<1> QED BY <1>1, <1>2, PTL DEF Spec

LEMMA LateAlways ==
    ASSUME CoordinatorAssumption, Distinct, ClientsWait PROVE Spec => []Late
<1>1. Init => Late
  BY InitLate
<1>2. Own /\ Late /\ [Next]_vars => Late'
  <2>1. CASE Own /\ Late /\ Next
    BY <2>1, LateStep
  <2>2. CASE Own /\ Late /\ UNCHANGED vars
    BY <2>2 DEF Late, Life, Reached, Doomed, Kept, Begun, Unrun, Terminal, vars, reqVars, callVars
  <2> QED BY <2>1, <2>2
<1> QED BY <1>1, <1>2, OwnAlways, PTL DEF Spec

-----------------------------------------------------------------------------
(* The life of a task as its clients see it: how Known and Accepted change. *)

LEMMA KnownFacts ==
    ASSUME CoordinatorAssumption, Distinct, Own
    PROVE  /\ \A t \in Requests : store' = Saved(t) => Known' = Known \cup {t}
           /\ store' = store => Known' = Known
           /\ \A t \in Requests : store' = [store EXCEPT ![IdOf[t]] = NoTask] => Known' = Known \ {t}
<1> USE DEF CoordinatorAssumption, Distinct, Own, Typed, TypeOK, Known
<1>1. ASSUME NEW t \in Requests, store' = Saved(t) PROVE Known' = Known \cup {t}
  BY <1>1 DEF Saved
<1>2. ASSUME NEW t \in Requests, store' = [store EXCEPT ![IdOf[t]] = NoTask]
      PROVE  Known' = Known \ {t}
  BY <1>2
<1> QED BY <1>1, <1>2

LEMMA AcceptedFacts ==
    ASSUME CoordinatorAssumption, Typed
    PROVE  /\ cpc' = cpc /\ cobj' = cobj => Accepted' = Accepted
           /\ \A k \in CancelCalls, l \in {"check", "branch", "mark", "save", "lookup", "refused"} :
                cpc' = [cpc EXCEPT ![k] = l] /\ cpc[k] # "accepted"
                /\ (\A c \in CancelCalls \ {k} : cobj'[c] = cobj[c]) => Accepted' = Accepted
           /\ \A k \in CancelCalls :
                cpc' = [cpc EXCEPT ![k] = "accepted"] /\ cobj' = cobj /\ cpc[k] # "accepted"
                => Accepted' = Accepted \cup {cobj[k]}
<1> USE DEF CoordinatorAssumption, Typed, TypeOK, Accepted
<1>1. ASSUME NEW k \in CancelCalls, NEW l \in {"check", "branch", "mark", "save", "lookup", "refused"},
             cpc' = [cpc EXCEPT ![k] = l], cpc[k] # "accepted",
             \A c \in CancelCalls \ {k} : cobj'[c] = cobj[c]
      PROVE  Accepted' = Accepted
  <2>1. \A c \in CancelCalls :
           /\ cpc'[c] = "accepted" <=> cpc[c] = "accepted"
           /\ cpc[c] = "accepted" => cobj'[c] = cobj[c]
    BY <1>1
  <2> QED BY <2>1
<1>2. ASSUME NEW k \in CancelCalls, cpc' = [cpc EXCEPT ![k] = "accepted"], cobj' = cobj,
             cpc[k] # "accepted"
      PROVE  Accepted' = Accepted \cup {cobj[k]}
  <2>1. \A c \in CancelCalls : cpc'[c] = "accepted" <=> (cpc[c] = "accepted" \/ c = k)
    BY <1>2
  <2> QED BY <2>1, <1>2
<1> QED BY <1>1, <1>2

Unseen == UNCHANGED <<status, canceled, Known, Accepted>>

(* Each step of a request is a step of its task, or none that clients see. *)
LEMMA RequestRefines ==
    ASSUME CoordinatorAssumption, Distinct, ClientsWait, Own, Late,
           NEW r \in Requests, RequestNext(r) \/ Disconnect(r)
    PROVE  Client!Next \/ Unseen
<1> USE DEF CoordinatorAssumption, Own, Typed, TypeOK, Owned, InRun, Late, Life, Kept, reqVars, callVars
<1>0. cpc' = cpc /\ cobj' = cobj /\ Accepted' = Accepted
  <2>1. cpc' = cpc /\ cobj' = cobj
    BY DEF RequestNext, Submit, PruneList, PruneDelete, ExecuteGet, ExecuteCheck, ExecuteMark,
           ExecuteSave, ExecuteRegister, Announce, ExecutorEnds, ConfirmFailure, Settle,
           Unregister, Disconnect
  <2> QED BY <2>1, AcceptedFacts
<1>1. CASE Submit(r)
  <2>1. /\ status[r] = "new" /\ status' = [status EXCEPT ![r] = "pending"]
        /\ store' = Saved(r) /\ canceled' = canceled
    BY <1>1 DEF Submit, SaveAndGo
  <2>2. Known' = Known \cup {r}
    BY <2>1, KnownFacts
  <2>3. Client!Submit(r)
    BY <1>0, <2>1, <2>2 DEF Client!Submit, Client!Move
  <2> QED BY <2>3 DEF Client!Next
<1>2. CASE PruneDelete(r)
  <2>1. /\ pc[r] = "delete" /\ status' = status /\ canceled' = canceled
        /\ store' = [store EXCEPT ![victim[r]] = NoTask]
    BY <1>2 DEF PruneDelete
  <2>2. CASE \E t \in Requests : IdOf[t] = victim[r]
    <3>1. PICK t \in Requests : IdOf[t] = victim[r]
      BY <2>2
    <3>2. Known' = Known \ {t}
      BY <2>1, <3>1, KnownFacts
    <3>3. status[t] \in Terminal
      BY <2>1, <3>1 DEF Doomed
    <3>4. Client!Forget(t)
      BY <1>0, <2>1, <3>2, <3>3 DEF Client!Forget, Client!Over, Terminal
    <3> QED BY <3>4 DEF Client!Next
  <2>3. CASE ~\E t \in Requests : IdOf[t] = victim[r]
    <3>1. Known' = Known
      BY <2>1, <2>3 DEF Known
    <3> QED BY <1>0, <2>1, <3>1 DEF Unseen
  <2> QED BY <2>2, <2>3
<1>3. CASE ExecuteMark(r)
  <2>1. /\ got[r] = r /\ pc[r] = "mark" /\ r \in Known /\ status[r] = "pending"
        /\ status' = [status EXCEPT ![r] = "running"]
        /\ UNCHANGED <<store, canceled>>
    BY <1>3 DEF ExecuteMark, Known
  <2>2. Client!Start(r)
    BY <1>0, <2>1, KnownFacts DEF Client!Start, Client!Move
  <2> QED BY <2>2 DEF Client!Next
<1>4. CASE ExecuteSave(r)
  <2>1. /\ got[r] = r /\ pc[r] = "save" /\ r \in Known
        /\ store' = Saved(r) /\ status' = status /\ canceled' = canceled
    BY <1>4 DEF ExecuteSave, SaveAndGo, Known
  <2>2. Known' = Known \cup {r}
    BY <2>1, KnownFacts
  <2>3. Known' = Known
    BY <2>1, <2>2
  <2> QED BY <1>0, <2>1, <2>3 DEF Unseen
<1>5. CASE ExecutorEnds(r)
  <2>1. /\ got[r] = r /\ pc[r] = "running" /\ r \in Known /\ status[r] = "running"
        /\ UNCHANGED <<store, canceled>>
    BY <1>5 DEF ExecutorEnds, Known
  <2>2. \/ status' = [status EXCEPT ![r] = "completed"]
        \/ canceled[r] /\ status' = [status EXCEPT ![r] = "cancelled"]
        \/ status' = [status EXCEPT ![r] = "failed"]
    BY <1>5, <2>1 DEF ExecutorEnds, Outcomes
  <2>3. Client!End(r)
    BY <1>0, <2>1, <2>2, KnownFacts DEF Client!End, Client!Move
  <2> QED BY <2>3 DEF Client!Next
<1>6. CASE ConfirmFailure(r)
  <2>1. /\ got[r] = r /\ status[r] \in {"failed", "cancelled"}
        /\ status' = [status EXCEPT ![r] = IF status[r] = "cancelled" THEN "cancelled" ELSE "failed"]
        /\ UNCHANGED <<store, canceled>>
    BY <1>6 DEF ConfirmFailure, StatusAfterError
  <2>2. status' = status
    BY <2>1
  <2> QED BY <1>0, <2>1, <2>2, KnownFacts DEF Unseen
<1>7. CASE Settle(r)
  <2>1. /\ got[r] = r /\ status[r] \in Terminal
        /\ store' = Saved(r) /\ status' = status /\ canceled' = canceled
    BY <1>7 DEF Settle
  <2>2. Client!Forget(r)
    BY <1>0, <2>1, KnownFacts DEF Client!Forget, Client!Over, Terminal
  <2> QED BY <2>2 DEF Client!Next
<1>8. CASE Disconnect(r)
  <2>1. /\ got[r] = r /\ status[r] \in {"running"} \cup Terminal
        /\ canceled' = [canceled EXCEPT ![r] = TRUE]
        /\ UNCHANGED <<store, status>>
    BY <1>8 DEF Disconnect, Terminal
  <2>2. Client!Leave(r)
    BY <1>0, <2>1, KnownFacts DEF Client!Leave, Client!Over, Terminal
  <2> QED BY <2>2 DEF Client!Next
<1>9. CASE \/ PruneList(r) \/ ExecuteGet(r) \/ ExecuteCheck(r)
           \/ ExecuteRegister(r) \/ Announce(r) \/ Unregister(r)
  <2>1. UNCHANGED <<store, status, canceled>>
    BY <1>9 DEF PruneList, ExecuteGet, ExecuteCheck, ExecuteRegister, Announce, Unregister
  <2> QED BY <1>0, <2>1, KnownFacts DEF Unseen
<1> QED BY <1>1, <1>2, <1>3, <1>4, <1>5, <1>6, <1>7, <1>8, <1>9 DEF RequestNext

(* Each step of a cancellation is a step of the task it is about, or none. *)
LEMMA CancelRefines ==
    ASSUME CoordinatorAssumption, Distinct, ClientsWait, Own, Late,
           NEW k \in CancelCalls, CancelNext(k)
    PROVE  Client!Next \/ Unseen
<1> USE DEF CoordinatorAssumption, Own, Typed, TypeOK, Owned, Late, Reached, reqVars
<1>1. CASE CancelGet(k) \/ CancelCheck(k) \/ CancelBranch(k)
  <2>1. /\ UNCHANGED <<store, status, canceled>>
        /\ cpc[k] # "accepted"
        /\ \A c \in CancelCalls \ {k} : cobj'[c] = cobj[c]
    BY <1>1 DEF CancelGet, CancelCheck, CancelBranch
  <2>2. \E l \in {"check", "branch", "mark", "save", "lookup", "refused"} :
            cpc' = [cpc EXCEPT ![k] = l]
    BY <1>1 DEF CancelGet, CancelCheck, CancelBranch, CGoto
  <2>3. Accepted' = Accepted
    BY <2>1, <2>2, AcceptedFacts
  <2> QED BY <2>1, <2>3, KnownFacts DEF Unseen
<1>2. CASE CancelMark(k)
  <2> DEFINE t == cobj[k]
  <2>1. /\ t \in Requests /\ status[t] \in {"pending", "cancelled"}
        /\ cpc[k] = "mark" /\ cpc' = [cpc EXCEPT ![k] = "save"]
        /\ status' = [status EXCEPT ![t] = "cancelled"]
        /\ UNCHANGED <<store, canceled, cobj>>
    BY <1>2 DEF CancelMark, CGoto, Unrun
  <2>2. Accepted' = Accepted /\ Known' = Known
    BY <2>1, AcceptedFacts, KnownFacts
  <2>3. CASE status[t] = "pending"
    <3>1. Client!Withdraw(t)
      BY <2>1, <2>2, <2>3 DEF Client!Withdraw, Client!Move
    <3> QED BY <2>1, <3>1 DEF Client!Next
  <2>4. CASE status[t] = "cancelled"
    BY <2>1, <2>2, <2>4 DEF Unseen
  <2> QED BY <2>1, <2>3, <2>4
<1>3. CASE CancelSave(k)
  <2> DEFINE t == cobj[k]
  <2>1. /\ t \in Requests /\ status[t] = "cancelled"
        /\ cpc[k] = "save" /\ store' = Saved(t)
        /\ UNCHANGED <<status, canceled, cobj>>
        /\ cpc' = [cpc EXCEPT ![k] = "accepted"] \/ cpc' = [cpc EXCEPT ![k] = "refused"]
    BY <1>3 DEF CancelSave, CGoto
  <2>2. Known' = Known \cup {t}
    BY <2>1, KnownFacts
  <2>3. CASE cpc' = [cpc EXCEPT ![k] = "accepted"]
    <3>1. Accepted' = Accepted \cup {t}
      BY <2>1, <2>3, AcceptedFacts
    <3>2. Client!Accept(t)
      BY <2>1, <2>2, <3>1 DEF Client!Accept, Client!Over
    <3> QED BY <2>1, <3>2 DEF Client!Next
  <2>4. CASE cpc' = [cpc EXCEPT ![k] = "refused"]
    <3>1. Accepted' = Accepted
      BY <2>1, <2>4, AcceptedFacts
    <3>2. Client!Forget(t)
      BY <2>1, <2>2, <3>1 DEF Client!Forget, Client!Over
    <3> QED BY <2>1, <3>2 DEF Client!Next
  <2> QED BY <2>1, <2>3, <2>4
<1>4. CASE CancelLookup(k)
  <2> DEFINE t == cobj[k]
  <2>1. /\ cpc[k] = "lookup" /\ cpc' = [cpc EXCEPT ![k] = "accepted"]
        /\ canceled' = [q \in Requests |-> canceled[q] \/ cancels[cid[k]] = q]
        /\ UNCHANGED <<store, status, cobj>>
    BY <1>4 DEF CancelLookup, CGoto
  <2>2. t \in Requests /\ IdOf[t] = cid[k]
    BY <2>1, <1>4 DEF CancelLookup
  <2>3. Accepted' = Accepted \cup {t} /\ Known' = Known
    BY <2>1, AcceptedFacts, KnownFacts
  <2>4. cancels[cid[k]] \in {NoRun, t}
    BY <2>2 DEF CancelsExact, Distinct, InRun
  <2>5. /\ cancels[cid[k]] = t => canceled' = [canceled EXCEPT ![t] = TRUE]
        /\ canceled' \in {canceled, [canceled EXCEPT ![t] = TRUE]}
    <3>1. CASE cancels[cid[k]] = NoRun
      <4>1. canceled' = [q \in Requests |-> canceled[q]]
        BY <2>1, <3>1
      <4> QED BY <2>2, <3>1, <4>1
    <3>2. CASE cancels[cid[k]] = t
      <4>1. \A q \in Requests : canceled'[q] = (canceled[q] \/ q = t)
        BY <2>1, <3>2
      <4>2. canceled' \in [Requests -> BOOLEAN] /\ canceled'[t] = TRUE
        BY <2>1, <2>2, <3>2
      <4>3. \A q \in Requests : q # t => canceled'[q] = canceled[q]
        BY <4>1
      <4>4. canceled' = [canceled EXCEPT ![t] = TRUE]
        BY <2>2, <4>2, <4>3
      <4> QED BY <4>4
    <3> QED BY <2>4, <3>1, <3>2
  <2>6. \/ status[t] \in Terminal
        \/ status[t] = "running" /\ cancels[cid[k]] = t
    <3>1. Begun(t) \/ status[t] = "cancelled"
      BY <2>1
    <3>2. CASE InRun(t)
      BY <2>2, <3>1, <3>2 DEF CancelsExact, InRun, Life, Begun, Terminal
    <3>3. CASE ~InRun(t)
      BY <2>2, <3>1, <3>3 DEF InRun, Life, Begun, Terminal
    <3> QED BY <3>2, <3>3
  <2>7. Client!Accept(t)
    <3>1. CASE status[t] \in Terminal
      BY <2>1, <2>3, <2>5, <3>1 DEF Client!Accept, Client!Over, Terminal
    <3>2. CASE status[t] = "running" /\ cancels[cid[k]] = t
      BY <2>1, <2>3, <2>5, <3>2 DEF Client!Accept
    <3> QED BY <2>6, <3>1, <3>2
  <2> QED BY <2>2, <2>7 DEF Client!Next
<1> QED BY <1>1, <1>2, <1>3, <1>4 DEF CancelNext

LEMMA InitRefines == ASSUME CoordinatorAssumption, Init PROVE Client!Init
<1>1. Known = {} /\ Accepted = {}
  BY DEF CoordinatorAssumption, Init, Known, Accepted
<1> QED BY <1>1 DEF Init, Client!Init

LEMMA StepRefines ==
    ASSUME CoordinatorAssumption, Distinct, ClientsWait, Own, Late, [Next]_vars
    PROVE  [Client!Next]_(Client!lifeVars)
<1>1. Client!Next \/ Unseen
  <2>1. CASE \E r \in Requests : RequestNext(r) \/ Disconnect(r)
    BY <2>1, RequestRefines
  <2>2. CASE \E k \in CancelCalls : CancelNext(k)
    BY <2>2, CancelRefines
  <2>3. CASE UNCHANGED vars
    BY <2>3 DEF Unseen, Known, Accepted, vars, reqVars, callVars
  <2> QED BY <2>1, <2>2, <2>3 DEF Next
<1> QED BY <1>1 DEF Unseen, Client!lifeVars

-----------------------------------------------------------------------------
(* Neither Execute nor a run nor CancelTask ever goes on without the Task
   object it looked up, whatever the IDs are. *)
THEOREM TypeCorrect == Spec => []TypeOK
<1>1. Typed => TypeOK
  BY DEF Typed
<1> QED BY <1>1, TypedAlways, CoordinatorAssumption, PTL

(* With distinct IDs the cancels map always holds exactly the runs that last,
   although the entries are removed by ID. *)
THEOREM CancelsAreExact == Distinct => (Spec => []CancelsExact)
<1> SUFFICES ASSUME Distinct PROVE Spec => []CancelsExact
  OBVIOUS
<1>1. Own => CancelsExact
  BY DEF Own
<1> QED BY <1>1, OwnAlways, CoordinatorAssumption, PTL

(* A cancellation of a task that has announced itself, or was left pending by a
   failed submission, is effective whenever CancelTask says so. *)
THEOREM CancellationWorks ==
    Distinct /\ ClientsWait => (Spec => []CancelTakesEffect)
<1> SUFFICES ASSUME Distinct, ClientsWait PROVE Spec => []CancelTakesEffect
  OBVIOUS
<1>1. Own /\ Late => CancelTakesEffect
  <2> SUFFICES ASSUME Own, Late, NEW k \in CancelCalls, cpc[k] = "accepted"
               PROVE  \/ status[cobj[k]] \in Terminal
                      \/ \E r \in Requests : got[r] = cobj[k] /\ canceled[r]
    BY DEF CancelTakesEffect
  <2>1. /\ cobj[k] \in Requests
        /\ status[cobj[k]] \in Terminal \/ (Begun(cobj[k]) /\ canceled[cobj[k]])
    BY DEF Late, Reached
  <2>2. Begun(cobj[k]) => got[cobj[k]] = cobj[k]
    BY <2>1 DEF Own, Typed, TypeOK, InRun, Owned, Begun
  <2> QED BY <2>1, <2>2
<1> QED BY <1>1, OwnAlways, LateAlways, CoordinatorAssumption, PTL

(* Pruning never takes away a task that runs. *)
THEOREM RunningIsStored ==
    Distinct /\ ClientsWait => (Spec => []ActiveIsStored)
<1> SUFFICES ASSUME Distinct, ClientsWait PROVE Spec => []ActiveIsStored
  OBVIOUS
<1>1. Own /\ Late => ActiveIsStored
  BY DEF Own, Typed, TypeOK, Owned, Late, Life, Kept, ActiveIsStored, InRun, Terminal
<1> QED BY <1>1, OwnAlways, LateAlways, CoordinatorAssumption, PTL

-----------------------------------------------------------------------------
(* A run that has ended left its task with a final status, even when clients
   cancel at any moment: this is what makes RunsSettle safe to wait for. *)
RunIsOver ==
    \A r \in Requests : pc[r] = "ended" =>
        /\ status[got[r]] \in Terminal
        /\ cancels[IdOf[got[r]]] # r

Over == \A r \in Requests : pc[r] \in {"settle", "unregister", "ended"} => status[r] \in Terminal

LEMMA OverStep ==
    ASSUME CoordinatorAssumption, Distinct, Own, Over, Next PROVE Over'
<1> USE DEF Own, Typed, TypeOK, Owned, InRun, Over, Terminal, reqVars, callVars
<1>1. ASSUME NEW r \in Requests, RequestNext(r) \/ Disconnect(r) PROVE Over'
  <2>1. CASE Submit(r) \/ ExecuteMark(r) \/ ExecutorEnds(r) \/ ConfirmFailure(r)
    BY <2>1 DEF Submit, SaveAndGo, ExecuteMark, ExecutorEnds, Outcomes, ConfirmFailure,
                StatusAfterError, Goto
  <2>2. CASE Settle(r) \/ Unregister(r) \/ Disconnect(r)
    BY <2>2 DEF Settle, Unregister, Disconnect, Goto
  <2>3. CASE \/ PruneList(r) \/ PruneDelete(r) \/ ExecuteGet(r) \/ ExecuteCheck(r)
             \/ ExecuteSave(r) \/ ExecuteRegister(r) \/ Announce(r)
    BY <2>3 DEF PruneList, PruneDelete, ExecuteGet, ExecuteCheck, ExecuteSave, SaveAndGo,
                ExecuteRegister, Announce, Goto
  <2> QED BY <1>1, <2>1, <2>2, <2>3 DEF RequestNext
<1>2. ASSUME NEW k \in CancelCalls, CancelNext(k) PROVE Over'
  <2>1. pc' = pc
    BY <1>2 DEF CancelNext, CancelGet, CancelCheck, CancelBranch, CancelMark, CancelSave, CancelLookup
  <2>2. CASE CancelMark(k)
    BY <2>1, <2>2 DEF CancelMark
  <2>3. CASE ~CancelMark(k)
    <3>1. status' = status
      BY <1>2, <2>3 DEF CancelNext, CancelGet, CancelCheck, CancelBranch, CancelSave, CancelLookup
    <3> QED BY <2>1, <3>1
  <2> QED BY <2>2, <2>3
<1> QED BY <1>1, <1>2 DEF Next

(* A run always ends with a final status of its task, and takes its own cancel
   function away, whoever has cancelled the task when. *)
THEOREM EndedRunsAreOver == Distinct => (Spec => []RunIsOver)
<1> SUFFICES ASSUME Distinct PROVE Spec => []RunIsOver
  OBVIOUS
<1>1. Init => Over
  BY DEF Init, Over
<1>2. Own /\ Over /\ [Next]_vars => Over'
  <2>1. CASE Own /\ Over /\ Next
    BY <2>1, OverStep, CoordinatorAssumption
  <2>2. CASE Own /\ Over /\ UNCHANGED vars
    BY <2>2 DEF Over, Terminal, vars, reqVars
  <2> QED BY <2>1, <2>2
<1>3. Own /\ Over => RunIsOver
  <2> SUFFICES ASSUME Own, Over, NEW r \in Requests, pc[r] = "ended"
               PROVE  status[got[r]] \in Terminal /\ cancels[IdOf[got[r]]] # r
    BY DEF RunIsOver
  <2>1. got[r] = r /\ IdOf[r] \in IDs /\ r # NoRun
    BY CoordinatorAssumption DEF CoordinatorAssumption, Own, Owned
  <2>2. cancels[IdOf[r]] # r
    BY <2>1 DEF Own, CancelsExact, InRun
  <2> QED BY <2>1, <2>2 DEF Over
<1> QED BY <1>1, <1>2, <1>3, OwnAlways, CoordinatorAssumption, PTL DEF Spec

-----------------------------------------------------------------------------
(* A task that is over stays as it is. *)
TerminalIsFinal ==
    [][\A t \in Requests : status[t] \in Terminal => status'[t] = status[t]]_vars

(* The status of a task that is over is never written again with another
   value, by its run, by the executor or by a cancellation. *)
THEOREM OutcomeIsFinal ==
    Distinct /\ ClientsWait => (Spec => TerminalIsFinal)
<1> SUFFICES ASSUME Distinct, ClientsWait PROVE Spec => TerminalIsFinal
  OBVIOUS
<1> DEFINE Final == \A t \in Requests : status[t] \in Terminal => status'[t] = status[t]
<1>1. Own /\ Late /\ [Next]_vars => Final
  <2> SUFFICES ASSUME Own, Late, [Next]_vars PROVE Final
    OBVIOUS
  <2>1. ASSUME NEW r \in Requests, RequestNext(r) \/ Disconnect(r) PROVE Final
    <3>1. CASE Submit(r) \/ ExecuteMark(r) \/ ExecutorEnds(r) \/ ConfirmFailure(r)
      BY <3>1 DEF Submit, ExecuteMark, ExecutorEnds, ConfirmFailure, StatusAfterError,
                  Own, Typed, TypeOK, Owned, InRun, Late, Life, Terminal
    <3>2. CASE ~(Submit(r) \/ ExecuteMark(r) \/ ExecutorEnds(r) \/ ConfirmFailure(r))
      <4>1. status' = status
        BY <2>1, <3>2 DEF RequestNext, PruneList, PruneDelete, ExecuteGet, ExecuteCheck,
                          ExecuteSave, ExecuteRegister, Announce, Settle, Unregister, Disconnect
      <4> QED BY <4>1
    <3> QED BY <3>1, <3>2
  <2>2. ASSUME NEW k \in CancelCalls, CancelNext(k) PROVE Final
    <3>1. CASE CancelMark(k)
      BY <3>1 DEF CancelMark, Own, Typed, TypeOK, Late, Reached, Unrun, Terminal
    <3>2. CASE ~CancelMark(k)
      <4>1. status' = status
        BY <2>2, <3>2 DEF CancelNext, CancelGet, CancelCheck, CancelBranch, CancelSave, CancelLookup
      <4> QED BY <4>1
    <3> QED BY <3>1, <3>2
  <2>3. CASE UNCHANGED vars
    BY <2>3 DEF vars
  <2> QED BY <2>1, <2>2, <2>3 DEF Next
<1> QED BY <1>1, OwnAlways, LateAlways, CoordinatorAssumption, PTL DEF Spec, TerminalIsFinal

(* With distinct IDs, and clients that cancel what has announced itself or was
   left pending, the coordinator implements TaskLife: every step of a request,
   a run or a cancellation is a step of the life of one task or invisible. *)
THEOREM TasksLive ==
    Distinct /\ ClientsWait => (Spec => ImplementsTaskLife)
<1> SUFFICES ASSUME Distinct, ClientsWait PROVE Spec => ImplementsTaskLife
  OBVIOUS
<1>1. Init => Client!Init
  BY InitRefines, CoordinatorAssumption
<1>2. Own /\ Late /\ [Next]_vars => [Client!Next]_(Client!lifeVars)
  BY StepRefines, CoordinatorAssumption
<1> QED BY <1>1, <1>2, OwnAlways, LateAlways, CoordinatorAssumption, PTL
        DEF Spec, ImplementsTaskLife, Client!Spec
=============================================================================
