----------------------------- MODULE PlannerProofs -----------------------------
(***************************************************************************)
(* What the run planner_tasks shows for all tasks of up to three steps,    *)
(* proved for every task: Validate accepts exactly the tasks that can be   *)
(* run, and BuildExecutionPlan gives each of them a correct and earliest   *)
(* plan.                                                                   *)
(***************************************************************************)
EXTENDS Planner, FiniteSetTheorems, TLAPS

(* Upstream is the least closed set that holds the dependencies. *)
LEMMA UpstreamEdge ==
    ASSUME NEW deps, NEW s, NEW d \in DOMAIN deps, d \in deps[s] PROVE d \in Upstream(deps, s)
BY DEF Upstream

LEMMA UpstreamStep ==
    ASSUME NEW deps, NEW s, NEW t \in Upstream(deps, s), NEW d \in DOMAIN deps, d \in deps[t]
    PROVE  d \in Upstream(deps, s)
BY DEF Upstream

LEMMA UpstreamWithin ==
    ASSUME NEW deps, NEW s, NEW t \in Upstream(deps, s) PROVE Upstream(deps, t) \subseteq Upstream(deps, s)
BY DEF Upstream

LEMMA UpstreamLeast ==
    ASSUME NEW deps, NEW s, NEW C \in SUBSET DOMAIN deps, deps[s] \subseteq C,
           \A u \in C : deps[u] \subseteq C
    PROVE  Upstream(deps, s) \subseteq C
BY DEF Upstream

-----------------------------------------------------------------------------
(* The task has passed the checks that come before the search. *)
Checked == HasSteps /\ IdsUsable /\ DepsKnown

LEMMA Lookup ==
    ASSUME task \in Seq(Step), NEW id \in StepIds
    PROVE  Index(id) \in Indices /\ task[Index(id)].id = id /\ DepsOf(id) \in Seq(IDs)
<1>1. \E i \in Indices : task[i].id = id
  BY DEF StepIds
<1>2. Index(id) \in Indices /\ task[Index(id)].id = id
  BY <1>1 DEF Index
<1>3. task[Index(id)] \in Step
  BY <1>2 DEF Indices
<1> QED BY <1>2, <1>3 DEF Step, DepsOf

LEMMA DepsTyped ==
    ASSUME task \in Seq(Step), Checked, NEW id \in StepIds
    PROVE  /\ DepsOf(id) \in Seq(StepIds)
           /\ Graph[id] = Range(DepsOf(id))
           /\ Graph[id] \subseteq StepIds
<1>1. Index(id) \in Indices /\ DepsOf(id) \in Seq(IDs)
  BY Lookup
<1>2. Range(DepsOf(id)) \subseteq StepIds
  BY <1>1 DEF Checked, DepsKnown, DepsOf
<1>3. \A k \in 1 .. Len(DepsOf(id)) : DepsOf(id)[k] \in StepIds
  BY <1>1, <1>2 DEF Range
<1> QED BY <1>1, <1>2, <1>3 DEF Graph

LEMMA GraphEdge ==
    ASSUME task \in Seq(Step), NEW id \in StepIds, NEW k \in 1 .. Len(DepsOf(id))
    PROVE  DepsOf(id)[k] \in Graph[id]
<1>1. DepsOf(id) \in Seq(IDs)
  BY Lookup
<1> QED BY <1>1 DEF Graph, Range

(* Each ID belongs to one step. *)
LEMMA CountSteps ==
    ASSUME task \in Seq(Step), IdsUsable
    PROVE  IsFiniteSet(StepIds) /\ Cardinality(StepIds) = Len(task) /\ Len(task) \in Nat
<1> DEFINE f == [i \in 1 .. Len(task) |-> task[i].id]
<1>1. Len(task) \in Nat
  OBVIOUS
<1>2. f \in Bijection(1 .. Len(task), StepIds)
  BY DEF Bijection, Injection, Surjection, IsInjective, IdsUsable, StepIds, Indices
<1>3. ExistsBijection(1 .. Len(task), StepIds)
  BY <1>2 DEF ExistsBijection
<1> QED BY <1>1, <1>3, FS_CountingElements, FS_NatBijection

-----------------------------------------------------------------------------
(* How many dependencies a step has in a set. *)
LEMMA CountType ==
    ASSUME task \in Seq(Step), NEW id \in StepIds, NEW S
    PROVE  /\ CountIn(id, S) \in Nat
           /\ IsFiniteSet({k \in 1 .. Len(DepsOf(id)) : DepsOf(id)[k] \in S})
           /\ CountIn(id, S) = 0 <=> Graph[id] \cap S = {}
<1> DEFINE K == {k \in 1 .. Len(DepsOf(id)) : DepsOf(id)[k] \in S}
<1>1. DepsOf(id) \in Seq(IDs)
  BY Lookup
<1>2. IsFiniteSet(1 .. Len(DepsOf(id)))
  BY <1>1, FS_Interval
<1>3. IsFiniteSet(K)
  BY <1>2, FS_Subset
<1>4. Cardinality(K) \in Nat /\ (Cardinality(K) = 0 <=> K = {})
  BY <1>3, FS_CardinalityType, FS_EmptySet
<1>5. K = {} <=> Graph[id] \cap S = {}
  BY <1>1 DEF Graph, Range
<1> QED BY <1>3, <1>4, <1>5 DEF CountIn

LEMMA CountAll ==
    ASSUME task \in Seq(Step), Checked, NEW id \in StepIds
    PROVE  CountIn(id, StepIds) = Len(DepsOf(id))
<1>1. DepsOf(id) \in Seq(StepIds)
  BY DepsTyped
<1>2. {k \in 1 .. Len(DepsOf(id)) : DepsOf(id)[k] \in StepIds} = 1 .. Len(DepsOf(id))
  BY <1>1
<1>3. Len(DepsOf(id)) \in Nat
  BY <1>1
<1>4. \A n \in Nat : Cardinality(1 .. n) = n
  <2> SUFFICES ASSUME NEW n \in Nat PROVE Cardinality(1 .. n) = n
    OBVIOUS
  <2>1. Cardinality(1 .. n) = IF 1 > n THEN 0 ELSE n - 1 + 1
    BY FS_Interval
  <2> QED BY <2>1
<1> QED BY <1>2, <1>3, <1>4 DEF CountIn

LEMMA CountLess ==
    ASSUME task \in Seq(Step), NEW id \in StepIds, NEW S, NEW W \in SUBSET S
    PROVE  CountIn(id, S \ W) = CountIn(id, S) - CountIn(id, W)
<1> DEFINE K(T) == {k \in 1 .. Len(DepsOf(id)) : DepsOf(id)[k] \in T}
<1>1. IsFiniteSet(K(S))
  BY CountType
<1>2. K(S) \ K(W) = K(S \ W) /\ K(S) \cap K(W) = K(W)
  OBVIOUS
<1>3. Cardinality(K(S) \ K(W)) = Cardinality(K(S)) - Cardinality(K(S) \cap K(W))
  BY <1>1, FS_Difference
<1> QED BY <1>2, <1>3 DEF CountIn

-----------------------------------------------------------------------------
(* The search.  Whoever the search has left for good is finished.          *)
Finished == visited \ inStack

Frame == [id : IDs \cup {NoId}, next : Nat \ {0}]

(* Before the search nothing is marked. *)
Untouched ==
    phase = "check" => root = 1 /\ frames = <<>> /\ visited = {} /\ inStack = {}

(* The stack is a path along which every step is upstream of the ones below. *)
Path ==
    \A i, j \in 1 .. Len(frames) :
        i < j => frames[j].id \in Upstream(Graph, frames[i].id)

(* What a call on the stack has looked at is finished, or is the call above. *)
Seen ==
    /\ \A j \in 1 .. Len(frames) : \A k \in 1 .. frames[j].next - 1 :
        \/ DepsOf(frames[j].id)[k] \in Finished
        \/ /\ j < Len(frames)
           /\ k = frames[j].next - 1
           /\ DepsOf(frames[j].id)[k] = frames[j + 1].id
    /\ \A j \in 1 .. Len(frames) - 1 :
        frames[j].next > 1 /\ DepsOf(frames[j].id)[frames[j].next - 1] = frames[j + 1].id

(* Finished steps are closed under dependencies, and on no cycle. *)
Clean ==
    \A s \in Finished : Graph[s] \subseteq Finished /\ s \notin Upstream(Graph, s)

(* Every step before root has been visited. *)
Roots == \A i \in 1 .. root - 1 : task[i].id \in visited

Searching == Checked /\ StackIsPath /\ Path /\ Seen /\ Clean /\ Roots

SearchTyped ==
    /\ task \in Seq(Step)
    /\ phase \in {"check", "search", "plan", "planned", "rejected", "cycle"}
    /\ root \in 1 .. Len(task) + 1
    /\ frames \in Seq(Frame)
    /\ \A i \in 1 .. Len(frames) :
        frames[i].id \in StepIds /\ frames[i].next \in 1 .. Len(DepsOf(frames[i].id)) + 1
    /\ visited \subseteq StepIds
    /\ inStack \subseteq visited

(* The planner.  Before it nothing is planned. *)
Unplanned ==
    phase \in {"check", "search", "rejected"} => inDegree = <<>> /\ waves = <<>> /\ remaining = 0

(* The steps left count the dependencies they have among themselves. *)
Counted ==
    /\ inDegree \in [Left -> Nat]
    /\ Left \subseteq StepIds
    /\ \A id \in Left : inDegree[id] = CountIn(id, Left)
    /\ remaining = Cardinality(Left)

(* The waves so far are a plan for the steps that are not left. *)
Placed ==
    /\ waves \in Seq(SUBSET StepIds)
    /\ Before(waves, Len(waves) + 1) = StepIds \ Left
    /\ \A i \in 1 .. Len(waves) :
        /\ waves[i] # {}
        /\ waves[i] \cap Before(waves, i) = {}
        /\ \A s \in waves[i] : Graph[s] \subseteq Before(waves, i)

(* A step that had to wait depends on the wave before, or on a step left. *)
Earliest ==
    /\ Len(waves) > 0 =>
        \A s \in Left : Graph[s] \cap (Left \cup waves[Len(waves)]) # {}
    /\ \A i \in 2 .. Len(waves) : \A s \in waves[i] : Graph[s] \cap waves[i - 1] # {}

Planning ==
    /\ Runnable /\ Counted /\ Placed /\ Earliest
    /\ phase # "cycle"
    /\ phase = "planned" => remaining = 0

(* What ExecutorAssumption asks of a job, of the planner's graph and waves. *)
FitsExecutor ==
    /\ IsFiniteSet(StepIds) /\ StepIds # {}
    /\ Graph \in [StepIds -> SUBSET StepIds]
    /\ waves \in Seq(SUBSET StepIds)
    /\ WellPlanned(Graph, waves)

(* The inductive invariant. *)
IInv ==
    /\ SearchTyped
    /\ Untouched
    /\ phase = "search" => Searching
    /\ phase = "rejected" => ~Runnable
    /\ Unplanned
    /\ Accepted => Planning

(* The planner never changes the task. *)
LEMMA SameTask ==
    ASSUME task' = task
    PROVE  /\ StepIds' = StepIds /\ Graph' = Graph /\ Indices' = Indices
           /\ Checked' = Checked /\ Runnable' = Runnable
           /\ \A id : DepsOf(id)' = DepsOf(id) /\ Index(id)' = Index(id)
           /\ \A id, S : CountIn(id, S)' = CountIn(id, S)
BY DEF StepIds, Graph, DepsOf, Index, Indices, Checked, HasSteps, IdsUsable, DepsKnown, Runnable, ToolsKnown, CountIn

LEMMA InitIInv == ASSUME PlannerAssumption, Init PROVE IInv
<1>1. task \in Seq(Step)
  BY DEF PlannerAssumption, Init
<1>2. SearchTyped
  BY <1>1 DEF Init, SearchTyped
<1>3. Untouched /\ Unplanned
  BY DEF Init, Untouched, Unplanned
<1>4. phase = "check"
  BY DEF Init
<1> QED BY <1>2, <1>3, <1>4 DEF IInv, Accepted

-----------------------------------------------------------------------------
LEMMA CheckStepsInv == ASSUME IInv, CheckSteps PROVE IInv'
<1> USE DEF CheckSteps, dfsVars, planVars
<1>1. /\ StepIds' = StepIds /\ Graph' = Graph /\ Checked' = Checked /\ Runnable' = Runnable
      /\ \A id : DepsOf(id)' = DepsOf(id)
  BY SameTask
<1>2. SearchTyped'
  BY <1>1 DEF IInv, SearchTyped
<1>3. /\ root = 1 /\ frames = <<>> /\ visited = {} /\ inStack = {}
  BY DEF IInv, Untouched
<1>4. phase' = "search" => Searching'
  <2>1. phase' = "search" => Checked
    BY DEF Checked
  <2>2. Range(frames) = {}
    BY <1>3 DEF Range
  <2>3. (StackIsPath /\ Path /\ Seen /\ Clean /\ Roots)'
    BY <1>1, <1>3, <2>2 DEF StackIsPath, Path, Seen, Clean, Finished, Roots, Range
  <2> QED BY <1>1, <2>1, <2>3 DEF Searching
<1>5. phase' = "rejected" => ~Runnable'
  BY <1>1 DEF Runnable
<1>6. Unplanned'
  BY DEF IInv, Unplanned
<1>7. phase' \in {"search", "rejected"}
  OBVIOUS
<1> QED BY <1>2, <1>4, <1>5, <1>6, <1>7 DEF IInv, Untouched, Accepted

LEMMA SearchFromInv == ASSUME IInv, SearchFrom PROVE IInv'
<1> USE DEF SearchFrom, planVars
<1>1. /\ StepIds' = StepIds /\ Graph' = Graph /\ Checked' = Checked /\ Runnable' = Runnable
      /\ \A id : DepsOf(id)' = DepsOf(id)
  BY SameTask
<1>2. Searching /\ SearchTyped /\ phase = "search" /\ phase' = phase
  BY DEF IInv
<1> DEFINE r == task[root].id
<1>3. root \in Indices /\ r \in StepIds /\ r \in IDs \cup {NoId}
  <2>1. root \in 1 .. Len(task) /\ task[root] \in Step
    BY <1>2 DEF SearchTyped
  <2> QED BY <2>1 DEF Indices, StepIds, Step
<1>4. Unplanned' /\ Untouched' /\ ~Accepted'
  BY <1>2 DEF IInv, Unplanned, Untouched, Accepted
<1>5. CASE r \in visited
  <2>1. UNCHANGED <<frames, visited, inStack>>
    BY <1>5
  <2>2. SearchTyped'
    BY <1>1, <1>2, <2>1 DEF SearchTyped
  <2>3. (StackIsPath /\ Path /\ Seen /\ Clean)'
    BY <1>1, <1>2, <2>1 DEF Searching, StackIsPath, Path, Seen, Clean, Finished
  <2>4. Roots'
    BY <1>2, <1>5, <2>1 DEF Searching, Roots, SearchTyped
  <2> QED BY <1>1, <1>2, <1>4, <2>2, <2>3, <2>4 DEF IInv, Searching
<1>6. CASE r \notin visited
  <2> DEFINE f == [id |-> r, next |-> 1]
  <2>1. /\ frames = <<>> /\ frames' = Append(frames, f)
        /\ visited' = visited \cup {r} /\ inStack' = inStack \cup {r}
    BY <1>6 DEF Push
  <2>2. f \in Frame /\ f.id = r /\ f.next = 1
    BY <1>3 DEF Frame
  <2>3. Len(frames') = 1 /\ frames'[1] = f /\ frames' \in Seq(Frame)
    BY <2>1, <2>2
  <2>4. DepsOf(r) \in Seq(IDs)
    BY <1>2, <1>3, Lookup DEF SearchTyped
  <2>5. SearchTyped'
    BY <1>1, <1>2, <1>3, <2>1, <2>2, <2>3, <2>4 DEF SearchTyped
  <2>6. inStack = {}
    BY <1>2, <2>1 DEF Searching, StackIsPath, Range
  <2>7. Finished' = Finished
    BY <1>6, <2>1, <2>6 DEF Finished
  <2>8. StackIsPath'
    <3>1. Range(frames') = {f}
      BY <2>1, <2>3 DEF Range
    <3> QED BY <1>1, <2>1, <2>2, <2>3, <2>6, <3>1 DEF StackIsPath
  <2>9. (Path /\ Seen)'
    BY <2>2, <2>3 DEF Path, Seen
  <2>10. Clean'
    BY <1>1, <1>2, <2>7 DEF Searching, Clean
  <2>11. Roots'
    BY <1>2, <2>1 DEF Searching, Roots, SearchTyped
  <2> QED BY <1>1, <1>2, <1>4, <2>5, <2>8, <2>9, <2>10, <2>11 DEF IInv, Searching
<1> QED BY <1>5, <1>6

(* What the loop of hasCycle does to the stack, below the pushed call. *)
LEMMA AdvancedStack ==
    ASSUME SearchTyped, frames # <<>>, Top.next <= Len(DepsOf(Top.id))
    PROVE  /\ Advanced \in Seq(Frame) /\ Len(Advanced) = Len(frames)
           /\ Len(frames) \in Nat /\ Len(frames) >= 1 /\ Top = frames[Len(frames)]
           /\ \A i \in 1 .. Len(frames) : Advanced[i].id = frames[i].id
           /\ \A i \in 1 .. Len(frames) - 1 : Advanced[i].next = frames[i].next
           /\ Advanced[Len(frames)].next = Top.next + 1
           /\ Top.id \in StepIds /\ Top.next \in 1 .. Len(DepsOf(Top.id))
           /\ DepsOf(Top.id) \in Seq(IDs)
<1> DEFINE n == Len(frames)
<1>1. frames \in Seq(Frame) /\ n \in Nat /\ n >= 1 /\ Top = frames[n]
  BY DEF SearchTyped, Top
<1>2. Top \in Frame /\ Top.id \in StepIds /\ Top.next \in 1 .. Len(DepsOf(Top.id)) + 1
  BY <1>1 DEF SearchTyped
<1>3. DepsOf(Top.id) \in Seq(IDs)
  BY <1>2, Lookup DEF SearchTyped
<1>4. Top.next \in 1 .. Len(DepsOf(Top.id))
  BY <1>2, <1>3
<1>5. [Top EXCEPT !.next = @ + 1] \in Frame
  BY <1>2 DEF Frame
<1>6. Advanced = [frames EXCEPT ![n] = [Top EXCEPT !.next = @ + 1]]
  BY <1>1 DEF Advanced
<1>7. Advanced \in Seq(Frame) /\ Len(Advanced) = n
  <2> HIDE DEF Frame
  <2> QED BY <1>1, <1>5, <1>6
<1>8. /\ \A i \in 1 .. n - 1 : Advanced[i] = frames[i]
      /\ Advanced[n] = [Top EXCEPT !.next = @ + 1]
  BY <1>1, <1>6
<1>9. Advanced[n].id = Top.id /\ Advanced[n].next = Top.next + 1
  BY <1>2, <1>8 DEF Frame
<1>10. \A i \in 1 .. n : Advanced[i].id = frames[i].id
  <2> SUFFICES ASSUME NEW i \in 1 .. n PROVE Advanced[i].id = frames[i].id
    OBVIOUS
  <2>1. CASE i = n
    BY <1>1, <1>9, <2>1
  <2>2. CASE i # n
    <3>1. i \in 1 .. n - 1
      BY <1>1, <2>2
    <3> QED BY <1>8, <3>1
  <2> QED BY <2>1, <2>2
<1>11. \A i \in 1 .. n - 1 : Advanced[i].next = frames[i].next
  BY <1>8
<1> QED BY <1>1, <1>2, <1>3, <1>4, <1>7, <1>9, <1>10, <1>11

(* inStack by position. *)
LEMMA StackIds ==
    ASSUME frames \in Seq(Frame)
    PROVE  {f.id : f \in Range(frames)} = {frames[i].id : i \in 1 .. Len(frames)}
BY DEF Range

LEMMA StackIdsNext ==
    ASSUME frames' \in Seq(Frame)
    PROVE  {f.id : f \in Range(frames')} = {frames'[i].id : i \in 1 .. Len(frames')}
BY DEF Range

(* The loop goes on to a step that is not visited. *)
LEMMA SearchDeeperInv ==
    ASSUME SearchTyped, Searching, phase = "search", frames # <<>>, Top.next <= Len(DepsOf(Top.id)),
           NEW dep, dep = DepsOf(Top.id)[Top.next], dep \notin visited,
           frames' = Append(Advanced, [id |-> dep, next |-> 1]),
           visited' = visited \cup {dep}, inStack' = inStack \cup {dep},
           UNCHANGED <<task, phase, root>>
    PROVE  SearchTyped' /\ Searching'
<1> DEFINE n == Len(frames)
           f == [id |-> dep, next |-> 1]
<1>1. /\ StepIds' = StepIds /\ Graph' = Graph /\ Checked' = Checked
      /\ \A id : DepsOf(id)' = DepsOf(id)
  BY SameTask
<1>2. /\ Advanced \in Seq(Frame) /\ Len(Advanced) = n
      /\ n \in Nat /\ n >= 1 /\ Top = frames[n]
      /\ \A i \in 1 .. n : Advanced[i].id = frames[i].id
      /\ \A i \in 1 .. n - 1 : Advanced[i].next = frames[i].next
      /\ Advanced[n].next = Top.next + 1
      /\ Top.id \in StepIds /\ Top.next \in 1 .. Len(DepsOf(Top.id))
      /\ DepsOf(Top.id) \in Seq(IDs)
  BY AdvancedStack
<1>3. dep \in Graph[Top.id] /\ dep \in StepIds /\ dep \in IDs
  <2>1. dep \in Graph[Top.id] /\ Graph[Top.id] \subseteq StepIds
    BY <1>2, GraphEdge, DepsTyped DEF SearchTyped, Searching
  <2> QED BY <1>2, <2>1
<1>4. f \in Frame /\ f.id = dep /\ f.next = 1
  BY <1>3 DEF Frame
<1>5. frames' \in Seq(Frame) /\ Len(frames') = n + 1 /\ frames'[n + 1] = f
  <2> HIDE DEF Frame, f
  <2> QED BY <1>2, <1>4 DEF f
<1>6. \A i \in 1 .. n : frames'[i] = Advanced[i]
  <2> HIDE DEF Frame
  <2> QED BY <1>2
<1>7. /\ \A i \in 1 .. n : frames'[i].id = frames[i].id
      /\ \A i \in 1 .. n - 1 : frames'[i].next = frames[i].next
      /\ frames'[n].next = Top.next + 1
      /\ frames'[n + 1].id = dep /\ frames'[n + 1].next = 1
  BY <1>2, <1>4, <1>5, <1>6
<1>n. n \in Nat
  BY <1>2
<1>p. Top.next \in Nat \ {0} /\ frames'[n].next > 1 /\ frames'[n].next - 1 = Top.next
  BY <1>2, <1>7
<1> HIDE DEF n, f
<1>8. DepsOf(dep) \in Seq(IDs)
  BY <1>3, Lookup DEF SearchTyped
<1>9. SearchTyped'
  <2>1. \A i \in 1 .. n : frames[i].id \in StepIds /\ frames[i].next \in 1 .. Len(DepsOf(frames[i].id)) + 1
    BY DEF SearchTyped, n
  <2>2. \A i \in 1 .. n + 1 :
          frames'[i].id \in StepIds /\ frames'[i].next \in 1 .. Len(DepsOf(frames'[i].id)) + 1
    <3> SUFFICES ASSUME NEW i \in 1 .. n + 1
                 PROVE frames'[i].id \in StepIds /\ frames'[i].next \in 1 .. Len(DepsOf(frames'[i].id)) + 1
      OBVIOUS
    <3>1. CASE i \in 1 .. n - 1
      <4>1. i \in 1 .. n /\ frames'[i].id = frames[i].id /\ frames'[i].next = frames[i].next
        BY <1>2, <1>7, <3>1
      <4> QED BY <2>1, <4>1
    <3>2. CASE i = n
      <4>1. frames'[i].id = Top.id /\ frames'[i].next = Top.next + 1
        BY <1>2, <1>7, <3>2
      <4> QED BY <1>2, <4>1
    <3>3. CASE i = n + 1
      <4>1. frames'[i].id = dep /\ frames'[i].next = 1
        BY <1>7, <3>3
      <4>2. Len(DepsOf(dep)) \in Nat
        BY <1>8
      <4>3. 1 \in 1 .. Len(DepsOf(dep)) + 1
        BY <4>2
      <4>4. DepsOf(frames'[i].id) = DepsOf(dep)
        BY <4>1
      <4> QED BY <1>3, <4>1, <4>3, <4>4
    <3> QED BY <1>2, <3>1, <3>2, <3>3
  <2> QED BY <1>1, <1>3, <1>5, <2>2 DEF SearchTyped
<1>10. Finished' = Finished
  BY DEF Finished, SearchTyped
<1>11. inStack = {frames[i].id : i \in 1 .. n}
  BY StackIds DEF SearchTyped, Searching, StackIsPath, n
<1>12. StackIsPath'
  <2>1. inStack' = {frames'[i].id : i \in 1 .. n + 1}
    <3>1. 1 .. n + 1 = (1 .. n) \cup {n + 1}
      BY <1>2
    <3>2. {frames'[i].id : i \in 1 .. n + 1} = {frames'[i].id : i \in 1 .. n} \cup {frames'[n + 1].id}
      BY <3>1
    <3>3. {frames'[i].id : i \in 1 .. n} = {frames[i].id : i \in 1 .. n}
      BY <1>7
    <3> QED BY <1>7, <1>11, <3>2, <3>3
  <2>2. inStack' = {g.id : g \in Range(frames')}
    BY <1>5, <2>1, StackIdsNext
  <2>3. \A i, j \in 1 .. n + 1 : frames'[i].id = frames'[j].id => i = j
    <3>1. \A i \in 1 .. n : frames[i].id # dep
      BY <1>11 DEF SearchTyped
    <3>2. \A i, j \in 1 .. n : frames[i].id = frames[j].id => i = j
      BY DEF Searching, StackIsPath, n
    <3> QED BY <1>2, <1>7, <3>1, <3>2
  <2>4. \A i \in 1 .. n : frames'[i + 1].id \in Graph[frames'[i].id]
    <3>1. \A i \in 1 .. n - 1 : frames[i + 1].id \in Graph[frames[i].id]
      BY DEF Searching, StackIsPath, n
    <3> SUFFICES ASSUME NEW i \in 1 .. n PROVE frames'[i + 1].id \in Graph[frames'[i].id]
      OBVIOUS
    <3>2. CASE i = n
      <4>1. frames'[i].id = Top.id /\ frames'[i + 1].id = dep
        BY <1>2, <1>7, <3>2
      <4> QED BY <1>3, <4>1
    <3>3. CASE i # n
      <4>1. i \in 1 .. n - 1 /\ i + 1 \in 1 .. n
        BY <1>2, <3>3
      <4> QED BY <1>7, <3>1, <4>1
    <3> QED BY <3>2, <3>3
  <2>5. Len(frames') - 1 = n
    BY <1>2, <1>5
  <2>6. /\ \A i, j \in 1 .. Len(frames') : frames'[i].id = frames'[j].id => i = j
        /\ \A i \in 1 .. Len(frames') - 1 : frames'[i + 1].id \in Graph'[frames'[i].id]
    BY <1>1, <1>5, <2>3, <2>4, <2>5
  <2> QED BY <2>2, <2>6 DEF StackIsPath
<1>13. Path'
  <2>1. DOMAIN Graph = StepIds
    BY DEF Graph
  <2>2. \A i, j \in 1 .. n : i < j => frames[j].id \in Upstream(Graph, frames[i].id)
    BY DEF Searching, Path, n
  <2>3. \A i \in 1 .. n : dep \in Upstream(Graph, frames[i].id)
    <3> SUFFICES ASSUME NEW i \in 1 .. n PROVE dep \in Upstream(Graph, frames[i].id)
      OBVIOUS
    <3>1. CASE i = n
      BY <1>2, <1>3, <2>1, <3>1, UpstreamEdge
    <3>2. CASE i # n
      <4>1. frames[n].id \in Upstream(Graph, frames[i].id)
        BY <1>2, <2>2, <3>2
      <4> QED BY <1>2, <1>3, <2>1, <4>1, UpstreamStep
    <3> QED BY <3>1, <3>2
  <2>4. \A i, j \in 1 .. n + 1 : i < j => frames'[j].id \in Upstream(Graph, frames'[i].id)
    BY <1>2, <1>7, <2>2, <2>3
  <2> QED BY <1>1, <1>5, <2>4 DEF Path
<1>14. Seen'
  <2>1. \A j \in 1 .. n : \A k \in 1 .. frames[j].next - 1 :
          \/ DepsOf(frames[j].id)[k] \in Finished
          \/ j < n /\ k = frames[j].next - 1 /\ DepsOf(frames[j].id)[k] = frames[j + 1].id
    BY DEF Searching, Seen, n
  <2>2. \A j \in 1 .. n - 1 :
          frames[j].next > 1 /\ DepsOf(frames[j].id)[frames[j].next - 1] = frames[j + 1].id
    BY DEF Searching, Seen, n
  <2>3. \A j \in 1 .. n + 1 : \A k \in 1 .. frames'[j].next - 1 :
          \/ DepsOf(frames'[j].id)[k] \in Finished
          \/ j < n + 1 /\ k = frames'[j].next - 1 /\ DepsOf(frames'[j].id)[k] = frames'[j + 1].id
    <3> SUFFICES ASSUME NEW j \in 1 .. n + 1, NEW k \in 1 .. frames'[j].next - 1
                 PROVE  \/ DepsOf(frames'[j].id)[k] \in Finished
                        \/ j < n + 1 /\ k = frames'[j].next - 1 /\ DepsOf(frames'[j].id)[k] = frames'[j + 1].id
      OBVIOUS
    <3>1. CASE j < n
      <4>1. j \in 1 .. n /\ j + 1 \in 1 .. n /\ j \in 1 .. n - 1
        BY <1>2, <3>1
      <4>2. /\ frames'[j].id = frames[j].id /\ frames'[j].next = frames[j].next
            /\ frames'[j + 1].id = frames[j + 1].id
        BY <1>7, <4>1
      <4>3. k \in 1 .. frames[j].next - 1
        BY <4>2
      <4> QED BY <1>2, <2>1, <3>1, <4>1, <4>2, <4>3
    <3>2. CASE j = n
      <4>1. frames'[j].id = Top.id /\ frames'[j].next = Top.next + 1 /\ frames'[j + 1].id = dep
        BY <1>2, <1>7, <3>2
      <4>2. CASE k = Top.next
        BY <1>2, <3>2, <4>1, <4>2
      <4>3. CASE k # Top.next
        <5>0. k \in 1 .. Top.next
          BY <1>p, <3>2, Zenon
        <5>1. k \in 1 .. Top.next - 1
          BY <1>p, <4>3, <5>0
        <5>2. j \in 1 .. n /\ frames[j] = Top /\ ~(j < n)
          BY <1>2, <3>2
        <5> QED BY <2>1, <4>1, <5>1, <5>2
      <4> QED BY <4>2, <4>3
    <3>3. CASE j = n + 1
      <4>1. frames'[j].next = 1
        BY <1>7, <3>3
      <4>2. 1 .. frames'[j].next - 1 = 1 .. 1 - 1
        BY <4>1, Zenon
      <4>3. 1 .. 1 - 1 = {}
        OBVIOUS
      <4> QED BY <4>2, <4>3
    <3> QED BY <1>2, <3>1, <3>2, <3>3
  <2>4. \A j \in 1 .. n :
          frames'[j].next > 1 /\ DepsOf(frames'[j].id)[frames'[j].next - 1] = frames'[j + 1].id
    <3> SUFFICES ASSUME NEW j \in 1 .. n
                 PROVE frames'[j].next > 1 /\ DepsOf(frames'[j].id)[frames'[j].next - 1] = frames'[j + 1].id
      OBVIOUS
    <3>1. CASE j < n
      <4>1. j \in 1 .. n /\ j + 1 \in 1 .. n /\ j \in 1 .. n - 1
        BY <1>2, <3>1
      <4>2. /\ frames'[j].id = frames[j].id /\ frames'[j].next = frames[j].next
            /\ frames'[j + 1].id = frames[j + 1].id
        BY <1>7, <4>1
      <4> QED BY <2>2, <4>1, <4>2
    <3>2. CASE j = n
      <4>1. frames'[j].id = Top.id /\ frames'[j].next = Top.next + 1 /\ frames'[j + 1].id = dep
        BY <1>2, <1>7, <3>2
      <4>2. frames'[j].next > 1 /\ frames'[j].next - 1 = Top.next
        BY <1>p, <3>2
      <4> QED BY <4>1, <4>2
    <3>3. j < n \/ j = n
      BY <1>n
    <3> QED BY <3>1, <3>2, <3>3
  <2>5. Len(frames') = n + 1 /\ Len(frames') - 1 = n
    BY <1>5, <1>n
  <2> QED BY <1>1, <1>10, <2>3, <2>4, <2>5 DEF Seen
<1>15. (Clean /\ Roots)'
  BY <1>1, <1>10 DEF Searching, Clean, Roots
<1> QED BY <1>1, <1>9, <1>12, <1>13, <1>14, <1>15 DEF Searching

(* The loop skips a step whose search is over. *)
LEMMA SearchSkipInv ==
    ASSUME SearchTyped, Searching, phase = "search", frames # <<>>, Top.next <= Len(DepsOf(Top.id)),
           DepsOf(Top.id)[Top.next] \in Finished, frames' = Advanced,
           UNCHANGED <<task, phase, root, visited, inStack>>
    PROVE  SearchTyped' /\ Searching'
<1> DEFINE n == Len(frames)
<1>1. /\ StepIds' = StepIds /\ Graph' = Graph /\ Checked' = Checked
      /\ \A id : DepsOf(id)' = DepsOf(id)
  BY SameTask
<1>2. /\ frames' \in Seq(Frame) /\ Len(frames') = n
      /\ n \in Nat /\ n >= 1 /\ Top = frames[n]
      /\ \A i \in 1 .. n : frames'[i].id = frames[i].id
      /\ \A i \in 1 .. n - 1 : frames'[i].next = frames[i].next
      /\ frames'[n].next = Top.next + 1
      /\ Top.id \in StepIds /\ Top.next \in 1 .. Len(DepsOf(Top.id))
      /\ DepsOf(Top.id) \in Seq(IDs)
  BY AdvancedStack
<1>3. Finished' = Finished
  BY DEF Finished
<1>4. inStack = {frames[i].id : i \in 1 .. n}
  BY StackIds DEF SearchTyped, Searching, StackIsPath
<1> HIDE DEF n
<1>5. SearchTyped'
  <2>1. \A i \in 1 .. n : frames[i].id \in StepIds /\ frames[i].next \in 1 .. Len(DepsOf(frames[i].id)) + 1
    BY DEF SearchTyped, n
  <2>2. \A i \in 1 .. n : frames'[i].id \in StepIds /\ frames'[i].next \in 1 .. Len(DepsOf(frames'[i].id)) + 1
    <3> SUFFICES ASSUME NEW i \in 1 .. n
                 PROVE frames'[i].id \in StepIds /\ frames'[i].next \in 1 .. Len(DepsOf(frames'[i].id)) + 1
      OBVIOUS
    <3>1. CASE i \in 1 .. n - 1
      <4>1. frames'[i].id = frames[i].id /\ frames'[i].next = frames[i].next
        BY <1>2, <3>1
      <4> QED BY <2>1, <4>1
    <3>2. CASE i = n
      <4>1. frames'[i].id = Top.id /\ frames'[i].next = Top.next + 1
        BY <1>2, <3>2
      <4> QED BY <1>2, <4>1
    <3> QED BY <1>2, <3>1, <3>2
  <2> QED BY <1>1, <1>2, <2>2 DEF SearchTyped
<1>6. StackIsPath'
  <2>1. inStack' = {frames'[i].id : i \in 1 .. n}
    BY <1>2, <1>4
  <2>2. inStack' = {g.id : g \in Range(frames')}
    BY <1>2, <2>1, StackIdsNext
  <2>3. /\ \A i, j \in 1 .. n : frames[i].id = frames[j].id => i = j
        /\ \A i \in 1 .. n - 1 : frames[i + 1].id \in Graph[frames[i].id]
    BY DEF Searching, StackIsPath, n
  <2>4. \A i, j \in 1 .. n : frames'[i].id = frames'[j].id => i = j
    BY <1>2, <2>3
  <2>5. \A i \in 1 .. n - 1 : frames'[i + 1].id \in Graph[frames'[i].id]
    <3> SUFFICES ASSUME NEW i \in 1 .. n - 1 PROVE frames'[i + 1].id \in Graph[frames'[i].id]
      OBVIOUS
    <3>1. i \in 1 .. n /\ i + 1 \in 1 .. n
      BY <1>2
    <3> QED BY <1>2, <2>3, <3>1
  <2> QED BY <1>1, <1>2, <2>2, <2>4, <2>5 DEF StackIsPath
<1>7. Path'
  <2>1. \A i, j \in 1 .. n : i < j => frames[j].id \in Upstream(Graph, frames[i].id)
    BY DEF Searching, Path, n
  <2> QED BY <1>1, <1>2, <2>1 DEF Path
<1>8. Seen'
  <2>1. \A j \in 1 .. n : \A k \in 1 .. frames[j].next - 1 :
          \/ DepsOf(frames[j].id)[k] \in Finished
          \/ j < n /\ k = frames[j].next - 1 /\ DepsOf(frames[j].id)[k] = frames[j + 1].id
    BY DEF Searching, Seen, n
  <2>2. \A j \in 1 .. n - 1 :
          frames[j].next > 1 /\ DepsOf(frames[j].id)[frames[j].next - 1] = frames[j + 1].id
    BY DEF Searching, Seen, n
  <2>3. \A j \in 1 .. n : \A k \in 1 .. frames'[j].next - 1 :
          \/ DepsOf(frames'[j].id)[k] \in Finished
          \/ j < n /\ k = frames'[j].next - 1 /\ DepsOf(frames'[j].id)[k] = frames'[j + 1].id
    <3> SUFFICES ASSUME NEW j \in 1 .. n, NEW k \in 1 .. frames'[j].next - 1
                 PROVE  \/ DepsOf(frames'[j].id)[k] \in Finished
                        \/ j < n /\ k = frames'[j].next - 1 /\ DepsOf(frames'[j].id)[k] = frames'[j + 1].id
      OBVIOUS
    <3>1. CASE j < n
      <4>1. j + 1 \in 1 .. n /\ j \in 1 .. n - 1
        BY <1>2, <3>1
      <4> QED BY <1>2, <2>1, <3>1, <4>1
    <3>2. CASE j = n
      <4>1. frames'[j].id = Top.id /\ frames'[j].next = Top.next + 1
        BY <1>2, <3>2
      <4>2. k = Top.next \/ k \in 1 .. Top.next - 1
        BY <1>2, <4>1
      <4> QED BY <1>2, <2>1, <3>2, <4>1, <4>2
    <3> QED BY <1>2, <3>1, <3>2
  <2>4. \A j \in 1 .. n - 1 :
          frames'[j].next > 1 /\ DepsOf(frames'[j].id)[frames'[j].next - 1] = frames'[j + 1].id
    BY <1>2, <2>2
  <2> QED BY <1>1, <1>2, <1>3, <2>3, <2>4 DEF Seen
<1>9. (Clean /\ Roots)'
  BY <1>1, <1>3 DEF Searching, Clean, Roots
<1> QED BY <1>1, <1>5, <1>6, <1>7, <1>8, <1>9 DEF Searching

(* A step met again while its call is on the stack waits for itself. *)
LEMMA CycleFound ==
    ASSUME SearchTyped, Searching, phase = "search", frames # <<>>, Top.next <= Len(DepsOf(Top.id)),
           DepsOf(Top.id)[Top.next] \in inStack
    PROVE  ~Acyclic(Graph)
<1> DEFINE n == Len(frames)
           dep == DepsOf(Top.id)[Top.next]
<1>1. /\ n \in Nat /\ n >= 1 /\ Top = frames[n]
      /\ Top.id \in StepIds /\ Top.next \in 1 .. Len(DepsOf(Top.id))
  BY AdvancedStack
<1>2. dep \in Graph[Top.id] /\ dep \in StepIds
  BY <1>1, GraphEdge, DepsTyped DEF SearchTyped, Searching
<1>3. DOMAIN Graph = StepIds
  BY DEF Graph
<1>4. PICK i \in 1 .. n : dep = frames[i].id
  <2>1. inStack = {frames[i].id : i \in 1 .. n}
    BY StackIds DEF SearchTyped, Searching, StackIsPath
  <2>2. dep \in inStack
    OBVIOUS
  <2> QED BY <2>1, <2>2
<1>5. dep \in Upstream(Graph, dep)
  <2>1. CASE i = n
    BY <1>1, <1>2, <1>3, <1>4, <2>1, UpstreamEdge
  <2>2. CASE i # n
    <3>1. frames[n].id \in Upstream(Graph, frames[i].id)
      BY <1>1, <1>4, <2>2 DEF Searching, Path
    <3> QED BY <1>1, <1>2, <1>3, <1>4, <3>1, UpstreamStep
  <2> QED BY <2>1, <2>2
<1> QED BY <1>2, <1>3, <1>5 DEF Acyclic

LEMMA SearchEdgeInv == ASSUME IInv, SearchEdge PROVE IInv'
<1> USE DEF planVars
<1>1. Runnable' = Runnable
  BY SameTask DEF SearchEdge
<1>2. SearchTyped /\ Searching /\ phase = "search"
  BY DEF IInv, SearchEdge
<1> DEFINE dep == DepsOf(Top.id)[Top.next]
<1>3. phase' \in {"search", "rejected"} /\ Unplanned'
  BY <1>2 DEF SearchEdge, IInv, Unplanned
<1>4. CASE dep \notin visited
  <2>1. SearchTyped' /\ Searching' /\ phase' = phase
    BY <1>2, <1>4, SearchDeeperInv DEF SearchEdge
  <2> QED BY <1>2, <1>3, <2>1 DEF IInv, Untouched, Accepted
<1>5. CASE dep \in visited \cap inStack
  <2>1. ~Runnable
    BY <1>2, <1>5, CycleFound DEF SearchEdge, Runnable
  <2>2. phase' = "rejected" /\ UNCHANGED <<task, root, frames, visited, inStack>>
    BY <1>5 DEF SearchEdge
  <2>3. SearchTyped'
    <3>1. StepIds' = StepIds /\ \A id : DepsOf(id)' = DepsOf(id)
      BY <2>2, SameTask
    <3> QED BY <1>2, <2>2, <3>1 DEF SearchTyped
  <2> QED BY <1>1, <1>3, <2>1, <2>2, <2>3 DEF IInv, Untouched, Accepted
<1>6. CASE dep \in visited \ inStack
  <2>1. SearchTyped' /\ Searching' /\ phase' = phase
    BY <1>2, <1>6, SearchSkipInv DEF SearchEdge, Finished
  <2> QED BY <1>2, <1>3, <2>1 DEF IInv, Untouched, Accepted
<1> QED BY <1>4, <1>5, <1>6

LEMMA FrontFacts ==
    ASSUME NEW S, NEW q \in Seq(S), q # <<>>
    PROVE  /\ Front(q) \in Seq(S)
           /\ Len(q) \in Nat /\ Len(q) >= 1 /\ Len(Front(q)) = Len(q) - 1
           /\ \A i \in 1 .. Len(q) - 1 : Front(q)[i] = q[i]
<1> DEFINE r == SubSeq(q, 1, Len(q) - 1)
<1>1. Len(q) \in Nat \ {0} /\ DOMAIN q = 1 .. Len(q)
  OBVIOUS
<1>2. r \in Seq(S) /\ Len(r) = Len(q) - 1 /\ \A i \in 1 .. Len(q) - 1 : r[i] = q[i]
  BY <1>1
<1> QED BY <1>1, <1>2 DEF Front

(* A call returns when all dependencies of its step are finished. *)
LEMMA SearchUpInv ==
    ASSUME SearchTyped, Searching, phase = "search", frames # <<>>, Top.next > Len(DepsOf(Top.id)),
           inStack' = inStack \ {Top.id}, frames' = Front(frames),
           UNCHANGED <<task, phase, root, visited>>
    PROVE  SearchTyped' /\ Searching'
<1> DEFINE n == Len(frames)
           top == Top.id
<1>1. /\ StepIds' = StepIds /\ Graph' = Graph /\ Checked' = Checked
      /\ \A id : DepsOf(id)' = DepsOf(id)
  BY SameTask
<1>2. /\ frames' \in Seq(Frame) /\ Len(frames') = n - 1 /\ n \in Nat /\ n >= 1
      /\ \A i \in 1 .. n - 1 : frames'[i] = frames[i]
  BY FrontFacts DEF SearchTyped
<1>3. Top = frames[n] /\ top \in StepIds /\ Top.next \in 1 .. Len(DepsOf(top)) + 1
  BY <1>2 DEF SearchTyped, Top
<1>4. DepsOf(top) \in Seq(IDs) /\ Graph[top] = Range(DepsOf(top))
  BY <1>3, Lookup, DepsTyped DEF SearchTyped, Searching
<1>5. Top.next = Len(DepsOf(top)) + 1
  BY <1>3, <1>4
<1>6. inStack = {frames[i].id : i \in 1 .. n}
  BY StackIds DEF SearchTyped, Searching, StackIsPath
<1>7. Graph[top] \subseteq Finished
  <2>1. \A k \in 1 .. Len(DepsOf(top)) : DepsOf(top)[k] \in Finished
    <3> SUFFICES ASSUME NEW k \in 1 .. Len(DepsOf(top)) PROVE DepsOf(top)[k] \in Finished
      OBVIOUS
    <3>1. k \in 1 .. frames[n].next - 1
      BY <1>3, <1>4, <1>5
    <3> QED BY <1>2, <1>3, <3>1 DEF Searching, Seen
  <2> QED BY <1>4, <2>1 DEF Range
<1>8. top \in inStack
  BY <1>2, <1>3, <1>6
<1>9. Finished' = Finished \cup {top}
  BY <1>8 DEF Finished, SearchTyped
<1>10. top \notin Upstream(Graph, top)
  <2>1. Finished \in SUBSET DOMAIN Graph
    BY DEF Finished, SearchTyped, Graph
  <2>2. \A u \in Finished : Graph[u] \subseteq Finished
    BY DEF Searching, Clean
  <2>3. Upstream(Graph, top) \subseteq Finished
    BY <1>7, <2>1, <2>2, UpstreamLeast
  <2> QED BY <1>8, <2>3 DEF Finished
<1>11. Clean'
  <2>1. \A s \in Finished : Graph[s] \subseteq Finished /\ s \notin Upstream(Graph, s)
    BY DEF Searching, Clean
  <2>2. \A s \in Finished \cup {top} : Graph[s] \subseteq Finished \cup {top} /\ s \notin Upstream(Graph, s)
    BY <1>7, <1>10, <2>1
  <2> QED BY <1>1, <1>9, <2>2 DEF Clean
<1> HIDE DEF n
<1>12. SearchTyped'
  <2>1. \A i \in 1 .. n : frames[i].id \in StepIds /\ frames[i].next \in 1 .. Len(DepsOf(frames[i].id)) + 1
    BY DEF SearchTyped, n
  <2>2. \A i \in 1 .. n - 1 : i \in 1 .. n
    BY <1>2
  <2>3. \A i \in 1 .. n - 1 : frames'[i].id \in StepIds /\ frames'[i].next \in 1 .. Len(DepsOf(frames'[i].id)) + 1
    BY <1>2, <2>1, <2>2
  <2>4. inStack' \subseteq visited'
    BY DEF SearchTyped
  <2> QED BY <1>1, <1>2, <2>3, <2>4 DEF SearchTyped
<1>13. StackIsPath'
  <2>1. /\ \A i, j \in 1 .. n : frames[i].id = frames[j].id => i = j
        /\ \A i \in 1 .. n - 1 : frames[i + 1].id \in Graph[frames[i].id]
    BY DEF Searching, StackIsPath, n
  <2>2. {frames[i].id : i \in 1 .. n - 1} = inStack \ {top}
    <3>1. 1 .. n = (1 .. n - 1) \cup {n}
      BY <1>2
    <3>2. \A i \in 1 .. n - 1 : frames[i].id # top
      BY <1>2, <1>3, <2>1 DEF n
    <3>3. top = frames[n].id
      BY <1>3 DEF n
    <3> QED BY <1>6, <3>1, <3>2, <3>3 DEF n
  <2>3. inStack' = {g.id : g \in Range(frames')}
    <3>1. inStack' = {frames'[i].id : i \in 1 .. n - 1}
      BY <1>2, <2>2
    <3> QED BY <1>2, <3>1, StackIdsNext
  <2>4. \A i, j \in 1 .. n - 1 : frames'[i].id = frames'[j].id => i = j
    <3>1. \A i \in 1 .. n - 1 : i \in 1 .. n
      BY <1>2
    <3> QED BY <1>2, <2>1, <3>1
  <2>5. \A i \in 1 .. n - 1 - 1 : frames'[i + 1].id \in Graph[frames'[i].id]
    <3> SUFFICES ASSUME NEW i \in 1 .. n - 1 - 1 PROVE frames'[i + 1].id \in Graph[frames'[i].id]
      OBVIOUS
    <3>1. i \in 1 .. n - 1 /\ i + 1 \in 1 .. n - 1
      BY <1>2
    <3>2. frames[i + 1].id \in Graph[frames[i].id]
      BY <2>1, <3>1
    <3> QED BY <1>2, <3>1, <3>2
  <2> QED BY <1>1, <1>2, <2>3, <2>4, <2>5 DEF StackIsPath
<1>14. Path'
  <2>1. \A i, j \in 1 .. n : i < j => frames[j].id \in Upstream(Graph, frames[i].id)
    BY DEF Searching, Path, n
  <2>2. \A i \in 1 .. n - 1 : i \in 1 .. n
    BY <1>2
  <2> QED BY <1>1, <1>2, <2>1, <2>2 DEF Path
<1>15. Seen'
  <2>1. \A j \in 1 .. n : \A k \in 1 .. frames[j].next - 1 :
          \/ DepsOf(frames[j].id)[k] \in Finished
          \/ j < n /\ k = frames[j].next - 1 /\ DepsOf(frames[j].id)[k] = frames[j + 1].id
    BY DEF Searching, Seen, n
  <2>2. \A j \in 1 .. n - 1 :
          frames[j].next > 1 /\ DepsOf(frames[j].id)[frames[j].next - 1] = frames[j + 1].id
    BY DEF Searching, Seen, n
  <2>3. \A j \in 1 .. n - 1 : \A k \in 1 .. frames'[j].next - 1 :
          \/ DepsOf(frames'[j].id)[k] \in Finished \cup {top}
          \/ j < n - 1 /\ k = frames'[j].next - 1 /\ DepsOf(frames'[j].id)[k] = frames'[j + 1].id
    <3> SUFFICES ASSUME NEW j \in 1 .. n - 1, NEW k \in 1 .. frames'[j].next - 1
                 PROVE  \/ DepsOf(frames'[j].id)[k] \in Finished \cup {top}
                        \/ j < n - 1 /\ k = frames'[j].next - 1 /\ DepsOf(frames'[j].id)[k] = frames'[j + 1].id
      OBVIOUS
    <3>1. frames'[j] = frames[j] /\ j \in 1 .. n
      BY <1>2
    <3>2. k \in 1 .. frames[j].next - 1
      BY <3>1
    <3>3. CASE j = n - 1
      <4>1. frames[j + 1].id = top
        BY <1>2, <1>3, <3>3 DEF n
      <4> QED BY <2>1, <3>1, <3>2, <4>1
    <3>4. CASE j < n - 1
      <4>1. frames'[j + 1] = frames[j + 1]
        BY <1>2, <3>4
      <4> QED BY <2>1, <3>1, <3>2, <3>4, <4>1
    <3> QED BY <1>2, <3>3, <3>4
  <2>4. \A j \in 1 .. n - 1 - 1 :
          frames'[j].next > 1 /\ DepsOf(frames'[j].id)[frames'[j].next - 1] = frames'[j + 1].id
    <3> SUFFICES ASSUME NEW j \in 1 .. n - 1 - 1
                 PROVE frames'[j].next > 1 /\ DepsOf(frames'[j].id)[frames'[j].next - 1] = frames'[j + 1].id
      OBVIOUS
    <3>1. j \in 1 .. n - 1 /\ j + 1 \in 1 .. n - 1
      BY <1>2
    <3>2. frames'[j] = frames[j] /\ frames'[j + 1] = frames[j + 1]
      BY <1>2, <3>1
    <3> QED BY <2>2, <3>1, <3>2
  <2> QED BY <1>1, <1>2, <1>9, <2>3, <2>4 DEF Seen
<1>16. Roots'
  BY <1>1 DEF Searching, Roots
<1> QED BY <1>1, <1>11, <1>12, <1>13, <1>14, <1>15, <1>16 DEF Searching

LEMMA SearchReturnInv == ASSUME IInv, SearchReturn PROVE IInv'
<1> USE DEF planVars
<1>1. SearchTyped /\ Searching /\ phase = "search"
  BY DEF IInv, SearchReturn
<1>2. SearchTyped' /\ Searching' /\ phase' = phase
  BY <1>1, SearchUpInv DEF SearchReturn
<1>3. Unplanned'
  BY <1>1 DEF SearchReturn, IInv, Unplanned
<1> QED BY <1>1, <1>2, <1>3 DEF IInv, Untouched, Accepted

(* When no call is left and every root is done, there is no cycle. *)
LEMMA CheckToolsInv == ASSUME IInv, CheckTools PROVE IInv'
<1> USE DEF planVars, dfsVars
<1>1. /\ SearchTyped /\ Searching /\ phase = "search" /\ frames = <<>> /\ root > Len(task)
      /\ Unplanned /\ UNCHANGED <<task, root, frames, visited, inStack>>
  BY DEF IInv, CheckTools, SearchDone
<1>2. /\ StepIds' = StepIds /\ Graph' = Graph /\ Runnable' = Runnable
      /\ \A id : DepsOf(id)' = DepsOf(id)
      /\ \A id, S : CountIn(id, S)' = CountIn(id, S)
  BY <1>1, SameTask
<1>3. inStack = {}
  BY <1>1 DEF Searching, StackIsPath, Range
<1>4. Finished = StepIds
  <2>1. StepIds \subseteq visited
    <3>1. Len(task) \in Nat /\ root - 1 >= Len(task) /\ root \in Nat
      BY <1>1 DEF SearchTyped
    <3>2. Indices \subseteq 1 .. root - 1
      BY <3>1 DEF Indices
    <3> QED BY <1>1, <3>2 DEF Searching, Roots, StepIds
  <2> QED BY <1>1, <1>3, <2>1 DEF SearchTyped, Finished
<1>5. Acyclic(Graph)
  BY <1>1, <1>4 DEF Searching, Clean, Acyclic, Graph
<1>6. Runnable <=> ToolsKnown
  BY <1>1, <1>5 DEF Searching, Checked, Runnable
<1>7. phase' \in {"plan", "rejected"} /\ SearchTyped'
  <2>1. phase' \in {"plan", "rejected"}
    BY DEF CheckTools
  <2> QED BY <1>1, <1>2, <2>1 DEF SearchTyped
<1>8. CASE ToolsKnown
  <2>1. /\ phase' = "plan" /\ inDegree' = [id \in StepIds |-> Len(DepsOf(id))]
        /\ remaining' = Len(task) /\ waves' = waves
    BY <1>8 DEF CheckTools
  <2>2. \A id \in StepIds : Len(DepsOf(id)) \in Nat /\ Len(DepsOf(id)) = CountIn(id, StepIds)
    BY <1>1, Lookup, CountAll DEF SearchTyped, Searching
  <2>3. remaining' = Cardinality(StepIds)
    BY <1>1, <2>1, CountSteps DEF SearchTyped, Searching, Checked
  <2>4. Left' = StepIds
    BY <2>1 DEF Left
  <2>5. Counted'
    BY <1>2, <2>1, <2>2, <2>3, <2>4 DEF Counted
  <2>6. waves' = <<>>
    BY <1>1, <2>1 DEF Unplanned
  <2>7. Len(waves') = 0 /\ waves' \in Seq(SUBSET StepIds)
    BY <2>6
  <2>8. Before(waves', Len(waves') + 1) = {}
    BY <2>7 DEF Before
  <2>9. Placed' /\ Earliest'
    BY <1>2, <2>4, <2>7, <2>8 DEF Placed, Earliest
  <2> QED BY <1>2, <1>6, <1>7, <1>8, <2>1, <2>5, <2>9 DEF IInv, Planning, Untouched, Unplanned, Accepted
<1>9. CASE ~ToolsKnown
  <2>1. phase' = "rejected" /\ UNCHANGED <<inDegree, waves, remaining>>
    BY <1>9 DEF CheckTools
  <2> QED BY <1>1, <1>2, <1>6, <1>7, <1>9, <2>1 DEF IInv, Untouched, Unplanned, Accepted
<1> QED BY <1>8, <1>9

-----------------------------------------------------------------------------
(* Among steps that are left, one with the least set of upstream steps     *)
(* depends on no other: a round never comes up empty.                      *)
LEMMA WaveExists ==
    ASSUME task \in Seq(Step), Runnable, Counted, remaining > 0
    PROVE  Wave # {}
<1> DEFINE T == {Upstream(Graph, id) : id \in Left}
<1>1. IsFiniteSet(StepIds) /\ DOMAIN Graph = StepIds /\ Left \subseteq StepIds
  BY CountSteps DEF Runnable, Graph, Counted
<1>2. Left # {}
  <2>1. Cardinality({}) = 0
    BY FS_EmptySet
  <2>2. remaining = Cardinality(Left)
    BY DEF Counted
  <2>3. Cardinality(Left) # 0
    BY <2>2
  <2> QED BY <2>1, <2>3, Zenon
<1>3. \E x \in T : \A y \in T : <<y, x>> \notin StrictSubsetOrdering(StepIds)
  <2>1. IsWellFoundedOn(StrictSubsetOrdering(StepIds), SUBSET StepIds)
    BY <1>1, FS_StrictSubsetOrderingWellFounded, FS_FiniteSubsetsOfFinite
  <2>2. T \subseteq SUBSET StepIds
    <3>1. \A id : Upstream(Graph, id) \subseteq StepIds
      BY <1>1 DEF Upstream
    <3> QED BY <3>1
  <2>3. T # {}
    BY <1>2
  <2> HIDE DEF T
  <2> QED BY <2>1, <2>2, <2>3, WFMin
<1>4. PICK id \in Left : \A d \in Left :
        <<Upstream(Graph, d), Upstream(Graph, id)>> \notin StrictSubsetOrdering(StepIds)
  BY <1>3
<1>5. Graph[id] \cap Left = {}
  <2> SUFFICES ASSUME NEW d \in Graph[id] \cap Left PROVE FALSE
    OBVIOUS
  <2>1. d \in Upstream(Graph, id)
    BY <1>1, UpstreamEdge
  <2>2. Upstream(Graph, d) \subseteq Upstream(Graph, id)
    BY <2>1, UpstreamWithin
  <2>3. d \notin Upstream(Graph, d)
    BY <1>1 DEF Runnable, Acyclic
  <2>4. Upstream(Graph, d) \in SUBSET StepIds /\ Upstream(Graph, id) \in SUBSET StepIds
    BY <1>1 DEF Upstream
  <2>5. <<Upstream(Graph, d), Upstream(Graph, id)>> \in StrictSubsetOrdering(StepIds)
    BY <2>1, <2>2, <2>3, <2>4 DEF StrictSubsetOrdering
  <2> QED BY <1>4, <2>5
<1>6. inDegree[id] = 0
  BY <1>1, <1>5, CountType DEF Counted
<1> QED BY <1>4, <1>6 DEF Wave

(* A wave is exactly the steps left that depend on no other step left. *)
LEMMA WaveIsFree ==
    ASSUME task \in Seq(Step), Counted
    PROVE  Wave = {id \in Left : Graph[id] \cap Left = {}}
BY CountType DEF Wave, Counted

LEMMA CountedNext ==
    ASSUME task \in Seq(Step), IdsUsable, Counted, task' = task,
           inDegree' = [id \in Left \ Wave |-> inDegree[id] - CountIn(id, Wave)],
           remaining' = remaining - Cardinality(Wave)
    PROVE  Counted' /\ Left' = Left \ Wave
<1>1. StepIds' = StepIds /\ \A id, S : CountIn(id, S)' = CountIn(id, S)
  BY SameTask
<1>2. Left' = Left \ Wave /\ Wave \subseteq Left /\ Left \subseteq StepIds
  BY DEF Left, Wave, Counted
<1>3. \A id \in Left \ Wave : /\ inDegree'[id] = CountIn(id, Left \ Wave)
                              /\ inDegree'[id] \in Nat
  <2> SUFFICES ASSUME NEW id \in Left \ Wave
               PROVE  inDegree'[id] = CountIn(id, Left \ Wave) /\ inDegree'[id] \in Nat
    OBVIOUS
  <2>1. CountIn(id, Left \ Wave) = CountIn(id, Left) - CountIn(id, Wave)
    BY <1>2, CountLess
  <2>2. CountIn(id, Left \ Wave) \in Nat
    BY <1>2, CountType
  <2>3. inDegree[id] = CountIn(id, Left)
    BY DEF Counted
  <2> QED BY <2>1, <2>2, <2>3
<1>4. remaining' = Cardinality(Left \ Wave)
  <2>1. IsFiniteSet(Left)
    BY <1>2, CountSteps, FS_Subset
  <2>2. Cardinality(Left \ Wave) = Cardinality(Left) - Cardinality(Left \cap Wave)
    BY <2>1, FS_Difference
  <2>3. Left \cap Wave = Wave
    BY <1>2
  <2> QED BY <2>2, <2>3 DEF Counted
<1>5. inDegree' \in [Left \ Wave -> Nat]
  BY <1>3
<1> QED BY <1>1, <1>2, <1>3, <1>4, <1>5 DEF Counted

LEMMA PlacedNext ==
    ASSUME task \in Seq(Step), Checked, Counted, Placed, Earliest, Wave # {}, task' = task,
           waves' = Append(waves, Wave), Left' = Left \ Wave
    PROVE  Placed' /\ Earliest'
<1> DEFINE m == Len(waves)
<1>1. StepIds' = StepIds /\ Graph' = Graph
  BY SameTask
<1>2. /\ Wave = {id \in Left : Graph[id] \cap Left = {}}
      /\ Wave \subseteq Left /\ Left \subseteq StepIds /\ Wave \in SUBSET StepIds
  BY WaveIsFree DEF Wave, Counted
<1>3. waves \in Seq(SUBSET StepIds) /\ m \in Nat
  BY DEF Placed
<1>4. /\ waves' \in Seq(SUBSET StepIds) /\ Len(waves') = m + 1 /\ waves'[m + 1] = Wave
      /\ \A i \in 1 .. m : waves'[i] = waves[i]
  BY <1>2, <1>3
<1>m. m \in Nat
  BY <1>3
<1> HIDE DEF m
<1>5. \A i \in 1 .. m + 1 : Before(waves', i) = Before(waves, i)
  <2> SUFFICES ASSUME NEW i \in 1 .. m + 1 PROVE Before(waves', i) = Before(waves, i)
    OBVIOUS
  <2>1. \A h \in 1 .. i - 1 : h \in 1 .. m
    BY <1>3
  <2> QED BY <1>4, <2>1 DEF Before
<1>6. Before(waves, m + 1) = StepIds \ Left
  BY DEF Placed, m
<1>7. Before(waves', m + 1 + 1) = StepIds \ (Left \ Wave)
  <2>1. 1 .. m + 1 + 1 - 1 = (1 .. m + 1 - 1) \cup {m + 1}
    BY <1>3
  <2>2. Before(waves', m + 1 + 1) = Before(waves', m + 1) \cup Wave
    BY <1>4, <2>1 DEF Before
  <2>3. m + 1 \in 1 .. m + 1
    BY <1>3
  <2> QED BY <1>2, <1>5, <1>6, <2>2, <2>3
<1>8. \A i \in 1 .. m + 1 :
        /\ waves'[i] # {}
        /\ waves'[i] \cap Before(waves', i) = {}
        /\ \A s \in waves'[i] : Graph[s] \subseteq Before(waves', i)
  <2> SUFFICES ASSUME NEW i \in 1 .. m + 1
               PROVE  /\ waves'[i] # {}
                      /\ waves'[i] \cap Before(waves, i) = {}
                      /\ \A s \in waves'[i] : Graph[s] \subseteq Before(waves, i)
    BY <1>5
  <2>1. CASE i \in 1 .. m
    BY <1>4, <2>1 DEF Placed, m
  <2>2. CASE i = m + 1
    <3>1. waves'[i] = Wave /\ Before(waves, i) = StepIds \ Left
      BY <1>4, <1>6, <2>2
    <3>2. \A s \in Wave : Graph[s] \subseteq StepIds
      BY <1>2, DepsTyped
    <3>3. Wave \cap (StepIds \ Left) = {}
      BY <1>2
    <3>4. \A s \in Wave : Graph[s] \subseteq StepIds \ Left
      BY <1>2, <3>2
    <3> QED BY <3>1, <3>3, <3>4
  <2>3. i \in 1 .. m \/ i = m + 1
    BY <1>m
  <2> QED BY <2>1, <2>2, <2>3
<1>9. Placed'
  BY <1>1, <1>4, <1>7, <1>8 DEF Placed
<1>10. \A s \in Left' : Graph[s] \cap (Left' \cup waves'[m + 1]) # {}
  <2>1. Left' \cup waves'[m + 1] = Left
    BY <1>2, <1>4
  <2> QED BY <1>2, <2>1
<1>11. \A i \in 2 .. m + 1 : \A s \in waves'[i] : Graph[s] \cap waves'[i - 1] # {}
  <2> SUFFICES ASSUME NEW i \in 2 .. m + 1, NEW s \in waves'[i]
               PROVE  Graph[s] \cap waves'[i - 1] # {}
    OBVIOUS
  <2>1. i - 1 \in 1 .. m /\ waves'[i - 1] = waves[i - 1]
    BY <1>3, <1>4
  <2>2. CASE i \in 2 .. m
    <3>1. i \in 1 .. m
      BY <1>3, <2>2
    <3> QED BY <1>4, <2>1, <2>2, <3>1 DEF Earliest, m
  <2>3. CASE i = m + 1
    <3>1. s \in Wave /\ m > 0 /\ i - 1 = m
      BY <1>3, <1>4, <2>1, <2>3
    <3>2. Graph[s] \cap (Left \cup waves[m]) # {}
      BY <1>2, <3>1 DEF Earliest, m
    <3>3. Graph[s] \cap Left = {}
      BY <1>2, <3>1
    <3>4. Graph[s] \cap waves[m] # {}
      BY <3>2, <3>3
    <3>5. waves'[i - 1] = waves[m]
      BY <2>1, <3>1
    <3> QED BY <3>4, <3>5
  <2>4. i \in 2 .. m \/ i = m + 1
    BY <1>m
  <2> QED BY <2>2, <2>3, <2>4
<1> QED BY <1>1, <1>4, <1>9, <1>10, <1>11 DEF Earliest

LEMMA BuildWaveInv == ASSUME IInv, BuildWave PROVE IInv'
<1> USE DEF dfsVars, planVars
<1>1. /\ SearchTyped /\ Planning /\ phase = "plan"
      /\ UNCHANGED <<task, root, frames, visited, inStack>>
  BY DEF IInv, BuildWave, Accepted
<1>2. /\ task \in Seq(Step) /\ Checked /\ IdsUsable /\ Counted /\ Placed /\ Earliest
      /\ Runnable' = Runnable
  BY <1>1, SameTask DEF SearchTyped, Planning, Runnable, Checked
<1>3. Wave # {}
  BY <1>1, WaveExists DEF SearchTyped, Planning, BuildWave
<1>4. /\ phase' = phase /\ waves' = Append(waves, Wave)
      /\ inDegree' = [id \in Left \ Wave |-> inDegree[id] - CountIn(id, Wave)]
      /\ remaining' = remaining - Cardinality(Wave)
  BY <1>3 DEF BuildWave
<1>5. Counted' /\ Left' = Left \ Wave
  BY <1>1, <1>2, <1>4, CountedNext
<1>6. Placed' /\ Earliest'
  BY <1>1, <1>2, <1>3, <1>4, <1>5, PlacedNext
<1>7. SearchTyped'
  <2>1. StepIds' = StepIds /\ \A id : DepsOf(id)' = DepsOf(id)
    BY <1>1, SameTask
  <2> QED BY <1>1, <1>4, <2>1 DEF SearchTyped
<1> QED BY <1>1, <1>2, <1>4, <1>5, <1>6, <1>7 DEF IInv, Planning, Untouched, Unplanned, Accepted

(* Nothing of the task or the plan changes. *)
LEMMA SamePlan ==
    ASSUME UNCHANGED <<task, dfsVars, planVars>>
    PROVE  /\ Runnable' = Runnable /\ Counted' = Counted /\ Placed' = Placed /\ Earliest' = Earliest
           /\ Checked' = Checked /\ Path' = Path /\ Seen' = Seen /\ Clean' = Clean /\ Roots' = Roots
           /\ StepIds' = StepIds /\ \A id : DepsOf(id)' = DepsOf(id)
           /\ Graph' = Graph
<1> USE DEF dfsVars, planVars
<1>1. /\ StepIds' = StepIds /\ Graph' = Graph /\ Checked' = Checked /\ Runnable' = Runnable
      /\ \A id : DepsOf(id)' = DepsOf(id)
      /\ \A id, S : CountIn(id, S)' = CountIn(id, S)
  BY SameTask
<1>2. Left' = Left /\ Finished' = Finished
  BY DEF Left, Finished
<1>3. Counted' = Counted
  BY <1>1, <1>2 DEF Counted
<1>4. Placed' = Placed /\ Earliest' = Earliest
  BY <1>1, <1>2 DEF Placed, Earliest
<1>5. Path' = Path /\ Seen' = Seen /\ Clean' = Clean /\ Roots' = Roots
  BY <1>1, <1>2 DEF Path, Seen, Clean, Roots
<1> QED BY <1>1, <1>3, <1>4, <1>5

LEMMA PlanDoneInv == ASSUME IInv, PlanDone PROVE IInv'
<1>1. SearchTyped /\ Planning /\ phase = "plan" /\ phase' = "planned"
  BY DEF IInv, PlanDone, Accepted
<1>2. /\ Runnable' = Runnable /\ Counted' = Counted /\ Placed' = Placed /\ Earliest' = Earliest
      /\ StepIds' = StepIds /\ \A id : DepsOf(id)' = DepsOf(id)
  BY SamePlan DEF PlanDone
<1>3. remaining' = 0
  <2>1. IsFiniteSet(Left)
    <3>1. IsFiniteSet(StepIds) /\ Left \subseteq StepIds
      BY <1>1, CountSteps DEF SearchTyped, Planning, Runnable, Counted
    <3> QED BY <3>1, FS_Subset
  <2>2. remaining \in Nat
    BY <1>1, <2>1, FS_CardinalityType DEF Planning, Counted
  <2> QED BY <2>2 DEF PlanDone, planVars
<1>4. SearchTyped'
  BY <1>1, <1>2 DEF SearchTyped, PlanDone, dfsVars
<1> QED BY <1>1, <1>2, <1>3, <1>4 DEF IInv, Planning, Untouched, Unplanned, Accepted

LEMMA StutterInv == ASSUME IInv, UNCHANGED vars PROVE IInv'
<1> USE DEF vars
<1>1. /\ Runnable' = Runnable /\ Counted' = Counted /\ Placed' = Placed /\ Earliest' = Earliest
      /\ Checked' = Checked /\ Path' = Path /\ Seen' = Seen /\ Clean' = Clean /\ Roots' = Roots
      /\ StepIds' = StepIds /\ \A id : DepsOf(id)' = DepsOf(id)
      /\ Graph' = Graph
  BY SamePlan
<1>2. SearchTyped'
  BY <1>1 DEF IInv, SearchTyped, dfsVars
<1>3. StackIsPath' = StackIsPath
  BY <1>1 DEF StackIsPath, dfsVars
<1>4. Untouched' /\ Unplanned'
  BY DEF IInv, Untouched, Unplanned, dfsVars, planVars
<1>5. phase' = phase /\ Accepted' = Accepted /\ remaining' = remaining
  BY DEF Accepted, planVars
<1> QED BY <1>1, <1>2, <1>3, <1>4, <1>5 DEF IInv, Searching, Planning

-----------------------------------------------------------------------------
LEMMA Always == Spec => []IInv
<1>1. Init => IInv
  BY InitIInv, PlannerAssumption
<1>2. IInv /\ [Next]_vars => IInv'
  BY CheckStepsInv, SearchFromInv, SearchEdgeInv, SearchReturnInv, CheckToolsInv,
     BuildWaveInv, PlanDoneInv, StutterInv DEF Next
<1> QED BY <1>1, <1>2, PTL DEF Spec

(* Validate and BuildExecutionPlan look up only IDs and indices that exist, *)
(* whatever the task.                                                      *)
THEOREM TypeCorrect == Spec => []TypeOK
<1>1. IInv => TypeOK
  <2> SUFFICES ASSUME IInv PROVE TypeOK
    OBVIOUS
  <2>1. SearchTyped
    BY DEF IInv
  <2>2. \A f \in Range(frames) : f.id \in StepIds /\ f.next \in 1 .. Len(DepsOf(f.id)) + 1
    <3>1. \A f \in Range(frames) : \E i \in 1 .. Len(frames) : f = frames[i]
      BY <2>1 DEF Range, SearchTyped
    <3> QED BY <2>1, <3>1 DEF SearchTyped
  <2>3. Len(task) \in Nat
    BY <2>1 DEF SearchTyped
  <2>4. /\ Left \subseteq StepIds
        /\ \A id \in Left : inDegree[id] \in Nat
        /\ \A w \in Range(waves) : w \subseteq StepIds
        /\ remaining \in 0 .. Len(task)
    <3>1. CASE Accepted
      <4>1. Counted /\ Placed /\ Runnable
        BY <3>1 DEF IInv, Planning
      <4>2. Left \subseteq StepIds /\ \A id \in Left : inDegree[id] \in Nat
        BY <4>1 DEF Counted
      <4>3. \A w \in Range(waves) : w \subseteq StepIds
        BY <4>1 DEF Placed, Range
      <4>4. IsFiniteSet(StepIds) /\ Cardinality(StepIds) = Len(task)
        BY <2>1, <4>1, CountSteps DEF SearchTyped, Runnable
      <4>5. IsFiniteSet(Left) /\ Cardinality(Left) <= Cardinality(StepIds)
        BY <4>2, <4>4, FS_Subset
      <4>6. Cardinality(Left) \in Nat
        BY <4>5, FS_CardinalityType
      <4> QED BY <2>3, <4>1, <4>2, <4>3, <4>4, <4>5, <4>6 DEF Counted
    <3>2. CASE ~Accepted
      <4>1. inDegree = <<>> /\ waves = <<>> /\ remaining = 0
        BY <2>1, <3>2 DEF IInv, SearchTyped, Accepted, Unplanned
      <4>2. Left = {} /\ Range(waves) = {}
        BY <4>1 DEF Left, Range
      <4> QED BY <2>3, <4>1, <4>2
    <3> QED BY <3>1, <3>2
  <2> QED BY <2>1, <2>2, <2>4 DEF TypeOK, SearchTyped
<1> QED BY <1>1, Always, PTL

(* Validate accepts exactly the tasks that can be run, however the searches *)
(* for cycles from several roots meet.                                     *)
THEOREM ValidateIsExact == Spec => []ValidateExact
<1>1. IInv => ValidateExact
  BY DEF IInv, Planning, ValidateExact
<1> QED BY <1>1, Always, PTL

(* While it searches, the call stack of hasCycle is a path, and inStack    *)
(* names exactly the steps on it.                                          *)
THEOREM StackIsAPath == Spec => []StackIsPath
<1>1. IInv => StackIsPath
  BY DEF IInv, Searching, StackIsPath
<1> QED BY <1>1, Always, PTL

(* BuildExecutionPlan never answers "cycle detected" to an accepted task,  *)
(* and its waves are a plan for the graph: each step is in one of them,    *)
(* after all it depends on.                                                *)
THEOREM PlanIsCorrect == Spec => []PlanCorrect
<1>1. IInv => PlanCorrect
  <2> SUFFICES ASSUME IInv, phase = "planned" PROVE WellPlanned(Graph, waves)
    BY DEF IInv, Planning, Accepted, PlanCorrect
  <2>1. Counted /\ Placed /\ Runnable /\ remaining = 0 /\ task \in Seq(Step)
    BY DEF IInv, Accepted, Planning, SearchTyped
  <2>2. Left = {}
    <3>1. IsFiniteSet(StepIds) /\ Left \subseteq StepIds
      BY <2>1, CountSteps DEF Runnable, Counted
    <3>2. IsFiniteSet(Left)
      BY <3>1, FS_Subset
    <3> QED BY <2>1, <3>2, FS_EmptySet DEF Counted
  <2>3. DOMAIN Graph = StepIds
    BY DEF Graph
  <2> QED BY <2>1, <2>2, <2>3 DEF WellPlanned, Placed
<1> QED BY <1>1, Always, PTL

(* A planned task is one that ExecutorAssumption asks for: finitely many   *)
(* steps, a graph on them, and waves that are a plan for it.               *)
THEOREM PlanFitsExecutor == Spec => [](phase = "planned" => FitsExecutor)
<1>1. IInv /\ PlanCorrect => (phase = "planned" => FitsExecutor)
  <2> SUFFICES ASSUME IInv, PlanCorrect, phase = "planned" PROVE FitsExecutor
    OBVIOUS
  <2>1. task \in Seq(Step) /\ Placed /\ Runnable
    BY DEF IInv, Accepted, Planning, SearchTyped
  <2>2. IsFiniteSet(StepIds) /\ StepIds # {}
    <3>1. IsFiniteSet(StepIds)
      BY <2>1, CountSteps DEF Runnable
    <3>2. 1 \in Indices
      BY <2>1 DEF Runnable, HasSteps, Indices
    <3> QED BY <3>1, <3>2 DEF StepIds
  <2>3. \A id \in StepIds : Graph[id] \subseteq StepIds
    BY <2>1, DepsTyped DEF Runnable, Checked
  <2>4. Graph \in [StepIds -> SUBSET StepIds]
    BY <2>3 DEF Graph
  <2> QED BY <2>1, <2>2, <2>4 DEF Placed, PlanCorrect, FitsExecutor
<1> QED BY <1>1, Always, PlanIsCorrect, PTL

(* No step is in a later wave than it must be.                             *)
THEOREM PlanIsEarliest == Spec => []PlanEarliest
<1>1. IInv => PlanEarliest
  BY DEF IInv, Accepted, Planning, Earliest, PlanEarliest
<1> QED BY <1>1, Always, PTL
-----------------------------------------------------------------------------
(* Termination.  What the search may still look at: of each step not left for
   good its dependencies from the next one on, and the return of its call. *)
Edges == UNION {{id} \X (1 .. Len(DepsOf(id)) + 1) : id \in StepIds}

ToSee ==
    {e \in Edges : \/ e[1] \notin visited
                   \/ \E j \in 1 .. Len(frames) : frames[j].id = e[1] /\ frames[j].next <= e[2]}

(* A bound on the number of steps the planner can still take. *)
WorkLeft ==
    CASE phase = "check"  -> Cardinality(ToSee) + 2 * Len(task) + 3
      [] phase = "search" -> Cardinality(ToSee) + (Len(task) + 1 - root) + Len(task) + 2
      [] phase = "plan"   -> remaining + 1
      [] OTHER            -> 0

Shrinks == WorkLeft \in Nat /\ WorkLeft' \in Nat /\ WorkLeft' < WorkLeft

LEMMA StepIdsFinite == ASSUME task \in Seq(Step) PROVE IsFiniteSet(StepIds)
<1> DEFINE f == [i \in 1 .. Len(task) |-> task[i].id]
<1>1. Len(task) \in Nat
  OBVIOUS
<1>2. f \in Surjection(1 .. Len(task), StepIds)
  BY DEF Surjection, StepIds, Indices
<1>3. IsFiniteSet(1 .. Len(task))
  BY <1>1, FS_Interval
<1> QED BY <1>2, <1>3, FS_Surjection

LEMMA ToSeeFinite ==
    ASSUME task \in Seq(Step)
    PROVE  IsFiniteSet(ToSee) /\ Cardinality(ToSee) \in Nat
<1> DEFINE Out(id) == {id} \X (1 .. Len(DepsOf(id)) + 1)
           f == [id \in StepIds |-> Out(id)]
           Outs == {Out(id) : id \in StepIds}
<1>1. \A id \in StepIds : IsFiniteSet(Out(id))
  <2> SUFFICES ASSUME NEW id \in StepIds PROVE IsFiniteSet(Out(id))
    OBVIOUS
  <2>1. Len(DepsOf(id)) \in Nat
    BY Lookup
  <2>2. IsFiniteSet({id})
    BY FS_Singleton
  <2>3. 1 \in Int /\ Len(DepsOf(id)) + 1 \in Int
    BY <2>1
  <2>4. IsFiniteSet(1 .. Len(DepsOf(id)) + 1)
    BY <2>3, FS_Interval
  <2> QED BY <2>2, <2>4, FS_Product
<1>2. f \in Surjection(StepIds, Outs)
  BY DEF Surjection
<1>3. IsFiniteSet(Outs)
  BY <1>2, StepIdsFinite, FS_Surjection
<1>4. \A T \in Outs : IsFiniteSet(T)
  BY <1>1
<1>5. IsFiniteSet(UNION Outs)
  BY <1>3, <1>4, FS_UNION
<1>6. ToSee \subseteq UNION Outs
  BY DEF ToSee, Edges
<1> QED BY <1>5, <1>6, FS_Subset, FS_CardinalityType

(* An edge that was still to be seen no longer is. *)
LEMMA OneSeen ==
    ASSUME task \in Seq(Step), NEW e \in ToSee, ToSee' = ToSee \ {e}
    PROVE  Cardinality(ToSee') \in Nat /\ Cardinality(ToSee') < Cardinality(ToSee)
<1>1. IsFiniteSet(ToSee) /\ Cardinality(ToSee) \in Nat
  BY ToSeeFinite
<1>2. Cardinality(ToSee \ {e}) = Cardinality(ToSee) - 1 /\ IsFiniteSet(ToSee \ {e})
  BY <1>1, FS_RemoveElement
<1>3. Cardinality(ToSee \ {e}) \in Nat
  BY <1>2, FS_CardinalityType
<1> QED BY <1>1, <1>2, <1>3

LEMMA EdgeForm ==
    ASSUME NEW e
    PROVE  e \in Edges <=> \E id \in StepIds : \E k \in 1 .. Len(DepsOf(id)) + 1 : e = <<id, k>>
BY DEF Edges

(* Starting a search puts the edges of its step from "not visited" to "on the
   stack": as much as before remains to be seen. *)
LEMMA FromSees ==
    ASSUME IInv, SearchFrom PROVE ToSee' = ToSee
<1> USE DEF SearchFrom
<1>1. /\ frames = <<>> /\ task' = task /\ task \in Seq(Step)
      /\ root \in Indices
  BY DEF IInv, SearchTyped, Indices
<1>2. Edges' = Edges
  BY <1>1, SameTask DEF Edges
<1>3. ToSee = {e \in Edges : e[1] \notin visited}
  BY <1>1 DEF ToSee
<1>4. CASE task[root].id \in visited
  BY <1>1, <1>2, <1>3, <1>4 DEF ToSee
<1>5. CASE task[root].id \notin visited
  <2> DEFINE id == task[root].id
  <2>1. frames' = <<[id |-> id, next |-> 1]>> /\ visited' = visited \cup {id}
    BY <1>1, <1>5 DEF Push
  <2>2. \A e \in Edges : e[2] \in Nat /\ 1 <= e[2]
    <3> SUFFICES ASSUME NEW e \in Edges PROVE e[2] \in Nat /\ 1 <= e[2]
      OBVIOUS
    <3>1. PICK i \in StepIds : \E k \in 1 .. Len(DepsOf(i)) + 1 : e = <<i, k>>
      BY EdgeForm
    <3>2. Len(DepsOf(i)) \in Nat
      BY <1>1, Lookup
    <3> QED BY <3>1, <3>2
  <2>3. ToSee' = {e \in Edges : e[1] \notin visited' \/ (id = e[1] /\ 1 <= e[2])}
    BY <1>2, <2>1 DEF ToSee
  <2> QED BY <1>3, <1>5, <2>1, <2>2, <2>3
<1> QED BY <1>4, <1>5

(* The edge the call on top of the stack is about to look at, or its return. *)
LEMMA TopUnseen ==
    ASSUME SearchTyped, frames # <<>> PROVE <<Top.id, Top.next>> \in ToSee
<1>1. Len(frames) \in 1 .. Len(frames) /\ Top = frames[Len(frames)]
  BY DEF SearchTyped, Top
<1>2. Top.id \in StepIds /\ Top.next \in 1 .. Len(DepsOf(Top.id)) + 1
  BY <1>1 DEF SearchTyped
<1>3. <<Top.id, Top.next>> \in Edges
  BY <1>2, EdgeForm
<1>4. Top.next <= Top.next
  BY <1>1 DEF SearchTyped, Frame
<1> QED BY <1>1, <1>3, <1>4 DEF ToSee

(* An edge of a step on the stack is to be seen when its own call has not
   looked at it. *)
LEMMA EdgeOnStack ==
    ASSUME SearchTyped, StackIsPath, phase = "search", NEW e \in Edges,
           NEW i \in 1 .. Len(frames), frames[i].id = e[1]
    PROVE  e \in ToSee <=> frames[i].next <= e[2]
<1>1. \A j \in 1 .. Len(frames) : frames[j].id = e[1] => j = i
  BY DEF StackIsPath
<1>2. e[1] \in visited
  <2>1. frames[i] \in Range(frames)
    BY DEF SearchTyped, Range
  <2> QED BY <2>1 DEF StackIsPath, SearchTyped
<1> QED BY <1>1, <1>2 DEF ToSee

LEMMA EdgeSees ==
    ASSUME IInv, SearchEdge, phase' = "search"
    PROVE  ToSee' = ToSee \ {<<Top.id, Top.next>>}
<1> DEFINE n == Len(frames)  dep == DepsOf(Top.id)[Top.next]  top == <<Top.id, Top.next>>
<1>1. /\ SearchTyped /\ Searching /\ phase = "search"
      /\ frames # <<>> /\ Top.next <= Len(DepsOf(Top.id))
      /\ task' = task
  BY DEF IInv, SearchEdge
<1>2. /\ Advanced \in Seq(Frame) /\ Len(Advanced) = n
      /\ n \in Nat /\ n >= 1 /\ Top = frames[n]
      /\ \A i \in 1 .. n : Advanced[i].id = frames[i].id
      /\ \A i \in 1 .. n - 1 : Advanced[i].next = frames[i].next
      /\ Advanced[n].next = Top.next + 1
      /\ Top.next \in Nat /\ frames \in Seq(Frame)
  BY <1>1, AdvancedStack DEF SearchTyped
<1>3. Edges' = Edges
  BY <1>1, SameTask DEF Edges
<1>4. StackIsPath
  BY <1>1 DEF Searching
<1>5. \A e \in Edges : e[2] \in Nat /\ 1 <= e[2] /\ e = <<e[1], e[2]>>
  <2> SUFFICES ASSUME NEW e \in Edges PROVE e[2] \in Nat /\ 1 <= e[2] /\ e = <<e[1], e[2]>>
    OBVIOUS
  <2>1. PICK i \in StepIds : \E k \in 1 .. Len(DepsOf(i)) + 1 : e = <<i, k>>
    BY EdgeForm
  <2>2. Len(DepsOf(i)) \in Nat
    BY <1>1, Lookup DEF SearchTyped
  <2> QED BY <2>1, <2>2
<1>6. \A i \in 1 .. n : frames[i].next \in Nat
  <2> SUFFICES ASSUME NEW i \in 1 .. n PROVE frames[i].next \in Nat
    OBVIOUS
  <2>1. frames[i] \in Frame
    BY <1>2
  <2> QED BY <2>1 DEF Frame
<1> DEFINE Rest == {e \in Edges : \/ e[1] \notin visited
                                  \/ \E j \in 1 .. n : frames[j].id = e[1] /\ Advanced[j].next <= e[2]}
<1>7. Rest = ToSee \ {top}
  <2> SUFFICES ASSUME NEW e \in Edges PROVE e \in Rest <=> (e \in ToSee /\ e # top)
    BY DEF ToSee
  <2>1. CASE \E i \in 1 .. n : frames[i].id = e[1]
    <3>1. PICK i \in 1 .. n : frames[i].id = e[1]
      BY <2>1
    <3>2. e \in ToSee <=> frames[i].next <= e[2]
      BY <1>1, <1>4, <3>1, EdgeOnStack
    <3>3. \A j \in 1 .. n : frames[j].id = e[1] => j = i
      BY <1>1, <1>4, <3>1 DEF StackIsPath
    <3>4. e[1] \in visited
      <4>1. frames[i] \in Range(frames)
        BY <1>2 DEF Range
      <4> QED BY <1>1, <1>4, <3>1, <4>1 DEF StackIsPath, SearchTyped
    <3>5. e \in Rest <=> Advanced[i].next <= e[2]
      BY <3>1, <3>3, <3>4
    <3>6. CASE i = n
      BY <1>2, <1>5, <3>1, <3>2, <3>5, <3>6
    <3>7. CASE i # n
      <4>1. i \in 1 .. n - 1
        BY <1>2, <3>7
      <4>2. frames[i].id # Top.id
        BY <1>1, <1>2, <1>4, <3>7 DEF StackIsPath
      <4>3. e # top
        BY <3>1, <4>2
      <4> QED BY <1>2, <3>2, <3>5, <4>1, <4>3
    <3> QED BY <3>6, <3>7
  <2>2. CASE ~\E i \in 1 .. n : frames[i].id = e[1]
    <3>1. e # top
      BY <1>2, <2>2
    <3> QED BY <2>2, <3>1 DEF ToSee
  <2> QED BY <2>1, <2>2
<1>8. CASE dep \notin visited
  <2>1. /\ frames' = Append(Advanced, [id |-> dep, next |-> 1])
        /\ visited' = visited \cup {dep}
    BY <1>1, <1>8 DEF SearchEdge
  <2>2. /\ Len(frames') = n + 1
        /\ \A i \in 1 .. n : frames'[i] = Advanced[i]
        /\ frames'[n + 1] = [id |-> dep, next |-> 1]
    BY <1>2, <2>1
  <2>3. \A i \in 1 .. n : frames[i].id # dep
    <3> SUFFICES ASSUME NEW i \in 1 .. n PROVE frames[i].id # dep
      OBVIOUS
    <3>1. frames[i] \in Range(frames)
      BY <1>2 DEF Range
    <3>2. frames[i].id \in inStack
      BY <1>1, <1>4, <3>1 DEF StackIsPath
    <3> QED BY <1>1, <1>8, <3>2 DEF SearchTyped
  <2>4. \A e \in Edges : e \in ToSee' <=> e \in Rest
    <3> SUFFICES ASSUME NEW e \in Edges PROVE e \in ToSee' <=> e \in Rest
      OBVIOUS
    <3>1. e \in ToSee' <=> \/ e[1] \notin visited'
                           \/ \E j \in 1 .. n + 1 : frames'[j].id = e[1] /\ frames'[j].next <= e[2]
      BY <1>3, <2>2 DEF ToSee
    <3>2. (\E j \in 1 .. n + 1 : frames'[j].id = e[1] /\ frames'[j].next <= e[2])
            <=> \/ dep = e[1]
                \/ \E j \in 1 .. n : frames[j].id = e[1] /\ Advanced[j].next <= e[2]
      <4>1. \A j \in 1 .. n + 1 : j \in 1 .. n \/ j = n + 1
        BY <1>2
      <4>2. \A j \in 1 .. n : j \in 1 .. n + 1
        BY <1>2
      <4>3. n + 1 \in 1 .. n + 1 /\ 1 <= e[2]
        BY <1>2, <1>5
      <4>4. frames'[n + 1].id = dep /\ frames'[n + 1].next = 1
        BY <2>2
      <4>5. \A j \in 1 .. n : /\ frames'[j].id = frames[j].id
                              /\ frames'[j].next = Advanced[j].next
        BY <1>2, <2>2
      <4> HIDE DEF dep
      <4> QED BY <4>1, <4>2, <4>3, <4>4, <4>5
    <3> QED BY <1>8, <2>1, <2>3, <3>1, <3>2
  <2>5. ToSee' \subseteq Edges
    BY <1>3 DEF ToSee
  <2> QED BY <1>7, <2>4, <2>5
<1>9. CASE dep \in visited
  <2>1. frames' = Advanced /\ visited' = visited
    BY <1>1, <1>9 DEF SearchEdge
  <2>2. ToSee' = Rest
    <3>1. Len(frames') = n
      BY <1>2, <2>1
    <3>2. ToSee' = {e \in Edges : \/ e[1] \notin visited
                                  \/ \E j \in 1 .. n : Advanced[j].id = e[1] /\ Advanced[j].next <= e[2]}
      BY <1>3, <2>1, <3>1 DEF ToSee
    <3> QED BY <1>2, <3>2
  <2> QED BY <1>7, <2>2
<1> QED BY <1>8, <1>9

LEMMA ReturnSees ==
    ASSUME IInv, SearchReturn PROVE ToSee' = ToSee \ {<<Top.id, Top.next>>}
<1> DEFINE n == Len(frames)  top == <<Top.id, Top.next>>
<1>1. /\ SearchTyped /\ Searching /\ phase = "search"
      /\ frames # <<>> /\ Top.next > Len(DepsOf(Top.id))
      /\ task' = task /\ visited' = visited /\ frames' = Front(frames)
      /\ frames \in Seq(Frame)
  BY DEF IInv, SearchReturn, SearchTyped
<1>2. /\ n \in Nat /\ n >= 1 /\ Len(frames') = n - 1
      /\ \A i \in 1 .. n - 1 : frames'[i] = frames[i]
      /\ Top = frames[n]
  <2> HIDE DEF Frame
  <2> QED BY <1>1, FrontFacts DEF Top
<1>3. Edges' = Edges
  BY <1>1, SameTask DEF Edges
<1>4. StackIsPath /\ Top.id \in StepIds /\ Top.id \in visited
  <2>1. StackIsPath
    BY <1>1 DEF Searching
  <2>2. Top \in Range(frames)
    BY <1>1, <1>2 DEF Range
  <2>3. Top.id \in inStack
    BY <1>1, <2>1, <2>2 DEF StackIsPath
  <2> QED BY <1>1, <2>1, <2>3 DEF SearchTyped
<1>5. Len(DepsOf(Top.id)) \in Nat /\ Top.next = Len(DepsOf(Top.id)) + 1
  <2>1. Len(DepsOf(Top.id)) \in Nat
    BY <1>1, <1>4, Lookup DEF SearchTyped
  <2>2. Top.next \in 1 .. Len(DepsOf(Top.id)) + 1
    BY <1>1, <1>2 DEF SearchTyped
  <2> QED BY <1>1, <2>1, <2>2
<1>6. \A e \in Edges : e \in ToSee' <=> (e \in ToSee /\ e # top)
  <2> SUFFICES ASSUME NEW e \in Edges PROVE e \in ToSee' <=> (e \in ToSee /\ e # top)
    OBVIOUS
  <2>1. e \in ToSee' <=> \/ e[1] \notin visited
                         \/ \E j \in 1 .. n - 1 : frames[j].id = e[1] /\ frames[j].next <= e[2]
    BY <1>1, <1>2, <1>3 DEF ToSee
  <2>2. CASE e[1] = Top.id
    <3>1. e \notin ToSee'
      <4>1. \A j \in 1 .. n - 1 : frames[j].id # Top.id
        BY <1>1, <1>2, <1>4 DEF StackIsPath
      <4> QED BY <1>4, <2>1, <2>2, <4>1
    <3>2. e \in ToSee => e = top
      <4>1. e \in ToSee <=> Top.next <= e[2]
        BY <1>1, <1>2, <1>4, <2>2, EdgeOnStack
      <4>2. PICK i \in StepIds : \E k \in 1 .. Len(DepsOf(i)) + 1 : e = <<i, k>>
        BY EdgeForm
      <4>3. i = Top.id
        BY <2>2, <4>2
      <4> QED BY <1>5, <4>1, <4>2, <4>3
    <3> QED BY <3>1, <3>2
  <2>3. CASE e[1] # Top.id
    <3>1. e # top
      BY <2>3
    <3>2. \A j \in 1 .. n : j \in 1 .. n - 1 \/ j = n
      BY <1>2
    <3>3. \A j \in 1 .. n - 1 : j \in 1 .. n
      BY <1>2
    <3> QED BY <1>2, <2>1, <2>3, <3>1, <3>2, <3>3 DEF ToSee
  <2> QED BY <2>2, <2>3
<1>7. ToSee' \subseteq Edges /\ ToSee \subseteq Edges
  BY <1>3 DEF ToSee
<1> QED BY <1>6, <1>7

(* What remains to be done is a number. *)
LEMMA WorkLeftType ==
    ASSUME IInv
    PROVE  /\ WorkLeft \in Nat
           /\ task \in Seq(Step) /\ Len(task) \in Nat
           /\ Cardinality(ToSee) \in Nat
           /\ root \in Nat /\ root <= Len(task) + 1
           /\ remaining \in Nat /\ remaining <= Len(task)
           /\ phase \in {"check", "search", "plan", "planned", "rejected", "cycle"}
<1>1. /\ task \in Seq(Step) /\ root \in 1 .. Len(task) + 1
      /\ phase \in {"check", "search", "plan", "planned", "rejected", "cycle"}
  BY DEF IInv, SearchTyped
<1>2. Len(task) \in Nat /\ Cardinality(ToSee) \in Nat
  BY <1>1, ToSeeFinite
<1>3. remaining \in Nat /\ remaining <= Len(task)
  <2>1. CASE Accepted
    <3>1. Counted /\ Runnable
      BY <2>1 DEF IInv, Planning
    <3>2. IsFiniteSet(StepIds) /\ Cardinality(StepIds) = Len(task)
      BY <1>1, <3>1, CountSteps DEF Runnable
    <3>3. IsFiniteSet(Left) /\ Cardinality(Left) <= Cardinality(StepIds)
      BY <3>1, <3>2, FS_Subset DEF Counted
    <3>4. Cardinality(Left) \in Nat
      BY <3>3, FS_CardinalityType
    <3> QED BY <3>1, <3>2, <3>3, <3>4 DEF Counted
  <2>2. CASE ~Accepted
    <3>1. remaining = 0
      BY <1>1, <2>2 DEF IInv, Accepted, Unplanned
    <3> QED BY <1>2, <3>1
  <2> QED BY <2>1, <2>2
<1>4. root \in Nat /\ root <= Len(task) + 1
  BY <1>1, <1>2
<1>5. WorkLeft \in Nat
  <2>1. CASE phase = "check"
    <3>1. WorkLeft = Cardinality(ToSee) + 2 * Len(task) + 3
      BY <2>1 DEF WorkLeft
    <3> QED BY <1>2, <3>1
  <2>2. CASE phase = "search"
    <3>1. WorkLeft = Cardinality(ToSee) + (Len(task) + 1 - root) + Len(task) + 2
      BY <2>2 DEF WorkLeft
    <3> QED BY <1>2, <1>4, <3>1
  <2>3. CASE phase = "plan"
    BY <1>3, <2>3 DEF WorkLeft
  <2>4. CASE phase \in {"planned", "rejected", "cycle"}
    BY <2>4 DEF WorkLeft
  <2> QED BY <1>1, <2>1, <2>2, <2>3, <2>4
<1> QED BY <1>1, <1>2, <1>3, <1>4, <1>5

(* Whoever has not come to an end has something left to do. *)
LEMMA AtWork ==
    ASSUME IInv, phase \in {"check", "search", "plan"} PROVE WorkLeft > 0
<1>1. /\ Len(task) \in Nat /\ Cardinality(ToSee) \in Nat
      /\ root \in Nat /\ root <= Len(task) + 1 /\ remaining \in Nat
  BY WorkLeftType
<1>2. CASE phase = "check"
  BY <1>1, <1>2 DEF WorkLeft
<1>3. CASE phase = "search"
  <2>1. WorkLeft = Cardinality(ToSee) + (Len(task) + 1 - root) + Len(task) + 2
    BY <1>3 DEF WorkLeft
  <2> QED BY <1>1, <2>1
<1>4. CASE phase = "plan"
  BY <1>1, <1>4 DEF WorkLeft
<1> QED BY <1>2, <1>3, <1>4

LEMMA WorkShrinks == ASSUME IInv, IInv', Next PROVE WorkLeft' < WorkLeft
<1> DEFINE N == Len(task)  C == Cardinality(ToSee)
<1>1. /\ task \in Seq(Step) /\ N \in Nat /\ C \in Nat /\ WorkLeft \in Nat
      /\ root \in Nat /\ root <= N + 1 /\ remaining \in Nat /\ remaining <= N
  BY WorkLeftType
<1>2. task' = task
  BY DEF Next, CheckSteps, SearchFrom, SearchEdge, SearchReturn, CheckTools, SearchDone, BuildWave, PlanDone
<1>3. /\ phase' \in {"check", "search", "plan", "planned", "rejected", "cycle"}
      /\ Cardinality(ToSee') \in Nat
      /\ root' \in Nat /\ root' <= N + 1 /\ remaining' \in Nat /\ remaining' <= N
  <2>1. /\ task' \in Seq(Step) /\ root' \in 1 .. Len(task') + 1
        /\ phase' \in {"check", "search", "plan", "planned", "rejected", "cycle"}
    BY DEF IInv, SearchTyped
  <2>2. Cardinality(ToSee') \in Nat
    <3>1. (/\ IInv => Cardinality(ToSee) \in Nat)'
      BY WorkLeftType, PTL
    <3> QED BY <3>1
  <2>3. remaining' \in Nat /\ remaining' <= Len(task')
    <3>1. (IInv => remaining \in Nat /\ remaining <= Len(task))'
      BY WorkLeftType, PTL
    <3> QED BY <3>1
  <2> QED BY <1>1, <1>2, <2>1, <2>2, <2>3
<1>4. phase' \in {"planned", "rejected", "cycle"} => WorkLeft' = 0
  BY DEF WorkLeft
<1>5. phase \in {"check", "search", "plan"}
  BY DEF Next, CheckSteps, SearchFrom, SearchEdge, SearchReturn, CheckTools, SearchDone, BuildWave, PlanDone
<1>6. CASE phase' \in {"planned", "rejected", "cycle"}
  BY <1>1, <1>4, <1>5, <1>6, AtWork
<1>7. CASE phase' \in {"check", "search", "plan"}
  <2>1. CASE CheckSteps
    <3>1. /\ phase = "check" /\ phase' = "search"
          /\ UNCHANGED <<task, dfsVars>>
      BY <1>7, <2>1 DEF CheckSteps
    <3>2. root = 1 /\ ToSee' = ToSee
      <4>1. root = 1
        BY <3>1 DEF IInv, Untouched
      <4>2. Edges' = Edges
        BY <3>1, SameTask DEF Edges
      <4> QED BY <3>1, <4>1, <4>2 DEF ToSee, dfsVars
    <3>3. WorkLeft = C + 2 * N + 3
      BY <3>1 DEF WorkLeft
    <3>4. WorkLeft' = C + (N + 1 - 1) + N + 2
      BY <3>1, <3>2 DEF WorkLeft, dfsVars
    <3> QED BY <1>1, <3>3, <3>4
  <2>2. CASE SearchFrom
    <3>1. phase = "search" /\ phase' = "search" /\ root' = root + 1 /\ ToSee' = ToSee
      BY <2>2, FromSees DEF SearchFrom
    <3>2. WorkLeft = C + (N + 1 - root) + N + 2
      BY <3>1 DEF WorkLeft
    <3>3. WorkLeft' = C + (N + 1 - (root + 1)) + N + 2
      BY <1>2, <3>1 DEF WorkLeft
    <3> QED BY <1>1, <3>2, <3>3
  <2>3. CASE SearchEdge \/ SearchReturn
    <3>1. phase = "search" /\ phase' = "search" /\ root' = root /\ frames # <<>>
      BY <1>7, <2>3 DEF SearchEdge, SearchReturn
    <3>2. ToSee' = ToSee \ {<<Top.id, Top.next>>}
      BY <2>3, <3>1, EdgeSees, ReturnSees
    <3>3. <<Top.id, Top.next>> \in ToSee
      BY <3>1, TopUnseen DEF IInv
    <3>4. Cardinality(ToSee') < C
      BY <1>1, <3>2, <3>3, OneSeen
    <3>5. WorkLeft = C + (N + 1 - root) + N + 2
      BY <3>1 DEF WorkLeft
    <3>6. WorkLeft' = Cardinality(ToSee') + (N + 1 - root) + N + 2
      BY <1>2, <3>1 DEF WorkLeft
    <3>7. \A c, d \in Nat, k \in Int : d < c => d + k + N + 2 < c + k + N + 2
      BY <1>1
    <3>8. N + 1 - root \in Int
      BY <1>1
    <3> HIDE DEF C, N
    <3> QED BY <1>1, <1>3, <3>4, <3>5, <3>6, <3>7, <3>8
  <2>4. CASE CheckTools
    <3>1. phase = "search" /\ phase' = "plan" /\ remaining' = N
      BY <1>7, <2>4 DEF CheckTools, SearchDone
    <3>2. WorkLeft = C + (N + 1 - root) + N + 2 /\ WorkLeft' = N + 1
      BY <3>1 DEF WorkLeft
    <3> QED BY <1>1, <3>2
  <2>5. CASE BuildWave
    <3>1. /\ phase = "plan" /\ phase' = "plan" /\ Wave # {}
          /\ remaining' = remaining - Cardinality(Wave)
      BY <1>7, <2>5 DEF BuildWave
    <3>2. Counted /\ Runnable
      BY <3>1 DEF IInv, Accepted, Planning
    <3>3. IsFiniteSet(StepIds) /\ Wave \subseteq StepIds
      BY <1>1, <3>2, CountSteps DEF Runnable, Counted, Wave
    <3>4. IsFiniteSet(Wave)
      BY <3>3, FS_Subset
    <3>5. Cardinality(Wave) \in Nat /\ Cardinality(Wave) # 0
      BY <3>1, <3>4, FS_CardinalityType, FS_EmptySet
    <3>6. WorkLeft = remaining + 1 /\ WorkLeft' = remaining' + 1
      BY <3>1 DEF WorkLeft
    <3> QED BY <1>1, <3>1, <3>5, <3>6
  <2>6. CASE PlanDone
    BY <1>7, <2>6 DEF PlanDone
  <2> QED BY <2>1, <2>2, <2>3, <2>4, <2>5, <2>6 DEF Next
<1> QED BY <1>3, <1>6, <1>7

(* Validate and BuildExecutionPlan come to an end on every input: each step    *)
(* brings them nearer to it, along loops whose numbers of rounds nobody wrote  *)
(* down, a recursion and marks that are set and taken back.                    *)
THEOREM PlannerTerminates == Spec => [][Shrinks]_vars
<1>1. IInv /\ IInv' /\ [Next]_vars => [Shrinks]_vars
  <2> SUFFICES ASSUME IInv, IInv', Next PROVE Shrinks
    OBVIOUS
  <2>1. WorkLeft \in Nat
    BY WorkLeftType
  <2>2. (IInv => WorkLeft \in Nat)'
    BY WorkLeftType, PTL
  <2> QED BY <2>1, <2>2, WorkShrinks DEF Shrinks
<1> QED BY <1>1, Always, PTL DEF Spec
===============================================================================
