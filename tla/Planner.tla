------------------------------- MODULE Planner -------------------------------
(***************************************************************************)
(* The planner: StaticPlanner.Validate, which decides whether a task is    *)
(* accepted, followed by BuildExecutionPlan, which sorts the steps of an   *)
(* accepted task into waves.  Both are sequential; the modelled steps are  *)
(* the iterations of their loops and of the recursive search for cycles.   *)
(***************************************************************************)
EXTENDS TaskGraph, FiniteSets, Functions, SequencesExt

CONSTANTS
    IDs,    \* step IDs, also those a dependency names and no step has
    NoId,   \* the empty step ID
    Tasks   \* the tasks considered, as sequences of steps

\* A step: its ID, the IDs it depends on in the order given, and whether its
\* tool is one the registry knows.
Step == [id : IDs \cup {NoId}, deps : Seq(IDs), known : BOOLEAN]

ASSUME PlannerAssumption ==
    /\ NoId \notin IDs
    /\ Tasks \subseteq Seq(Step)

VARIABLES
    task,       \* Task.Steps: a member of Tasks that never changes
    phase,      \* where Validate and BuildExecutionPlan are, or how they ended
    root,       \* index of the loop that starts the searches for cycles
    frames,     \* call stack of hasCycle: a step, the index of its next dependency
    visited,    \* the steps hasCycle has been called for
    inStack,    \* the steps whose call of hasCycle has not returned
    inDegree,   \* per step not in a wave: how many dependencies are not placed
    waves,      \* ExecutionPlan.Waves
    remaining   \* how many steps are not in a wave

dfsVars == <<root, frames, visited, inStack>>
planVars == <<inDegree, waves, remaining>>
vars == <<task, phase, dfsVars, planVars>>

-----------------------------------------------------------------------------
Indices == 1 .. Len(task)
StepIds == {task[i].id : i \in Indices}
Index(id) == CHOOSE i \in Indices : task[i].id = id
DepsOf(id) == task[Index(id)].deps

\* The dependency graph, as ExecutionPlan.Graph without order and repetition.
Graph == [id \in StepIds |-> Range(DepsOf(id))]

Init ==
    /\ task \in Tasks
    /\ phase = "check"
    /\ root = 1
    /\ frames = <<>>
    /\ visited = {}
    /\ inStack = {}
    /\ inDegree = <<>>
    /\ waves = <<>>
    /\ remaining = 0

-----------------------------------------------------------------------------
(* Validate.                                                               *)

HasSteps == task # <<>>
IdsUsable ==
    /\ \A i \in Indices : task[i].id # NoId
    /\ \A i, j \in Indices : task[i].id = task[j].id => i = j
DepsKnown == \A i \in Indices : Range(task[i].deps) \subseteq StepIds

\* The checks before the search for cycles.
CheckSteps ==
    /\ phase = "check"
    /\ phase' = IF HasSteps /\ IdsUsable /\ DepsKnown THEN "search" ELSE "rejected"
    /\ UNCHANGED <<task, dfsVars, planVars>>

Push(id) ==
    /\ frames' = Append(frames, [id |-> id, next |-> 1])
    /\ visited' = visited \cup {id}
    /\ inStack' = inStack \cup {id}

\* The loop over all steps: start a search at every step not visited yet.
SearchFrom ==
    /\ phase = "search"
    /\ frames = <<>>
    /\ root <= Len(task)
    /\ root' = root + 1
    /\ IF task[root].id \in visited THEN UNCHANGED <<frames, visited, inStack>>
                                    ELSE Push(task[root].id)
    /\ UNCHANGED <<task, phase, planVars>>

Top == frames[Len(frames)]
\* Faulty variants: every other dependency is skipped, and no progress.
AdvancedByTwo == [frames EXCEPT ![Len(frames)].next = @ + 2]
NotAdvanced == frames

Advanced == [frames EXCEPT ![Len(frames)].next = @ + 1]

\* The loop of hasCycle: look at the next dependency of the step on top.
SearchEdge ==
    /\ phase = "search"
    /\ frames # <<>>
    /\ Top.next <= Len(DepsOf(Top.id))
    /\ LET dep == DepsOf(Top.id)[Top.next]
       IN  \/ /\ dep \notin visited
              /\ frames' = Append(Advanced, [id |-> dep, next |-> 1])
              /\ visited' = visited \cup {dep}
              /\ inStack' = inStack \cup {dep}
              /\ UNCHANGED phase
           \/ /\ dep \in visited \cap inStack
              /\ phase' = "rejected"
              /\ UNCHANGED <<frames, visited, inStack>>
           \/ /\ dep \in visited \ inStack
              /\ frames' = Advanced
              /\ UNCHANGED <<phase, visited, inStack>>
    /\ UNCHANGED <<task, root, planVars>>

\* Faulty variant: inStack is not reset when hasCycle returns.
SearchReturnMarked ==
    /\ phase = "search"
    /\ frames # <<>>
    /\ Top.next > Len(DepsOf(Top.id))
    /\ frames' = Front(frames)
    /\ UNCHANGED <<task, phase, root, visited, inStack, planVars>>

\* hasCycle returns false.
SearchReturn ==
    /\ phase = "search"
    /\ frames # <<>>
    /\ Top.next > Len(DepsOf(Top.id))
    /\ inStack' = inStack \ {Top.id}
    /\ frames' = Front(frames)
    /\ UNCHANGED <<task, phase, root, visited, planVars>>

SearchDone ==
    /\ phase = "search"
    /\ frames = <<>>
    /\ root > Len(task)

ToolsKnown == \A i \in Indices : task[i].known

\* The last check of Validate; BuildExecutionPlan counts the dependencies of
\* each step, a repeated one as often as it is given.
CheckTools ==
    /\ SearchDone
    /\ IF ToolsKnown
       THEN /\ phase' = "plan"
            /\ inDegree' = [id \in StepIds |-> Len(DepsOf(id))]
            /\ remaining' = Len(task)
            /\ UNCHANGED waves
       ELSE /\ phase' = "rejected"
            /\ UNCHANGED planVars
    /\ UNCHANGED <<task, dfsVars>>

-----------------------------------------------------------------------------
(* BuildExecutionPlan.                                                     *)

Left == DOMAIN inDegree

\* Faulty variant: off by one.
WaveTooEarly == {id \in Left : inDegree[id] <= 1}

Wave == {id \in Left : inDegree[id] = 0}

\* Faulty variant: a dependency that is listed twice is taken off once.
CountDistinctIn(id, S) == Cardinality(Range(DepsOf(id)) \cap S)

\* How many of the dependencies a step lists are in a set of steps.
CountIn(id, S) == Cardinality({k \in 1 .. Len(DepsOf(id)) : DepsOf(id)[k] \in S})

\* One round: the steps without open dependencies become the next wave.
BuildWave ==
    /\ phase = "plan"
    /\ remaining > 0
    /\ IF Wave = {}
       THEN /\ phase' = "cycle"
            /\ UNCHANGED planVars
       ELSE /\ waves' = Append(waves, Wave)
            /\ inDegree' = [id \in Left \ Wave |-> inDegree[id] - CountIn(id, Wave)]
            /\ remaining' = remaining - Cardinality(Wave)
            /\ UNCHANGED phase
    /\ UNCHANGED <<task, dfsVars>>

PlanDone ==
    /\ phase = "plan"
    /\ remaining <= 0
    /\ phase' = "planned"
    /\ UNCHANGED <<task, dfsVars, planVars>>

-----------------------------------------------------------------------------
Next ==
    \/ CheckSteps \/ SearchFrom \/ SearchEdge \/ SearchReturn \/ CheckTools
    \/ BuildWave \/ PlanDone

Spec == Init /\ [][Next]_vars

\* The planner is called and runs to its end.
FairSpec == Spec /\ WF_vars(Next)

-----------------------------------------------------------------------------
(* Properties.                                                             *)

Accepted == phase \in {"plan", "planned", "cycle"}

\* Every lookup in a map finds its key and every index is inside its slice.
TypeOK ==
    /\ task \in Seq(Step)
    /\ phase \in {"check", "search", "plan", "planned", "rejected", "cycle"}
    /\ root \in 1 .. Len(task) + 1
    /\ \A f \in Range(frames) :
        f.id \in StepIds /\ f.next \in 1 .. Len(DepsOf(f.id)) + 1
    /\ visited \subseteq StepIds
    /\ inStack \subseteq visited
    /\ Left \subseteq StepIds
    /\ \A id \in Left : inDegree[id] \in Nat
    /\ \A w \in Range(waves) : w \subseteq StepIds
    /\ remaining \in 0 .. Len(task)

\* A task can be run: it has steps, their IDs tell them apart, dependencies
\* and tools exist, and no step waits for itself, directly or not.
Runnable ==
    /\ HasSteps
    /\ IdsUsable
    /\ DepsKnown
    /\ Acyclic(Graph)
    /\ ToolsKnown

\* Validate accepts exactly the tasks that can be run: its search, which marks
\* steps as visited across several roots, finds every cycle and reports none
\* where two paths only meet.
ValidateExact ==
    /\ Accepted => Runnable
    /\ phase = "rejected" => ~Runnable

\* The call stack of hasCycle is a path in the graph and inStack names the
\* steps on it, each once: what makes "already in the stack" mean a cycle.
StackIsPath ==
    phase = "search" =>
        /\ inStack = {f.id : f \in Range(frames)}
        /\ \A i, j \in 1 .. Len(frames) : frames[i].id = frames[j].id => i = j
        /\ \A i \in 1 .. Len(frames) - 1 : frames[i + 1].id \in Graph[frames[i].id]

\* A task Validate accepted always has a plan, so that "cycle detected" is never
\* the answer to a task that is already submitted; and the waves are a plan for
\* its graph, which the executor relies on.
PlanCorrect ==
    /\ phase # "cycle"
    /\ phase = "planned" => WellPlanned(Graph, waves)

\* No step waits longer than it must: whoever is not in the first wave depends
\* on a step of the wave before.
PlanEarliest ==
    phase = "planned" =>
        \A i \in 2 .. Len(waves) : \A id \in waves[i] :
            Graph[id] \cap waves[i - 1] # {}

\* Validate and BuildExecutionPlan come to an end, whatever they are given.
Decides == <>(phase \in {"planned", "rejected", "cycle"})
=============================================================================
