# MCP Orchestra, specified in TLA+

Modules, model-checking runs and machine-checked proofs for `mcp-orchestra`,
the service that takes a task (a graph of tool calls), sorts it into waves and
runs it against MCP servers. Paths below are relative to the repository; `pool.go`
is `vendor/gitlab.flexinfer.ai/libs/mcp-go/pool/pool.go`, vendored from the
same organisation and the only place where connections are shared.

To check everything: `tlc -config <run>.cfg <module>.tla` for the runs listed
below, `tlapm <module>.tla` for the modules whose name ends in `Proofs`.

## 1. The system

    HTTP handlers / CLI (cmd/orchestra/main.go)
        | SubmitAndExecute, CancelTask, ListTasks      ^ events channel
        v                                              |
    Coordinator ---- task store (memory, file)         |
        | Validate            | one goroutine per run   |
        v                     v                         |
    Planner  ---waves--->  Executor --------------------+
                              | one goroutine per step of a wave
                              v
                        connection pool ---> transports (websocket, stdio)
                              | Dial: server name -> endpoint
                              v
                           Registry

| Component | State | Operations | Hard part | What makes it correct |
|---|---|---|---|---|
| Connection pool `pool.go` | idle lists, active counters, statistics, closed flag, one mutex | Get, Put, Discard, Close, reaper tick | Get dials with the mutex released | exact counter, limits, one owner per connection, no leaked transport, Close releases all |
| Executor `internal/executor` | statuses of steps and task, outputs map, error channel, events channel, context | Execute, executeWave, executeStep, interpolateArgs | goroutines of a wave, bounded channel closed by a deferred call, cancellation and deadline | dependencies first, fail fast, no send after close, event order, outcome agrees with the steps, every run ends |
| Coordinator `internal/coordinator` | cancels map, shared `*Task` objects, the store | SubmitDAG, SubmitPrompt, Execute, CancelTask, pruneHistory | no lock around a task: check and set are separate, and so are the store and the cancels map | a cancellation reaches its run, outcomes are final, running tasks stay stored |
| Planner `internal/planner` | maps local to a call | Validate, BuildExecutionPlan, (LLM) Plan | search for cycles with shared marks, repeated dependencies | accepts exactly the runnable tasks, the plan is correct and earliest |
| Task store `internal/store` | map of pointers, file | Save, Get, List, Delete, load, flush | file written after the map, crash in between, pointers shared with writers | what is stored survives, what is loaded can be used |
| Transports `internal/transport` | socket or child process | Dial, handshake, Send, Recv, Close | lifetime of the process, context ignored by the socket, responses not matched to requests | a result answers its own request, a pooled connection is usable |
| Registry `internal/registry` | server map, tool index | load, refresh, register, health, discovery | two maps kept in step by hand | every indexed tool can be called |
| HTTP and CLI `cmd/orchestra` | the process and its signal | handlers, shutdown, start | clients that leave, shutdown and death while tasks run | the file is true after a crash, shutdown interrupts nothing |
| LLM client `internal/llm` | none | one HTTP call | - | - |

All of them are listed with their status in `PROJECT.json`, and so is what can go
wrong in each (`hazards`), at the line where it bites, with the properties that
cover it or the reason why none does.

## 2. Modules

| Module | Models | Checked by | Proved in |
|---|---|---|---|
| `Pool` | the connection pool and its callers | `MCPool` | `PoolProofs` |
| `TaskGraph` | vocabulary: waves, well-planned, upstream, acyclic | - | - |
| `DagRun` | abstract specification of one run of a task | refined by `Executor` | `ExecutorProofs` |
| `Executor` | Execute, executeWave, the context, the events channel | `MCExecutor` | `ExecutorProofs` |
| `TaskLife` | abstract specification of the life of the tasks | refined by `Coordinator` | `CoordinatorProofs` |
| `Coordinator` | submit, prune, execute, cancel, the end of a run | `MCCoordinator` | `CoordinatorProofs` |
| `Planner` | Validate and BuildExecutionPlan | `MCPlanner` | `PlannerProofs` |
| `FileStore` | the file store over the memory store, crashes and restarts | `MCFileStore` | `FileStoreProofs` |
| `ToolCall` | executeStep over `Pool`: dial and handshake, messages, processes, contexts of several tasks | `MCToolCall` | `ToolCallProofs` |
| `Registry` | server map, tool index, the file, refresh and health checks | `MCRegistry` | `RegistryProofs` |
| `Service` | `Coordinator` in a process with handlers, a store file, shutdown, death and restart | `MCService` | `ServiceProofs` |

The interfaces between them: `Planner` shows that an accepted task gets a
`WellPlanned` sequence of waves (`PlanCorrect`), which `Executor` assumes of its
jobs (`ExecutorAssumption`); the theorem `PlanFitsExecutor` joins the two. `Executor` shows that a
run ends and how (`Ends`, `EndMatchesSteps`), which `Coordinator` uses as the
single action `ExecutorEnds`. `Coordinator` treats a store call as one step on a
map, whose file may fail to be written; `FileStore` opens that step up and shows
what is left after a restart. `Service` composes the two: it extends
`Coordinator`, adds the file that each store call writes, as a whole or not at
all (which is what `FileStore` shows), and lets the process end and begin again.
A step's tool call, one action in `Executor`, is the life of a caller in `Pool`;
`ToolCall` extends `Pool`, every change of the pool in it is an action of `Pool`,
and `ToolCallProofs` shows that it implements it (`ImplementsPool`). Which tools
are known, an input of `Planner`, is the index that `Registry` keeps.

Definitions headed "Faulty variant" are not part of a specification. Each is a
plausible slip in the definition that follows it, and each property is known to
fail when the slip is put in that definition's place (`mutants` in
`PROJECT.json`).

### Pool

A caller is a goroutine inside `executeStep`; `pc` says whether it is outside
the pool, dialling with a slot reserved, or using a connection. What runs under
the mutex is one action: `GetHit`, `GetReserve`, `DialErr`, `Return` (Put and
Discard), `Close`, `Reap`. The dial is the only window without the mutex, and
`DialOk` and `DialErr` may come at any later moment, after `Close` as well. Get
with the pool closed or the limit reached changes nothing and is no action.
`LastUsed` is not a variable: Put appends with the current time, so the expired
connections of a list are a prefix of it, and `Reap` drops any non-empty choice
of prefixes. A closed transport's identity may be dialled again, so `Conns` is
finite without bounding the number of dials.

### TaskGraph, DagRun, Executor

`DagRun` says what a client is promised: steps begin when their dependencies
are ok, each ends ok or failed, and the run concludes once, when nothing runs,
as completed exactly when all steps are ok. `Executor` has the goroutine of
Execute (`main`), one goroutine per step (`pc`), the error channel of the wave
(`errs`), the outputs map, the shared context and the events channel. A send
blocks while the buffer is full and is a step of its own; code between two sends
touches only the goroutine's own step and two concurrent containers and is one
step. `log` holds every event ever sent and `rcvd` how many were received, so
that properties can speak of the whole history. `job` (graph, references, plan)
is chosen in `Init` and never changes. `LateCancel` is `CancelTask` writing
through the shared pointer after it saw the task pending. The refinement mapping
`Dag` reads `DagRun`'s state off the statuses and the end event.

### TaskLife, Coordinator

`TaskLife` says what clients are promised of the tasks, without requests,
goroutines, lookups or maps: a task goes once from pending to running to its
outcome, or from pending to cancelled; a run ends as cancelled only if it was
asked to stop, and may fail all the same when it was: its deadline came first, or
the cancellation came after the executor had looked at the context
(executor.go:109-123). A cancellation is accepted only
with an effect, on a run that is asked to stop or on a task that is over; and a
task can be looked up from its submission until it is over. The mapping
`Client` reads this off `Coordinator`: `life` is the status of the Task objects,
`asked` their contexts, `known` the objects that the store has under their IDs,
`accepted` the objects of the cancellations that returned without error.
`Forget` also lets a task come back that is over, because the last Save of a run
may follow a Delete by pruning.

Every lookup, every write of `Task.Status` and every store call is an action,
for the handler goroutine of a request (`Submit` to `ExecuteRegister`), for the
goroutine of its run (`Announce` to `Unregister`) and for a `CancelTask` call
(`CancelGet` to `CancelLookup`). Task objects are named like the requests that
bring them; `IdOf` gives their IDs, so clients may choose equal ones. `Saved`
puts the object into the map even if Save then fails, as the file store does.
`born` orders the objects by `CreatedAt`. `ClientsWait` describes clients that
cancel a task only when it has sent an event, or when a failed Save of its
submission left it pending in the store (`Seen`, `Announced`), and that use an ID
again only when the task before it has sent its last event or was refused
(`IdFree`); it separates what clients can rely on from the two races at the start
of a run. The executor's test of the context and its write of the outcome are one
step (`Outcomes`), with every outcome that the two steps can have.

### Planner

One action per iteration of a loop, and the recursion of `hasCycle` as a stack of
frames. The checks without effects are conjunctions (`IdsUsable`, `DepsKnown`).
The waves are sets: the code ranges over a map, in an order Go leaves open.
Whether the registry knows a step's tool is part of the input.

### FileStore

A caller is a goroutine of the coordinator inside `Save` or `Delete`. The change
of the map is one action (it has a mutex of its own); then `flush` takes the
store's mutex and its snapshot (`Flush`), marshals the objects behind the
snapshot's pointers (`Marshal`), truncates and writes the temporary file
(`WriteBegin`, `WriteEnd`) and renames it (`Rename`). Between `Flush` and
`Marshal` the owners of the tasks go on changing them (`Change`). `FlushFails`
is an error of any of these calls. A Task object is reduced to its version, how
often its owner has changed it, because what matters is which of its states
reaches the file. `Crash` may come at any point and loses all but the two files;
`Start` is `NewFileStore` with `load`, which never looks at the temporary file.
Two history variables say what the callers were promised: `promised` has the
version each task was saved in last, and `stale` the tasks whose calls failed
since the file was last replaced. The process stops, not the machine: the code
does not sync the file, and the model does not lose what was written.

### ToolCall

A caller of `Pool` is a goroutine in `executeStep` of some task. `Begin` is Get,
which either hands out an idle connection or reserves a slot; then the dialler
starts the peer (`Connect`), performs the handshake (`Initialize`) or fails
(`ConnectFails`, `InitializeFails`), and the call sends a request with a fresh
ID (`Send`), takes the next message for its response (`Recv`) or finds the peer
gone or the message not to be parsed (`RecvFails`; the handshake fails
likewise), and ends in Put or Discard (`Finish`, with `Hangup` for the
transports the pool closes). A connection has two queues: what was asked and
what the peer has sent; messages are told apart by the request they answer. The
peer may answer (`Answer`), send what nobody asked for (`Notify`), or fail
(`Crash`); `MayCrash` says whether it does that, or sends garbage. The process
behind a stdio transport belongs to the context of the task that dialled it
(`dialer`), and `Kill` is what `exec.CommandContext` does when that context is
done. `Stop` ends a task's context, `Over` is the return of its Execute. Neither
transport looks at the context in Send or Recv, so no action of a call does.
`MaxCalls` bounds the number of requests, and at most one transport at a time
has sent a notification, and only one; these are the bounds of the model. A
process that is replaced may reuse its transport's identity, as in `Pool`.

### Registry

One action per critical section. `RefreshRead` reads the file without the lock
and `RefreshSwap` installs what some Refresh has read, for the default target:
`refresh` is the set of contents read and not yet dropped, so any number of
calls may overlap and an older content may come last. Each call of HealthCheck
has its own variables, indexed by `Checks`, and nothing keeps calls apart:
`HealthCheck` takes the snapshot, `CheckServer` is a goroutine of it, whose
answer is chosen when it is applied because nothing reads it before, `Waited` is
the WaitGroup and `HealthReturn` the return. The tool index is a function from
references, bare ones included, to the server of the stored `ToolRef`. Three
variables are history: `replaced`, the names changed since the snapshot of a
call, and `overwritten`, the names whose entry replaced another one, are the two
situations in which the code keeps something of the old entry; `earlier` has the
calls that were over when a call began. `Edit` is somebody changing the file.
This program calls only the loading; the other operations are the API of the
package.

### Service

The handlers of `serve` around the actions of `Coordinator`: `Accept` and
`Reject` are what happens before a task exists, a call of the language model
included; `SubmitValid`, `Prune`, `Execute` and `Run` are the steps of
`Coordinator` with the store's file, which is written after each change of the
map, or stays as it was when the write fails; `Respond` reads the last event and
ends the handler. `event` and `answered` are what clients were told and survive
the process, like `file`; `begun` and `withdrawn` are history. `Shutdown` is the signal, `Drained` the return of
`server.Shutdown` when the last handler is through, `Die` a crash or the end of
its ten seconds, `Start` loads the file as it is. After a restart, clients see
the stored tasks, and requests of the earlier process are not sent again, so an
ID is used once.

## 3. Runs

| Run | Instance | Shows |
|---|---|---|
| `pool_run` | 2 servers, 4 callers, 3 connections, MaxOpen 3, MaxIdle 2 | counters, ownership, open transports and limits are right on every interleaving; Close releases everything |
| `executor_run` | 4 steps in 4 shapes, event buffer 1, calls notice the context | order, fail-fast, events, references, outcome, no circular wait; implements `DagRun`; every run ends and its consumer is told |
| `executor_deadline_hang` | 2 shapes, calls ignore the context | finding: the timeout does not end the task |
| `coordinator_cancel` | 2 requests with IDs of their own, 2 cancellations after the first event or a failed submission, MaxHistory 1, Save may fail | cancellation and pruning; implements `TaskLife`; every started task settles and gives up its cancel entry |
| `coordinator_cancel_lost` | 1 request, 1 cancellation at any time | finding: an accepted cancellation without effect |
| `coordinator_id_reuse` | 2 requests with one ID, the second after the first has ended, 1 cancellation after the first event | finding: the end of a run takes the cancel entry of the next task with its ID |
| `planner_tasks` | all tasks of at most 3 steps with at most 2 dependencies each, unknown ones included | Validate and BuildExecutionPlan are right |
| `filestore_restart` | 3 callers, 2 tasks of 2 versions | what was saved is in the file and survives any crash; the file is never torn and never falls back to an older state |
| `toolcall_run` | 1 stdio server, 2 callers, 2 transports, 2 tasks, 2 calls, servers may fail | outputs answer their own requests, no process is left behind, calls on a stdio server end |
| `toolcall_reuse` | 1 caller, 1 transport, 2 tasks, servers do not fail | finding: a pooled stdio connection dies with the task that dialled it |
| `registry_index` | 2 servers, 2 tools, 2 files with 2 targets, 2 health checks | index and server map agree; a health check that has returned leaves no older answer, however calls overlap |
| `service_run` | 2 requests, 1 cancellation at any time, MaxHistory 1, Save may fail | the file is true after any crash; a graceful shutdown interrupts no task |

Why the bounds are enough for the interesting cases:

- Pool: more callers than MaxOpen, and MaxIdle below it, so that both limits
  bite; the code treats each server by itself except in Close, the reaper and the
  statistics, so two servers do. Three transports can all belong to one server,
  which is its limit; a fourth, to the other server, would add a dial that
  succeeds while three are open.
- Executor: the shapes are a diamond, a fan-in of three, a chain with an indirect
  reference, and a reference inside one wave. A buffer of one makes every send
  able to block, which a buffer of 100 does only with large tasks; a larger
  buffer allows no other order of events.
- Coordinator: a race here involves two actors and one task. MaxHistory 1 makes
  every second submission prune. The run checks liveness and uses no symmetry.
- Planner: three steps, each with any list of up to two dependencies, give every
  shape of a cycle up to length three, two paths that meet, and a dependency
  named twice. Malformed tasks (no steps, empty and
  repeated IDs, unknown dependencies and tools) are among the inputs.

- FileStore: three callers are one in flush, one waiting for the mutex and one
  that changes the map meanwhile; two tasks are one that is written and one that
  goes along with it. Versions up to two tell what was saved from what came
  later. Callers and tasks are symmetry sets; there is no liveness. Crashes and
  restarts are not bounded.
- ToolCall: two callers are one that uses a connection and one that waits for
  it or dials beside it; two tasks are one that dials and one that reuses; two
  calls are needed for a reuse, and a reuse is the only way in which calls meet.
  Both transports may be open at once, which is MaxOpen, and MaxIdle 1 makes Put
  close one.
- Registry: both servers have a tool in common, one file names a server twice,
  one target drops a server; entries update one server and add another. Edits,
  refreshes and registrations are not bounded. HealthCheck is called twice, which
  is one call that overlaps another or comes after it; the calls are a symmetry
  set, and no liveness is checked.
- Service: one request may be pruned for the other, and either may be cancelled
  at any moment, after a restart as well; crashes and restarts are not bounded.

Deadlock is not checked where the system really stops: all tasks are over, the
planner has answered, the pool is closed and idle.

### Fairness

- Pool: a dial ends and a connection is returned. The pool itself owes neither;
  they hold when the call notices the context, which the executor bounds by its
  timeout. `executor_deadline_hang` shows the transport for which it fails.
- Executor: a goroutine that can go on does; the timer fires; the consumer
  drains; a call whose context is done returns if its transport looks at it.
  Servers owe nothing. The goroutines of steps are strongly fair, each by itself:
  several may compete for one slot of the buffer, and Go queues blocked senders
  in order, so that none is passed over for ever.
- Coordinator: handlers and runs that have started make progress; nobody has to
  submit, cancel or disconnect. That a run leaves the executor is `Ends`.
- Planner: the functions are called and are sequential.
- ToolCall: a goroutine that can go on does, every task is stopped in the end
  (its timer), and the kernel kills. Servers owe nothing, not even an answer. The
  fairness says nothing about `Over`: a task's Execute returns only after its
  calls.
- Registry and Service state safety and steps only.

## 4. Findings

Each is a run that ends in a counterexample, and an entry of `findings`.

1. `executor_deadline_hang`: the WebSocket transport's Send and Recv ignore the
   context, so a silent server holds a task past every timeout.
2. `coordinator_cancel_lost`: between the Save as running and the registration
   of the cancel function a cancellation is accepted and has no effect.
3. `coordinator_id_reuse`: a run gives up its cancel entry by ID, after its client
   was told the end. If the client has submitted another task under the ID, the
   entry is that task's, and cancelling it is accepted and has no effect.
4. `toolcall_reuse`: a stdio server is started under the context of the task that
   dials. When that task ends the process is killed, but its connection is in the
   pool as healthy, and the next task that takes it fails. `StdioCallsEnd` is the
   other side of it: a call on a stdio server ends even if the server is silent,
   but with the context of the task that dialled, which may not be its own.

Where a property carries a condition, the condition marks what the code does not
guarantee, and a reader should know it:

- `AnswersMatch` excepts transports whose server sent a notification: the code
  takes it for the response, and every later response on the connection is then
  one call late.
- `ClientsWait`: a cancellation that overlaps Execute's check and write of
  the status is undone by that write, and one of a task that a failed Save left
  `running` is accepted without effect. `FileAgrees` holds for clients that cancel
  at any time, but excepts the tasks whose status CancelTask wrote itself
  (`withdrawn`): having found a task pending, it may overwrite the end of a run
  that began and finished meanwhile.
- Distinct IDs (`Service`, `Distinct` in `CoordinatorProofs`, the instance of
  `coordinator_cancel`): two requests with one ID can both start the same Task
  object, and where the second waits for the end of the first, what the first
  still does by ID hits the second: the removal of the cancel entry (the finding
  above), the last Save, and a pruning that listed the first.
- `IndexExact` excepts servers whose entry replaced another one without being
  unregistered: references of the old entry stay. `HealthApplied` excepts names
  changed since the snapshot: the new server gets the old one's result. Of two
  health checks that overlap, the answer of either may stay, that of the first as
  well.
- pruneHistory drops one task per submission, so tasks that finish together leave
  more finished tasks than MaxHistory; no bound is stated.
- After a restart a task stored as running stays so: nothing runs it, CancelTask
  accepts it without effect, and pruning counts it but never deletes it. A task
  whose final Save fails or comes too late is stored as running although its
  client was told the end; `FileAgrees` says that it is never stored with another
  end.

## 5. Proofs

`PoolProofs` proves, for any finite set of callers, any servers, connections and
limits (`PoolAssumption`):

| Theorem | States |
|---|---|
| `TypeCorrect` | `Spec => []TypeOK`, with activeCount between 0 and MaxOpen |
| `ActiveCountExact` | `Spec => []ActiveIsExact` |
| `LimitHolds` | `Spec => []WithinLimits` |
| `ConnectionsExclusive` | `Spec => []ExclusiveUse` |
| `NothingLeaks` | `Spec => []NoLeak` |
| `CloseDrains` | `Spec => [][Drains]_vars` |
| `ClosedAtRest` | `Spec => []RestIsReleased` |

They rest on one inductive invariant, `IInv`. None of the properties is
inductive alone: the bound on active plus idle connections needs the exact
counter; the counter needs to know that a held connection carries the name of
the server its caller asked for (Put decrements by `ServerName`, Get increments
by its argument); and that a fresh dial is owned by nobody needs `NoLeak`. The
lemmas on `SubSeq` and `Append` at the head of the module say what taking,
appending and reaping do to the members of an idle list. The last two theorems
are what is safety in `CloseReleasesAll`: after Close each step lowers a natural
number (what callers have left to do), no Get raises it, and where it cannot go
lower nothing is open; a dial in flight is a caller with two steps to go.

`CoordinatorProofs` proves, for any finite set of requests, any cancellations,
IDs and MaxHistory (`CoordinatorAssumption`):

| Theorem | States | Assuming |
|---|---|---|
| `TypeCorrect` | `Spec => []TypeOK` | - |
| `CancelsAreExact` | `Spec => []CancelsExact` | `Distinct` |
| `CancellationWorks` | `Spec => []CancelTakesEffect` | `Distinct`, `ClientsWait` |
| `RunningIsStored` | `Spec => []ActiveIsStored` | `Distinct`, `ClientsWait` |
| `EndedRunsAreOver` | `Spec => []RunIsOver` | `Distinct` |
| `OutcomeIsFinal` | `Spec => TerminalIsFinal` | `Distinct`, `ClientsWait` |
| `TasksLive` | `Spec => ImplementsTaskLife` | `Distinct`, `ClientsWait` |

`Distinct` says that no two tasks share an ID, `ClientsWait` that clients
cancel a task only after its first event, or when its submission has failed and
left it pending. Both are needed: `coordinator_id_reuse` shows what happens
without the first, even if clients wait, and `coordinator_cancel_lost` without the
second. So the theorems draw the line: inside it, the code's lack of a lock around a task does no harm. The
argument is in three layers. `Typed` needs only `Fresh`, that an unsubmitted
task has no creation time, for the clock not to overflow its type. `Own` adds
that everybody works on the object of the ID they were given, and a request on
its own (`Owned`); this makes the removal of cancel entries by ID exact. `Late`
adds what the second assumption buys: the status follows the program counter
(`Life`), a cancellation takes the branch for pending tasks only with a task that
no run will take (`Reached`),
the task that pruning is about to delete is still over (`Doomed`), and a task
that was submitted and is not over is stored (`Kept`).

`TasksLive` is the refinement: `Submit`, `ExecuteMark`, `ExecutorEnds`,
`CancelMark` are the four moves of a task's life, the last Save and the Delete
are `Forget`, `Disconnect` is `Leave`, a cancellation is `Accept` where it
returns, and all else stutters. The three layers are what makes each of these a
move of `TaskLife`: `Owned` that `ExecuteMark` still finds the task pending which
it checked two steps before, `Reached` that `CancelMark` does, `Kept` and
`Doomed` that only a task that is over is forgotten, and `CancelsExact` that an
accepted cancellation has asked the right run to stop. Outside the two
assumptions it fails, as `coordinator_cancel_lost` shows.

`FileStoreProofs` proves, for any callers, tasks and number of versions
(`FileStoreAssumption`):

| Theorem | States |
|---|---|
| `TypeCorrect` | `Spec => []TypeOK`, with the file never torn |
| `ReturnedIsDurable` | `Spec => []Durable` |
| `RestartRemembers` | `Spec => []Remembers` |
| `NothingRolledBack` | `Spec => NoRollback` |

The invariant `IInv` adds to the three properties what makes overlapping calls
safe: a call that is yet to take its snapshot will see every change made so far,
and the snapshot and the marshalled data of the one inside cover every task that
no later call is busy with (`Covers`); the temporary file it renames is the one
it wrote (`Written`); and a process that is down has no calls (`Quiet`). For
`NothingRolledBack` it needs `Newest` besides: what the call inside `flush` has
marshalled is no older than the file it is about to replace, because the mutex
is held from the snapshot to the rename and versions only grow, also over a
restart, which starts from the file.

`ExecutorProofs` proves, for any set of steps, any set of jobs whose plan fits
their graph, any buffer, and calls that notice the context or not
(`ExecutorAssumption`):

| Theorem | States |
|---|---|
| `TypeCorrect` | `Spec => []TypeOK` |
| `OrderRespected` | `Spec => []DependenciesFirst` |
| `ChannelSafe` | `Spec => []NoSendAfterClose` |
| `FailsFast` | `Spec => FailFast` |
| `DeclaredReferences` | `Spec => []DeclaredRefsResolve` |
| `EndIsTrue` | `Spec => []EndMatchesSteps` |
| `EventsInOrder` | `Spec => []EventProtocol` |
| `RunImplementsDag` | `Spec => ImplementsDagRun` |
| `NoDeadlock` | `Spec => []NeverStuck` |
| `RunsAreFinite` | `Spec => [][RunsDown]_vars` |

`IInv` relates what Execute knows to what its goroutines do: where the waves
before the current one ended (`Planned`, `WaveState`), what a goroutine's
position says of its step's status, output and error (`StepState`), and what
Execute's position says of them all (`MainState`). Two further invariants speak
of the history: who asked for a cancellation (`Asked`), and which events the log
holds of a step or of the task at each position (`Logged`). The refinement maps
the start and the end of a step and the choice of the end event to the actions
of `DagRun`, and every other step to a stutter.

`NoDeadlock` and `RunsAreFinite` are what is safety in `Ends`. The first is a case
split over `main` on the same invariant: the goroutine of Execute waits only for
goroutines of the current wave; one that is not done can go on, or is in a call,
or waits for room; and a full channel means that the consumer has something to
receive. The second gives every goroutine the number of steps it has left, `main`
the waves it has left, and counts the events not yet received once and everything
else twice, since a send makes one event and costs one step; every step of the
specification, cancellations and the deadline included, lowers the sum.

`PlannerProofs` proves, for any tasks (`PlannerAssumption`):

| Theorem | States |
|---|---|
| `TypeCorrect` | `Spec => []TypeOK` |
| `ValidateIsExact` | `Spec => []ValidateExact` |
| `StackIsAPath` | `Spec => []StackIsPath` |
| `PlanIsCorrect` | `Spec => []PlanCorrect` |
| `PlanIsEarliest` | `Spec => []PlanEarliest` |
| `PlanFitsExecutor` | `Spec => [](phase = "planned" => FitsExecutor)` |
| `PlannerTerminates` | `Spec => [][Shrinks]_vars` |

Of the search the invariant says which steps are finished (visited and off the
stack), that finished steps are closed under dependencies and on no cycle
(`Clean`), what each call on the stack has seen (`Seen`), and that a call is
upstream of all calls below it (`Path`); meeting a step of the stack then is a
cycle, and an empty stack with all roots done is a proof that there is none. Of
the waves it says that they are a plan for the steps that are not left
(`Placed`), that the counters count what is left (`Counted`), and who had to wait
(`Earliest`). That a round never comes up empty takes a well-founded argument
(`WaveExists`): among the steps left, one with a least set of upstream steps
depends on none of the others.

The two fit together: `PlanFitsExecutor` yields the finite set of steps, the graph
on it and the `WellPlanned` waves that `ExecutorAssumption` asks of a job.

`PlannerTerminates` is what is safety in `Decides`. The work left in the search is
the number of pairs of a step and one of its dependencies, or its end, that a call
of `hasCycle` has yet to see: the marks in `visited` keep a step from being
entered twice, so each iteration takes one away, whatever cycles there are. In
the planning it is the number of steps that no wave has, which every round
lowers, because `WaveExists`.

`ToolCallProofs` proves, for any steps, tasks, servers, transports and limits
(`PoolAssumption`, `ToolCallAssumption`):

| Theorem | States |
|---|---|
| `ImplementsPool` | `CallSpec => Spec` |
| `CallTypeCorrect` | `CallSpec => []CallTypeOK` |
| `AnswersAreOwn` | `CallSpec => []AnswersMatch` |
| `IdleConnectionsClean` | `CallSpec => []IdleIsClean` |
| `NoOrphans` | `CallSpec => []ChildrenOwned` |
| `CallsWithinLimits` | `CallSpec => []WithinLimits` |
| `StdioWaitsBounded` | `CallSpec => []WaitsAreBounded` |
| `OnlyOwnersKill` | `CallSpec => []ErrorsHaveOwner` |
| `ClosedLeavesNothing` | `CallSpec => []ClosedIsQuiet` |

Each action is an action of `Pool` or leaves the pool alone, which gives
`ImplementsPool`, and with it all of `PoolProofs` holds of a tool call; the proofs
use in particular that a connection has one owner. On that, the invariant says
that a transport is in the hands of the step that dials it or of the pool
(`Sockets`), and what its queues hold in the course of a call (`PairedAt`): one
message is on its way while the step waits, and none when it has its answer, has
not sent, or the connection is idle (`Rested`). That is why a protocol that
compares no IDs gives every step its own answer. It also shows the one thing it
rests on: a step never goes away from a connection that it gives back while its
answer is outstanding.

The last three are about processes. `Parents` follows the owner of a process
through dials, idle lists and reuses: every open transport of a stdio server has
one, so a step that waits for a silent server waits no longer than a task lasts
(`StdioCallsEnd` adds the fairness). `KilledByOwner` shows the reverse side and
marks out the finding `toolcall_reuse`: without failing servers, no call ever
fails but on a process whose owner's context is done. `ClosedLeavesNothing`
carries `ClosedAtRest` from the pool to the processes behind it.

`RegistryProofs` proves, for any names, tools, files and entries
(`RegistryAssumption`):

| Theorem | States |
|---|---|
| `TypeCorrect` | `Spec => []TypeOK` |
| `IndexIsExact` | `Spec => []IndexExact` |
| `HealthReaches` | `Spec => []HealthApplied` |

Loading is the hard step: that the entry kept for a name is the last one, and the
server indexed for a full reference is one that has the tool, is about the
greatest and least positions of a list. `IndexExact` is
inductive with `TypeOK`; `HealthApplied` needs that a server whose check has
begun, and that nobody changed since, is still registered (`Checked`), that a call
which has returned has nothing left to apply (`Phases`), so that an answer that
comes now is of a call that was not over when any other began, and that what
`HealthApplied` says holds from the moment one server has been checked (`Fresh`).

`ServiceProofs` proves, for any requests, cancellations and IDs and with any
number of crashes (`CoordinatorAssumption`, `ServiceAssumption`):

| Theorem | States |
|---|---|
| `PendingNeverRan` | `ServiceSpec => []PendingIsUntouched` |
| `ShutdownInterruptsNothing` | `ServiceSpec => GracefulFinishes` |
| `FileAgreesWithClients` | `ServiceSpec => []FileAgrees` |
| `CancelsExactAfterRestart` | `ServiceSpec => []CancelsExact` |

The first relates a request's place, the status of its object and the file: a
task reaches the executor only after the Save as running succeeded, and no later
write, failed write or restart makes the file say pending again. The second says
that a run has a handler waiting for it. The third follows the status from the
executor's end event through the error path, the last Save, other tasks' writes
of the same file and the load, for every task but those a CancelTask wrote to
(`Decided`). The fourth carries
`CancelsExact` over to a process that dies: the map and the runs go together. Here
distinct IDs are part of `ServiceAssumption`.

What stays with the model checker is liveness under fairness, which is out of the
prover's reach: `Ends`, `RunsSettle`, `CloseReleasesAll`, `Decides`,
`StdioCallsEnd`. For the first four the theorems say all that is not fairness:
that every step brings the end nearer (`RunsAreFinite`, `CloseDrains`,
`PlannerTerminates`), that somebody can take one until it is reached
(`NoDeadlock`), and that nothing but the promised state is there to be reached
(`EndedRunsAreOver`, `ClosedAtRest`, `EndIsTrue`, `ValidateIsExact`). A run of the
coordinator has no such measure of its own, because how long it lasts is the
executor's affair. `StdioCallsEnd` has `StdioWaitsBounded`. `StackIsAPath`,
`PlanIsEarliest`, `IdleConnectionsClean` and `OutcomeIsFinal` state
properties of their modules that no run lists, because others that are listed
rest on them or, like `TasksLive`, say more.

## 6. Not modelled

- The text of prompts, the LLM's answer and its HTTP call; the task it yields
  passes the Validate that `Planner` models, and the time it takes is the gap
  between `Accept` and `SubmitValid`.
- JSON and YAML encoding, flags, logging, the handlers and commands that only
  read, and the one-shot command `run`, which is one request of `Coordinator`
  without a server.
- Durations: a timer may fire at any moment. So `WriteTimeout` against planning
  plus task timeout, and the reaper against the idle timeout, are choices.
- Data races on the fields of a `Task` as such: each field is read and written
  atomically in `Coordinator`; `FileStore` marshals a task that runs as a whole.
- The string side of interpolation (`interpolateString` cuts references out of
  text): `Executor` starts from the set of references. A string that begins with
  one reference and ends with another is taken for a single one
  (executor.go:477).
- Endpoints, the file formats of the registry, `DiscoverTools`, which stores
  nothing, and health checks of a server that hangs.
- The loss of files that were written but not synced when the machine stops: the
  code promises nothing of it.

## 7. Plan

1. `Executor` with `ToolCall`: a wave with more steps for one server than
   MaxOpen fails although nothing is wrong, because Get does not wait; and a
   single proof of what `Executor` assumes of a step.
2. `Service` against an abstract life of tasks that can lose a process: what
   `TaskLife` says of one process, for a task that is interrupted and found again.
3. `Interpolate`: references in strings, arrays and maps against a reference
   definition over short inputs.
4. `FileStore` as the store of `Service`: the file is one step there, which
   `FileStoreProofs` justifies in words; a refinement would do it in TLA+.
