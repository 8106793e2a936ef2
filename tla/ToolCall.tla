------------------------------ MODULE ToolCall ------------------------------
(***************************************************************************)
(* executor.executeStep on the connection pool: Pool with the messages on  *)
(* its connections, the peers behind them, and the contexts of the tasks   *)
(* whose steps make the calls.                                             *)
(*                                                                         *)
(* Every change of the pool is an action of Pool.  Here the dial that Pool *)
(* leaves open is the handshake of transport.Dial, the use of a connection *)
(* is one tools/call, and Put or Discard follow from how it went.  Behind  *)
(* a stdio transport is a child process that lives under the context of    *)
(* the task that dialled it; behind a WebSocket, a server of its own.      *)
(***************************************************************************)
EXTENDS Pool

CONSTANTS
    Tasks,     \* tasks; each gives its context to its dials and calls
    Stdio,     \* the servers whose endpoint is stdio://
    MaxCalls,  \* bound on requestIDCounter
    MayCrash,  \* whether servers fail by themselves: crash, or send garbage
    NoTask     \* no task: who runs no step, who dialled a WebSocket

ASSUME ToolCallAssumption ==
    /\ Stdio \subseteq Servers
    /\ MaxCalls \in Nat
    /\ MayCrash \in BOOLEAN
    /\ NoTask \notin Tasks

VARIABLES
    ctx,     \* per task: its context is live or done; Execute has returned
    task,    \* per caller: the task whose step it runs
    step,    \* per caller: its place in the dialler or in executeStep
    reqID,   \* per caller: reqID of its request
    answer,  \* per caller: the message it took for the response
    lastID,  \* requestIDCounter
    sock,    \* per caller: the transport whose handshake it performs
    dialer,  \* per transport: the task whose context owns its process
    peer,    \* per transport: the process or remote server behind it
    asked,   \* per transport: requests sent and not yet answered
    inbox,   \* per transport: messages sent by the peer and not yet received
    noisy    \* history: the transports whose peer sent what nobody asked for

callVars == <<ctx, task, step, reqID, answer, lastID, sock, dialer, peer, asked, inbox, noisy>>
allVars == <<vars, callVars>>

-----------------------------------------------------------------------------
\* Messages are told apart by the request they answer.
Hello == 0     \* initialize, and its response
Note == -1     \* a message no request asked for

Dialling == {sock[c] : c \in Callers} \ {NoConn}

CallInit ==
    /\ Init
    /\ ctx = [t \in Tasks |-> "live"]
    /\ task = [c \in Callers |-> NoTask]
    /\ step = [c \in Callers |-> "none"]
    /\ reqID = [c \in Callers |-> 0]
    /\ answer = [c \in Callers |-> 0]
    /\ lastID = 0
    /\ sock = [c \in Callers |-> NoConn]
    /\ dialer = [k \in Conns |-> NoTask]
    /\ peer = [k \in Conns |-> "none"]
    /\ asked = [k \in Conns |-> <<>>]
    /\ inbox = [k \in Conns |-> <<>>]
    /\ noisy = {}

\* Closing a transport ends and reaps its process: Close sends SIGTERM, kills
\* at once a child that is still there, and waits for it.
Hangup(closing) ==
    /\ peer' = [k \in Conns |-> IF k \in closing THEN "none" ELSE peer[k]]
    /\ dialer' = [k \in Conns |-> IF k \in closing THEN NoTask ELSE dialer[k]]
    /\ asked' = [k \in Conns |-> IF k \in closing THEN <<>> ELSE asked[k]]
    /\ inbox' = [k \in Conns |-> IF k \in closing THEN <<>> ELSE inbox[k]]
    /\ noisy' = noisy \ closing

-----------------------------------------------------------------------------
(* Dial, from a slot reserved in the pool to an initialized transport.     *)

\* The bound: no more calls begin once MaxCalls have sent a request or will.
Budget == lastID + Cardinality({c \in Callers : step[c] \in {"start", "init", "send"}}) < MaxCalls

\* executeStep starts with Get, for a step of a task whose Execute runs.
Begin(c, t, s) ==
    /\ Budget
    /\ ctx[t] # "over"
    /\ task' = [task EXCEPT ![c] = t]
    /\ \/ GetHit(c, s) /\ step' = [step EXCEPT ![c] = "send"]
       \/ GetReserve(c, s) /\ step' = [step EXCEPT ![c] = "start"]
    /\ UNCHANGED <<ctx, reqID, answer, lastID, sock, dialer, peer, asked, inbox, noisy>>

\* Start the child under the task's context, or connect; ask to initialize.
Connect(c) ==
    /\ step[c] = "start"
    /\ ctx[task[c]] = "live"
    /\ \E k \in Conns \ (open \cup Dialling) :
        /\ sock' = [sock EXCEPT ![c] = k]
        /\ dialer' = [dialer EXCEPT ![k] = IF server[c] \in Stdio THEN task[c] ELSE NoTask]
        /\ peer' = [peer EXCEPT ![k] = "up"]
        /\ asked' = [asked EXCEPT ![k] = <<Hello>>]
    /\ step' = [step EXCEPT ![c] = "init"]
    /\ UNCHANGED <<vars, ctx, task, reqID, answer, lastID, inbox, noisy>>

\* Faulty variant: the slot reserved by Get is not given up.
ConnectFailsQuietly(c) ==
    /\ step[c] = "start"
    /\ step' = [step EXCEPT ![c] = "none"]
    /\ UNCHANGED <<vars, ctx, task, reqID, answer, lastID, sock, dialer, peer, asked, inbox, noisy>>

\* No such server or binary, no connection, or the context is done.
ConnectFails(c) ==
    /\ step[c] = "start"
    /\ DialErr(c)
    /\ step' = [step EXCEPT ![c] = "none"]
    /\ task' = [task EXCEPT ![c] = NoTask]
    /\ UNCHANGED <<ctx, reqID, answer, lastID, sock, dialer, peer, asked, inbox, noisy>>

\* The next message is taken for the response; "initialized" is sent.
Initialize(c) ==
    /\ step[c] = "init"
    /\ inbox[sock[c]] # <<>>
    /\ peer[sock[c]] = "up"
    /\ inbox' = [inbox EXCEPT ![sock[c]] = Tail(@)]
    /\ DialOk(c)
    /\ conn'[c] = sock[c]
    /\ sock' = [sock EXCEPT ![c] = NoConn]
    /\ step' = [step EXCEPT ![c] = "send"]
    /\ UNCHANGED <<ctx, task, reqID, answer, lastID, dialer, peer, asked, noisy>>

\* Faulty variant: the transport is not closed.
InitializeFailsOpen(c) ==
    /\ step[c] = "init"
    /\ inbox[sock[c]] # <<>> \/ peer[sock[c]] = "down"
    /\ DialErr(c)
    /\ sock' = [sock EXCEPT ![c] = NoConn]
    /\ step' = [step EXCEPT ![c] = "none"]
    /\ task' = [task EXCEPT ![c] = NoTask]
    /\ UNCHANGED <<ctx, reqID, answer, lastID, dialer, peer, asked, inbox, noisy>>

\* The peer answers with an error or with something that is no message, or it is
\* gone; the transport is closed again.
InitializeFails(c) ==
    /\ step[c] = "init"
    /\ inbox[sock[c]] # <<>> \/ peer[sock[c]] = "down"
    /\ Hangup({sock[c]})
    /\ DialErr(c)
    /\ sock' = [sock EXCEPT ![c] = NoConn]
    /\ step' = [step EXCEPT ![c] = "none"]
    /\ task' = [task EXCEPT ![c] = NoTask]
    /\ UNCHANGED <<ctx, reqID, answer, lastID>>

-----------------------------------------------------------------------------
(* The call.  Neither Send nor Recv looks at the context.                  *)

Send(c) ==
    /\ step[c] = "send"
    /\ lastID' = lastID + 1
    /\ reqID' = [reqID EXCEPT ![c] = lastID + 1]
    /\ \/ /\ peer[conn[c]] = "up"
          /\ asked' = [asked EXCEPT ![conn[c]] = Append(@, lastID + 1)]
          /\ step' = [step EXCEPT ![c] = "recv"]
       \/ /\ peer[conn[c]] = "down"
          /\ step' = [step EXCEPT ![c] = "error"]
          /\ UNCHANGED asked
    /\ UNCHANGED <<vars, ctx, task, answer, sock, dialer, peer, inbox, noisy>>

\* Faulty variant: a step whose context is done no longer waits, and its error
\* is not one of the transport.
RecvUntilDone(c) ==
    /\ step[c] = "recv"
    /\ \/ /\ inbox[conn[c]] # <<>>
          /\ answer' = [answer EXCEPT ![c] = Head(inbox[conn[c]])]
          /\ inbox' = [inbox EXCEPT ![conn[c]] = Tail(@)]
       \/ /\ ctx[task[c]] # "live"
          /\ answer' = [answer EXCEPT ![c] = reqID[c]]
          /\ UNCHANGED inbox
    /\ step' = [step EXCEPT ![c] = "answered"]
    /\ UNCHANGED <<vars, ctx, task, reqID, lastID, sock, dialer, peer, asked, noisy>>

\* The next message on the connection is the response, whatever its ID.
Recv(c) ==
    /\ step[c] = "recv"
    /\ inbox[conn[c]] # <<>>
    /\ answer' = [answer EXCEPT ![c] = Head(inbox[conn[c]])]
    /\ inbox' = [inbox EXCEPT ![conn[c]] = Tail(@)]
    /\ step' = [step EXCEPT ![c] = "answered"]
    /\ UNCHANGED <<vars, ctx, task, reqID, lastID, sock, dialer, peer, asked, noisy>>

\* The peer is gone and what it sent has been read, or the next message cannot
\* be parsed, whether the peer lives or not.
RecvFails(c) ==
    /\ step[c] = "recv"
    /\ \/ inbox[conn[c]] = <<>> /\ peer[conn[c]] = "down" /\ UNCHANGED inbox
       \/ /\ MayCrash
          /\ inbox[conn[c]] # <<>>
          /\ inbox' = [inbox EXCEPT ![conn[c]] = Tail(@)]
    /\ step' = [step EXCEPT ![c] = "error"]
    /\ UNCHANGED <<vars, ctx, task, reqID, answer, lastID, sock, dialer, peer, asked, noisy>>

\* callErr decides: any answer, an error too, keeps the connection.
GivesBack(c) ==
    \/ step[c] = "answered" /\ Put(c)
    \/ step[c] = "error" /\ Discard(c)

Finish(c) ==
    /\ step[c] \in {"answered", "error"}
    /\ GivesBack(c)
    /\ Hangup(open \ open')
    /\ step' = [step EXCEPT ![c] = "none"]
    /\ reqID' = [reqID EXCEPT ![c] = 0]
    /\ answer' = [answer EXCEPT ![c] = 0]
    /\ task' = [task EXCEPT ![c] = NoTask]
    /\ UNCHANGED <<ctx, lastID, sock>>

-----------------------------------------------------------------------------
(* Peers, contexts, and the rest of the pool.                              *)

Answer(k) ==
    /\ peer[k] = "up"
    /\ asked[k] # <<>>
    /\ asked' = [asked EXCEPT ![k] = Tail(@)]
    /\ inbox' = [inbox EXCEPT ![k] = Append(@, Head(asked[k]))]
    /\ UNCHANGED <<vars, ctx, task, step, reqID, answer, lastID, sock, dialer, peer, noisy>>

\* A log message, a progress notification, a changed tool list.  The bound: at
\* most one transport at a time has sent one, and only one.
Notify(k) ==
    /\ peer[k] = "up"
    /\ noisy = {}
    /\ inbox' = [inbox EXCEPT ![k] = Append(@, Note)]
    /\ noisy' = noisy \cup {k}
    /\ UNCHANGED <<vars, ctx, task, step, reqID, answer, lastID, sock, dialer, peer, asked>>

Crash(k) ==
    /\ MayCrash
    /\ peer[k] = "up"
    /\ peer' = [peer EXCEPT ![k] = "down"]
    /\ UNCHANGED <<vars, ctx, task, step, reqID, answer, lastID, sock, dialer, asked, inbox, noisy>>

\* Faulty variant: exec.Command in place of exec.CommandContext.
KilledNever(k) == FALSE

Killed(k) == dialer[k] # NoTask /\ ctx[dialer[k]] # "live"

\* exec.CommandContext kills the child of a context that is done.
Kill(k) ==
    /\ peer[k] = "up"
    /\ Killed(k)
    /\ peer' = [peer EXCEPT ![k] = "down"]
    /\ UNCHANGED <<vars, ctx, task, step, reqID, answer, lastID, sock, dialer, asked, inbox, noisy>>

\* Cancellation, timeout, or the client is gone.
Stop(t) ==
    /\ ctx[t] = "live"
    /\ ctx' = [ctx EXCEPT ![t] = "done"]
    /\ UNCHANGED <<vars, task, step, reqID, answer, lastID, sock, dialer, peer, asked, inbox, noisy>>

\* Execute returns once its steps are over, and its defer ends the context.
Over(t) ==
    /\ ctx[t] # "over"
    /\ \A c \in Callers : pc[c] # "out" => task[c] # t
    /\ ctx' = [ctx EXCEPT ![t] = "over"]
    /\ UNCHANGED <<vars, task, step, reqID, answer, lastID, sock, dialer, peer, asked, inbox, noisy>>

PoolOnly ==
    /\ Close \/ Reap
    /\ Hangup(open \ open')
    /\ UNCHANGED <<ctx, task, step, reqID, answer, lastID, sock>>

-----------------------------------------------------------------------------
CallerNext(c) ==
    \/ Connect(c) \/ ConnectFails(c) \/ Initialize(c) \/ InitializeFails(c)
    \/ Send(c) \/ Recv(c) \/ RecvFails(c) \/ Finish(c)

CallNext ==
    \/ \E c \in Callers, t \in Tasks, s \in Servers : Begin(c, t, s)
    \/ \E c \in Callers : CallerNext(c)
    \/ \E k \in Conns : Answer(k) \/ Notify(k) \/ Crash(k) \/ Kill(k)
    \/ \E t \in Tasks : Stop(t) \/ Over(t)
    \/ PoolOnly

CallSpec == CallInit /\ [][CallNext]_allVars

\* A goroutine that can go on does, the timers of the tasks fire, and the
\* kernel kills.  Peers owe nothing.
CallFairness ==
    /\ \A c \in Callers : WF_allVars(CallerNext(c))
    /\ WF_allVars(\E k \in Conns : Kill(k))
    /\ WF_allVars(\E t \in Tasks : Stop(t))

CallFairSpec == CallSpec /\ CallFairness

-----------------------------------------------------------------------------
(* Properties.                                                             *)

Messages == Nat \cup {Note}

\* Where a step is in executeStep and where it is in the pool go together: the
\* slot it reserved is given up on every way out of the dialler.
CallTypeOK ==
    /\ ctx \in [Tasks -> {"live", "done", "over"}]
    /\ task \in [Callers -> Tasks \cup {NoTask}]
    /\ step \in [Callers -> {"none", "start", "init", "send", "recv", "answered", "error"}]
    /\ reqID \in [Callers -> Nat]
    /\ answer \in [Callers -> Messages]
    /\ lastID \in Nat
    /\ sock \in [Callers -> Conns \cup {NoConn}]
    /\ dialer \in [Conns -> Tasks \cup {NoTask}]
    /\ peer \in [Conns -> {"none", "up", "down"}]
    /\ asked \in [Conns -> Seq(Messages)]
    /\ inbox \in [Conns -> Seq(Messages)]
    /\ noisy \subseteq Conns
    /\ \A c \in Callers :
        /\ pc[c] = "out" <=> step[c] = "none"
        /\ pc[c] = "dialing" <=> step[c] \in {"start", "init"}
        /\ task[c] = NoTask <=> step[c] = "none"
        /\ sock[c] = NoConn <=> step[c] # "init"

\* The output of a step is the response to its own request, although nothing
\* compares IDs and connections pass from one task to the next, provided the
\* server sent nothing but responses on that connection.
AnswersMatch ==
    \A c \in Callers :
        step[c] = "answered" /\ conn[c] \notin noisy => answer[c] = reqID[c]

\* A connection in an idle list carries nothing of its earlier calls: no
\* response is still to be read or to be sent.
IdleIsClean ==
    \A k \in AllIdle \ noisy : inbox[k] = <<>> /\ asked[k] = <<>>

\* Every process that was started belongs to an open transport or to a dial in
\* progress; a handshake that fails leaves none behind.
ChildrenOwned ==
    \A k \in Conns : peer[k] # "none" <=> k \in open \cup Dialling

\* A step that calls a stdio server comes to an end even if the server never
\* answers: some task's context owns its process, and every task is stopped or
\* ends in the end, which is not always the task of the step.
StdioCallsEnd ==
    \A c \in Callers : pc[c] # "out" /\ server[c] \in Stdio ~> pc[c] = "out"

\* "Reuse MCP connections across requests": if no server fails by itself, the
\* call of a task that was not stopped finds its server running.
ReuseWorks ==
    ~MayCrash => \A c \in Callers : step[c] = "error" => ctx[task[c]] # "live"
=============================================================================
