--------------------------- MODULE ToolCallProofs ---------------------------
(***************************************************************************)
(* A tool call over the pool, for any number of steps, tasks, servers and  *)
(* transports.  ToolCall implements Pool, so what is proved of Pool holds  *)
(* of it; with that, connections are clean between calls although nothing  *)
(* ever compares the ID of a response, no process is left behind, and what *)
(* ends a process early is always the context it was started under.        *)
(***************************************************************************)
EXTENDS ToolCall, PoolProofs

Using(c) == pc[c] = "using"

(* The parts of CallTypeOK. *)
DataTyped ==
    /\ ctx \in [Tasks -> {"live", "done", "over"}]
    /\ task \in [Callers -> Tasks \cup {NoTask}]
    /\ step \in [Callers -> {"none", "start", "init", "send", "recv", "answered", "error"}]
    /\ reqID \in [Callers -> Nat]
    /\ answer \in [Callers -> Messages]
    /\ lastID \in Nat
    /\ sock \in [Callers -> Conns \cup {NoConn}]
    /\ dialer \in [Conns -> Tasks \cup {NoTask}]
    /\ peer \in [Conns -> {"none", "up", "down"}]
    /\ noisy \subseteq Conns

QueuesTyped == asked \in [Conns -> Seq(Messages)] /\ inbox \in [Conns -> Seq(Messages)]

Placed ==
    \A c \in Callers :
        /\ pc[c] = "out" <=> step[c] = "none"
        /\ pc[c] = "dialing" <=> step[c] \in {"start", "init"}
        /\ task[c] = NoTask <=> step[c] = "none"
        /\ sock[c] = NoConn <=> step[c] # "init"

(* A transport is in the hands of the step that dials it, then of the pool. *)
Sockets ==
    /\ \A c, d \in Callers : sock[c] = sock[d] /\ sock[c] # NoConn => c = d
    /\ \A c \in Callers : sock[c] \notin open
    /\ ChildrenOwned

Empty(k) == asked[k] = <<>> /\ inbox[k] = <<>>

(* One message is on its way, as a request or as its response. *)
OnItsWay(k, m) ==
    \/ asked[k] = <<m>> /\ inbox[k] = <<>>
    \/ asked[k] = <<>> /\ inbox[k] = <<m>>

(* What is on a transport, as long as its peer sends nothing unasked: on one
   that is closed, on one that nobody uses, and in the course of a call. *)
Silent == \A k \in Conns : peer[k] = "none" => Empty(k) /\ k \notin noisy

RestAt(k) == k \notin noisy /\ (\A c \in Callers : Using(c) => conn[c] # k) => Empty(k)

Rested == \A k \in open : RestAt(k)

PairedAt(c) ==
    /\ step[c] = "init" /\ sock[c] \notin noisy => OnItsWay(sock[c], Hello)
    /\ step[c] = "send" /\ conn[c] \notin noisy => Empty(conn[c])
    /\ step[c] = "recv" /\ conn[c] \notin noisy => OnItsWay(conn[c], reqID[c])
    /\ step[c] = "answered" /\ conn[c] \notin noisy => Empty(conn[c]) /\ answer[c] = reqID[c]

Paired == \A c \in Callers : PairedAt(c)

Clean == Silent /\ Rested /\ Paired

-----------------------------------------------------------------------------
(* ToolCall implements Pool. *)
LEMMA StepImplements == ASSUME [CallNext]_allVars PROVE [Next]_vars
<1>1. ASSUME NEW c \in Callers, NEW t \in Tasks, NEW s \in Servers, Begin(c, t, s)
      PROVE  Next
  BY <1>1 DEF Begin, Next
<1>2. ASSUME NEW c \in Callers, ConnectFails(c) \/ Initialize(c) \/ InitializeFails(c) \/ Finish(c)
      PROVE  Next
  BY <1>2 DEF ConnectFails, Initialize, InitializeFails, Finish, GivesBack, Next
<1>3. ASSUME NEW c \in Callers, Connect(c) \/ Send(c) \/ Recv(c) \/ RecvFails(c)
      PROVE  UNCHANGED vars
  BY <1>3 DEF Connect, Send, Recv, RecvFails
<1>4. ASSUME NEW k \in Conns, Answer(k) \/ Notify(k) \/ Crash(k) \/ Kill(k)
      PROVE  UNCHANGED vars
  BY <1>4 DEF Answer, Notify, Crash, Kill
<1>5. ASSUME NEW t \in Tasks, Stop(t) \/ Over(t)
      PROVE  UNCHANGED vars
  BY <1>5 DEF Stop, Over
<1>6. PoolOnly => Next
  BY DEF PoolOnly, Next
<1>7. UNCHANGED allVars => UNCHANGED vars
  BY DEF allVars
<1> QED BY <1>1, <1>2, <1>3, <1>4, <1>5, <1>6, <1>7 DEF CallNext, CallerNext

(* Everything proved of Pool holds of ToolCall. *)
THEOREM ImplementsPool == CallSpec => Spec
<1>1. CallInit => Init
  BY DEF CallInit
<1> QED BY <1>1, StepImplements, PTL DEF CallSpec, Spec

LEMMA PoolInvariant == CallSpec => []IInv
BY ImplementsPool, InductiveInvariant, PoolAssumption, PTL

-----------------------------------------------------------------------------
(* What the actions of Pool mean for who has which transport. *)
LEMMA Owners ==
    ASSUME IInv
    PROVE  /\ open \subseteq Conns /\ NoConn \notin open
           /\ \A c \in Callers : Using(c) => conn[c] \in open
           /\ \A c, d \in Callers : Using(c) /\ Using(d) /\ conn[c] = conn[d] => c = d
           /\ \A k \in AllIdle : k \in open /\ \A c \in Callers : Using(c) => conn[c] # k
BY PoolAssumption DEF IInv, TypeOK, NoLeak, Held, AllIdle, ExclusiveUse, Using

LEMMA HitFacts ==
    ASSUME IInv, IInv', NEW c \in Callers, NEW s \in Servers, GetHit(c, s)
    PROVE  /\ pc[c] = "out" /\ open' = open
           /\ \A d \in Callers : pc'[d] = IF d = c THEN "using" ELSE pc[d]
           /\ \A d \in Callers : d # c => conn'[d] = conn[d]
           /\ conn'[c] \in open /\ \A d \in Callers : Using(d) => conn[d] # conn'[c]
<1>1. /\ pc[c] = "out" /\ open' = open
      /\ \A d \in Callers : pc'[d] = IF d = c THEN "using" ELSE pc[d]
      /\ \A d \in Callers : d # c => conn'[d] = conn[d]
  BY DEF GetHit, IInv, TypeOK
<1>2. conn'[c] \in open /\ \A d \in Callers : Using(d) => conn[d] # conn'[c]
  <2>1. Held' \subseteq open' /\ conn'[c] \in Held'
    BY <1>1 DEF IInv, NoLeak, Held
  <2>2. \A d \in Callers : pc'[d] = "using" /\ conn'[d] = conn'[c] => d = c
    BY <1>1 DEF IInv, ExclusiveUse
  <2> QED BY <1>1, <2>1, <2>2 DEF Using
<1> QED BY <1>1, <1>2

LEMMA ReturnFacts ==
    ASSUME IInv, NEW c \in Callers, NEW healthy \in BOOLEAN, Return(c, healthy)
    PROVE  /\ Using(c) /\ open' \in {open, open \ {conn[c]}}
           /\ ~healthy => open' = open \ {conn[c]}
           /\ \A d \in Callers : pc'[d] = IF d = c THEN "out" ELSE pc[d]
           /\ \A d \in Callers : d # c => conn'[d] = conn[d]
BY DEF Return, Keeps, Shelve, Drop, IInv, TypeOK, Using

LEMMA CloseFacts ==
    ASSUME IInv, IInv', Close \/ Reap
    PROVE  /\ open' \subseteq open /\ UNCHANGED <<pc, conn>>
           /\ \A c \in Callers : Using(c) => conn[c] \in open'
<1>1. open' \subseteq open /\ UNCHANGED <<pc, conn>>
  BY DEF Close, Reap
<1>2. \A c \in Callers : Using(c) => conn[c] \in open'
  BY <1>1 DEF IInv, NoLeak, Held, Using
<1> QED BY <1>1, <1>2

LEMMA MessageFacts ==
    /\ Nat \subseteq Messages /\ Hello \in Messages /\ Note \in Messages
    /\ <<>> \in Seq(Messages)
    /\ \A m \in Messages : <<m>> \in Seq(Messages)
BY DEF Messages, Hello, Note

LEMMA QueueTyped ==
    ASSUME NEW S, NEW q \in Seq(S)
    PROVE  /\ \A m \in S : Append(q, m) \in Seq(S)
           /\ q # <<>> => Tail(q) \in Seq(S) /\ Head(q) \in S
OBVIOUS

LEMMA QueueOne ==
    ASSUME NEW m
    PROVE  /\ Head(<<m>>) = m /\ Tail(<<m>>) = <<>> /\ Append(<<>>, m) = <<m>>
           /\ <<m>> # <<>>
OBVIOUS

(* From a reserved slot to a connection, or back. *)
LEMMA DialFacts ==
    ASSUME IInv, NEW c \in Callers
    PROVE  /\ DialOk(c) => /\ pc[c] = "dialing" /\ open' = open \cup {conn'[c]}
                           /\ \A d \in Callers : pc'[d] = IF d = c THEN "using" ELSE pc[d]
                           /\ \A d \in Callers : d # c => conn'[d] = conn[d]
           /\ DialErr(c) => /\ pc[c] = "dialing" /\ UNCHANGED <<open, conn>>
                            /\ \A d \in Callers : pc'[d] = IF d = c THEN "out" ELSE pc[d]
<1>1. /\ conn \in [Callers -> Conns \cup {NoConn}]
      /\ pc \in [Callers -> {"out", "dialing", "using"}]
  BY DEF IInv, TypeOK
<1>2. ASSUME DialOk(c)
      PROVE  /\ pc[c] = "dialing" /\ open' = open \cup {conn'[c]}
             /\ \A d \in Callers : pc'[d] = IF d = c THEN "using" ELSE pc[d]
             /\ \A d \in Callers : d # c => conn'[d] = conn[d]
  <2>1. PICK k \in Conns \ open : open' = open \cup {k} /\ conn' = [conn EXCEPT ![c] = k]
    BY <1>2 DEF DialOk
  <2>2. conn'[c] = k /\ \A d \in Callers : d # c => conn'[d] = conn[d]
    BY <1>1, <2>1
  <2> QED BY <1>1, <1>2, <2>1, <2>2 DEF DialOk
<1>3. ASSUME DialErr(c)
      PROVE  /\ pc[c] = "dialing" /\ UNCHANGED <<open, conn>>
             /\ \A d \in Callers : pc'[d] = IF d = c THEN "out" ELSE pc[d]
  BY <1>1, <1>3 DEF DialErr
<1> QED BY <1>2, <1>3

LEMMA ReserveFacts ==
    ASSUME IInv, NEW c \in Callers, NEW t \in Servers, GetReserve(c, t)
    PROVE  /\ pc[c] = "out" /\ UNCHANGED <<open, conn>>
           /\ \A d \in Callers : pc'[d] = IF d = c THEN "dialing" ELSE pc[d]
BY DEF GetReserve, IInv, TypeOK

(* Where a step is says which transport it has. *)
LEMMA Places ==
    ASSUME IInv, DataTyped, Placed
    PROVE  /\ \A c \in Callers : Using(c) <=> step[c] \in {"send", "recv", "answered", "error"}
           /\ \A c \in Callers : Using(c) => conn[c] \in Conns
           /\ \A c \in Callers : step[c] = "init" => sock[c] \in Conns
<1>1. \A c \in Callers : pc[c] \in {"out", "dialing", "using"}
  BY DEF IInv, TypeOK
<1>2. \A c \in Callers : /\ step[c] \in {"none", "start", "init", "send", "recv", "answered", "error"}
                         /\ sock[c] \in Conns \cup {NoConn}
  BY DEF DataTyped
<1>3. \A c \in Callers : Using(c) <=> step[c] \in {"send", "recv", "answered", "error"}
  BY <1>1, <1>2 DEF Placed, Using
<1>4. \A c \in Callers : step[c] = "init" => sock[c] \in Conns
  BY <1>2 DEF Placed
<1>5. \A c \in Callers : Using(c) => conn[c] \in Conns
  BY Owners
<1> QED BY <1>3, <1>4, <1>5

LEMMA DataStep ==
    ASSUME IInv, IInv', DataTyped, QueuesTyped, Placed, [CallNext]_allVars
    PROVE  DataTyped'
<1> USE PoolAssumption, ToolCallAssumption, MessageFacts, Owners DEF DataTyped
<1>1. ASSUME NEW c \in Callers, NEW t \in Tasks, NEW s \in Servers, Begin(c, t, s), GetHit(c, s), step' = [step EXCEPT ![c] = "send"]
      PROVE  DataTyped'
  BY <1>1, HitFacts DEF Begin
<1>2. ASSUME NEW c \in Callers, NEW t \in Tasks, NEW s \in Servers, Begin(c, t, s), GetReserve(c, s), step' = [step EXCEPT ![c] = "start"]
      PROVE  DataTyped'
  BY <1>2, ReserveFacts DEF Begin
<1>3. ASSUME NEW c \in Callers, Connect(c)
      PROVE  DataTyped'
  BY <1>3 DEF Connect, vars
<1>4. ASSUME NEW c \in Callers, ConnectFails(c)
      PROVE  DataTyped'
  BY <1>4, DialFacts DEF ConnectFails
<1>5. ASSUME NEW c \in Callers, Initialize(c)
      PROVE  DataTyped'
  BY <1>5, DialFacts DEF Initialize
<1>6. ASSUME NEW c \in Callers, InitializeFails(c)
      PROVE  DataTyped'
  BY <1>6, DialFacts, SMTT(30) DEF InitializeFails, Hangup
<1>7. ASSUME NEW c \in Callers, Send(c)
      PROVE  DataTyped'
  <2>1. lastID + 1 \in Nat
    OBVIOUS
  <2>2. step' \in {[step EXCEPT ![c] = "recv"], [step EXCEPT ![c] = "error"]}
    BY <1>7 DEF Send
  <2>3. /\ lastID' = lastID + 1 /\ reqID' = [reqID EXCEPT ![c] = lastID + 1]
        /\ UNCHANGED <<ctx, task, answer, sock, dialer, peer, noisy>>
    BY <1>7 DEF Send
  <2> QED BY <2>1, <2>2, <2>3
<1>8. ASSUME NEW c \in Callers, Recv(c)
      PROVE  DataTyped'
  <2>1. inbox[conn[c]] \in Seq(Messages) /\ inbox[conn[c]] # <<>> /\ step[c] = "recv"
    BY <1>8, Places DEF QueuesTyped, Recv
  <2>2. Head(inbox[conn[c]]) \in Messages
    BY <2>1, QueueTyped
  <2> QED BY <1>8, <2>2 DEF Recv
<1>9. ASSUME NEW c \in Callers, RecvFails(c)
      PROVE  DataTyped'
  BY <1>9 DEF RecvFails, vars
<1>10. ASSUME NEW c \in Callers, Finish(c)
      PROVE  DataTyped'
  BY <1>10, ReturnFacts, SMTT(30) DEF Finish, GivesBack, Put, Discard, Hangup
<1>11. ASSUME NEW k \in Conns, Answer(k)
      PROVE  DataTyped'
  BY <1>11 DEF Answer, vars
<1>12. ASSUME NEW k \in Conns, Notify(k)
      PROVE  DataTyped'
  BY <1>12 DEF Notify, vars
<1>13. ASSUME NEW k \in Conns, Crash(k)
      PROVE  DataTyped'
  BY <1>13 DEF Crash, vars
<1>14. ASSUME NEW k \in Conns, Kill(k)
      PROVE  DataTyped'
  BY <1>14 DEF Kill, vars
<1>15. ASSUME NEW t \in Tasks, Stop(t)
      PROVE  DataTyped'
  BY <1>15 DEF Stop, vars
<1>16. ASSUME NEW t \in Tasks, Over(t)
      PROVE  DataTyped'
  BY <1>16 DEF Over, vars
<1>17. ASSUME PoolOnly
      PROVE  DataTyped'
  BY <1>17, CloseFacts DEF PoolOnly, Hangup
<1>18. ASSUME UNCHANGED allVars
      PROVE  DataTyped'
  BY <1>18 DEF allVars, vars, callVars
<1> QED BY <1>1, <1>2, <1>3, <1>4, <1>5, <1>6, <1>7, <1>8, <1>9, <1>10, <1>11, <1>12, <1>13, <1>14, <1>15, <1>16, <1>17, <1>18 DEF CallNext, CallerNext, Begin

LEMMA QueuesStep ==
    ASSUME IInv, IInv', DataTyped, QueuesTyped, Placed, [CallNext]_allVars
    PROVE  QueuesTyped'
<1> USE PoolAssumption, ToolCallAssumption, MessageFacts, Owners DEF QueuesTyped
<1>1. ASSUME NEW c \in Callers, NEW t \in Tasks, NEW s \in Servers, Begin(c, t, s), GetHit(c, s), step' = [step EXCEPT ![c] = "send"]
      PROVE  QueuesTyped'
  BY <1>1, HitFacts DEF Begin
<1>2. ASSUME NEW c \in Callers, NEW t \in Tasks, NEW s \in Servers, Begin(c, t, s), GetReserve(c, s), step' = [step EXCEPT ![c] = "start"]
      PROVE  QueuesTyped'
  BY <1>2, ReserveFacts DEF Begin
<1>3. ASSUME NEW c \in Callers, Connect(c)
      PROVE  QueuesTyped'
  BY <1>3 DEF Connect, vars
<1>4. ASSUME NEW c \in Callers, ConnectFails(c)
      PROVE  QueuesTyped'
  BY <1>4, DialFacts DEF ConnectFails
<1>5. ASSUME NEW c \in Callers, Initialize(c)
      PROVE  QueuesTyped'
  <2>1. sock[c] \in Conns /\ inbox[sock[c]] # <<>>
    BY <1>5, Places DEF Initialize
  <2>2. Tail(inbox[sock[c]]) \in Seq(Messages)
    BY <2>1, QueueTyped
  <2> QED BY <1>5, <2>2 DEF Initialize
<1>6. ASSUME NEW c \in Callers, InitializeFails(c)
      PROVE  QueuesTyped'
  BY <1>6, DialFacts DEF InitializeFails, Hangup
<1>7. ASSUME NEW c \in Callers, Send(c)
      PROVE  QueuesTyped'
  <2>1. conn[c] \in Conns /\ lastID + 1 \in Messages
    BY <1>7, Places DEF DataTyped, Send
  <2>2. Append(asked[conn[c]], lastID + 1) \in Seq(Messages)
    BY <2>1, QueueTyped
  <2>3. asked' \in {asked, [asked EXCEPT ![conn[c]] = Append(asked[conn[c]], lastID + 1)]}
    BY <1>7 DEF Send
  <2>4. inbox' = inbox
    BY <1>7 DEF Send
  <2> DEFINE q == Append(asked[conn[c]], lastID + 1)
  <2>5. asked' \in {asked, [asked EXCEPT ![conn[c]] = q]} /\ q \in Seq(Messages)
    BY <2>2, <2>3
  <2> HIDE DEF q
  <2>6. asked' \in [Conns -> Seq(Messages)]
    BY <2>5, ZenonT(30) DEF QueuesTyped
  <2> QED BY <2>4, <2>6
<1>8. ASSUME NEW c \in Callers, Recv(c)
      PROVE  QueuesTyped'
  <2>1. conn[c] \in Conns /\ inbox[conn[c]] # <<>>
    BY <1>8, Places DEF Recv
  <2>2. Tail(inbox[conn[c]]) \in Seq(Messages)
    BY <2>1, QueueTyped
  <2> QED BY <1>8, <2>2 DEF Recv
<1>9. ASSUME NEW c \in Callers, RecvFails(c)
      PROVE  QueuesTyped'
  <2>1. conn[c] \in Conns /\ asked' = asked
    BY <1>9, Places DEF RecvFails
  <2>2. CASE inbox' = inbox
    BY <2>1, <2>2
  <2>3. CASE inbox[conn[c]] # <<>> /\ inbox' = [inbox EXCEPT ![conn[c]] = Tail(@)]
    <3>1. Tail(inbox[conn[c]]) \in Seq(Messages)
      BY <2>1, <2>3, QueueTyped
    <3> QED BY <2>1, <2>3, <3>1
  <2> QED BY <1>9, <2>2, <2>3 DEF RecvFails
<1>10. ASSUME NEW c \in Callers, Finish(c)
      PROVE  QueuesTyped'
  BY <1>10, ReturnFacts DEF Finish, GivesBack, Put, Discard, Hangup
<1>11. ASSUME NEW k \in Conns, Answer(k)
      PROVE  QueuesTyped'
  <2>1. Head(asked[k]) \in Messages /\ Tail(asked[k]) \in Seq(Messages)
    BY <1>11, QueueTyped DEF Answer
  <2>2. Append(inbox[k], Head(asked[k])) \in Seq(Messages)
    BY <2>1, QueueTyped
  <2> QED BY <1>11, <2>1, <2>2 DEF Answer
<1>12. ASSUME NEW k \in Conns, Notify(k)
      PROVE  QueuesTyped'
  <2>1. Append(inbox[k], Note) \in Seq(Messages)
    BY QueueTyped
  <2> QED BY <1>12, <2>1 DEF Notify
<1>13. ASSUME NEW k \in Conns, Crash(k)
      PROVE  QueuesTyped'
  BY <1>13 DEF Crash, vars
<1>14. ASSUME NEW k \in Conns, Kill(k)
      PROVE  QueuesTyped'
  BY <1>14 DEF Kill, vars
<1>15. ASSUME NEW t \in Tasks, Stop(t)
      PROVE  QueuesTyped'
  BY <1>15 DEF Stop, vars
<1>16. ASSUME NEW t \in Tasks, Over(t)
      PROVE  QueuesTyped'
  BY <1>16 DEF Over, vars
<1>17. ASSUME PoolOnly
      PROVE  QueuesTyped'
  BY <1>17, CloseFacts DEF PoolOnly, Hangup
<1>18. ASSUME UNCHANGED allVars
      PROVE  QueuesTyped'
  BY <1>18 DEF allVars, vars, callVars
<1> QED BY <1>1, <1>2, <1>3, <1>4, <1>5, <1>6, <1>7, <1>8, <1>9, <1>10, <1>11, <1>12, <1>13, <1>14, <1>15, <1>16, <1>17, <1>18 DEF CallNext, CallerNext, Begin

LEMMA PlacedStep ==
    ASSUME IInv, IInv', DataTyped, QueuesTyped, Placed, [CallNext]_allVars
    PROVE  Placed'
<1> USE PoolAssumption, ToolCallAssumption, MessageFacts, Owners DEF DataTyped, Placed, Using
<1>1. ASSUME NEW c \in Callers, NEW t \in Tasks, NEW s \in Servers, Begin(c, t, s), GetHit(c, s), step' = [step EXCEPT ![c] = "send"]
      PROVE  Placed'
  BY <1>1, HitFacts DEF Begin
<1>2. ASSUME NEW c \in Callers, NEW t \in Tasks, NEW s \in Servers, Begin(c, t, s), GetReserve(c, s), step' = [step EXCEPT ![c] = "start"]
      PROVE  Placed'
  BY <1>2, ReserveFacts DEF Begin
<1>3. ASSUME NEW c \in Callers, Connect(c)
      PROVE  Placed'
  BY <1>3 DEF Connect, vars
<1>4. ASSUME NEW c \in Callers, ConnectFails(c)
      PROVE  Placed'
  BY <1>4, DialFacts DEF ConnectFails
<1>5. ASSUME NEW c \in Callers, Initialize(c)
      PROVE  Placed'
  BY <1>5, DialFacts, SMTT(30) DEF Initialize
<1>6. ASSUME NEW c \in Callers, InitializeFails(c)
      PROVE  Placed'
  BY <1>6, DialFacts, SMTT(30) DEF InitializeFails, Hangup
<1>7. ASSUME NEW c \in Callers, Send(c)
      PROVE  Placed'
  BY <1>7 DEF Send, vars
<1>8. ASSUME NEW c \in Callers, Recv(c)
      PROVE  Placed'
  BY <1>8 DEF Recv, vars
<1>9. ASSUME NEW c \in Callers, RecvFails(c)
      PROVE  Placed'
  BY <1>9 DEF RecvFails, vars
<1>10. ASSUME NEW c \in Callers, Finish(c)
      PROVE  Placed'
  <2>1. PICK healthy \in BOOLEAN : Return(c, healthy)
    BY <1>10 DEF Finish, GivesBack, Put, Discard
  <2>2. \A d \in Callers : pc'[d] = IF d = c THEN "out" ELSE pc[d]
    BY <2>1, ReturnFacts
  <2>3. UNCHANGED sock /\ step' = [step EXCEPT ![c] = "none"] /\ task' = [task EXCEPT ![c] = NoTask]
    BY <1>10 DEF Finish
  <2>4. step[c] # "init"
    BY <1>10 DEF Finish
  <2> QED BY <2>2, <2>3, <2>4
<1>11. ASSUME NEW k \in Conns, Answer(k)
      PROVE  Placed'
  BY <1>11 DEF Answer, vars
<1>12. ASSUME NEW k \in Conns, Notify(k)
      PROVE  Placed'
  BY <1>12 DEF Notify, vars
<1>13. ASSUME NEW k \in Conns, Crash(k)
      PROVE  Placed'
  BY <1>13 DEF Crash, vars
<1>14. ASSUME NEW k \in Conns, Kill(k)
      PROVE  Placed'
  BY <1>14 DEF Kill, vars
<1>15. ASSUME NEW t \in Tasks, Stop(t)
      PROVE  Placed'
  BY <1>15 DEF Stop, vars
<1>16. ASSUME NEW t \in Tasks, Over(t)
      PROVE  Placed'
  BY <1>16 DEF Over, vars
<1>17. ASSUME PoolOnly
      PROVE  Placed'
  BY <1>17, CloseFacts DEF PoolOnly, Hangup
<1>18. ASSUME UNCHANGED allVars
      PROVE  Placed'
  BY <1>18 DEF allVars, vars, callVars
<1> QED BY <1>1, <1>2, <1>3, <1>4, <1>5, <1>6, <1>7, <1>8, <1>9, <1>10, <1>11, <1>12, <1>13, <1>14, <1>15, <1>16, <1>17, <1>18 DEF CallNext, CallerNext, Begin

LEMMA SocketsStep ==
    ASSUME IInv, IInv', DataTyped, QueuesTyped, Placed, Sockets, [CallNext]_allVars
    PROVE  Sockets'
<1> USE PoolAssumption, ToolCallAssumption, MessageFacts, Owners DEF DataTyped, Placed, Sockets, ChildrenOwned, Dialling
<1>1. ASSUME NEW c \in Callers, NEW t \in Tasks, NEW s \in Servers, Begin(c, t, s), GetHit(c, s), step' = [step EXCEPT ![c] = "send"]
      PROVE  Sockets'
  BY <1>1, HitFacts DEF Begin
<1>2. ASSUME NEW c \in Callers, NEW t \in Tasks, NEW s \in Servers, Begin(c, t, s), GetReserve(c, s), step' = [step EXCEPT ![c] = "start"]
      PROVE  Sockets'
  BY <1>2, ReserveFacts DEF Begin
<1>3. ASSUME NEW c \in Callers, Connect(c)
      PROVE  Sockets'
  BY <1>3 DEF Connect, vars
<1>4. ASSUME NEW c \in Callers, ConnectFails(c)
      PROVE  Sockets'
  BY <1>4, DialFacts DEF ConnectFails
<1>5. ASSUME NEW c \in Callers, Initialize(c)
      PROVE  Sockets'
  BY <1>5, DialFacts DEF Initialize
<1>6. ASSUME NEW c \in Callers, InitializeFails(c)
      PROVE  Sockets'
  BY <1>6, DialFacts DEF InitializeFails, Hangup
<1>7. ASSUME NEW c \in Callers, Send(c)
      PROVE  Sockets'
  BY <1>7 DEF Send, vars
<1>8. ASSUME NEW c \in Callers, Recv(c)
      PROVE  Sockets'
  BY <1>8 DEF Recv, vars
<1>9. ASSUME NEW c \in Callers, RecvFails(c)
      PROVE  Sockets'
  BY <1>9 DEF RecvFails, vars
<1>10. ASSUME NEW c \in Callers, Finish(c)
      PROVE  Sockets'
  <2>1. PICK healthy \in BOOLEAN : Return(c, healthy)
    BY <1>10 DEF Finish, GivesBack, Put, Discard
  <2>2. open' \subseteq open
    BY <2>1, ReturnFacts
  <2>3. sock' = sock
    BY <1>10 DEF Finish
  <2>4. \A k \in Conns : peer'[k] = IF k \in open \ open' THEN "none" ELSE peer[k]
    BY <1>10 DEF Finish, Hangup
  <2> QED BY <2>2, <2>3, <2>4
<1>11. ASSUME NEW k \in Conns, Answer(k)
      PROVE  Sockets'
  BY <1>11 DEF Answer, vars
<1>12. ASSUME NEW k \in Conns, Notify(k)
      PROVE  Sockets'
  BY <1>12 DEF Notify, vars
<1>13. ASSUME NEW k \in Conns, Crash(k)
      PROVE  Sockets'
  BY <1>13 DEF Crash, vars
<1>14. ASSUME NEW k \in Conns, Kill(k)
      PROVE  Sockets'
  BY <1>14 DEF Kill, vars
<1>15. ASSUME NEW t \in Tasks, Stop(t)
      PROVE  Sockets'
  BY <1>15 DEF Stop, vars
<1>16. ASSUME NEW t \in Tasks, Over(t)
      PROVE  Sockets'
  BY <1>16 DEF Over, vars
<1>17. ASSUME PoolOnly
      PROVE  Sockets'
  BY <1>17, CloseFacts DEF PoolOnly, Hangup
<1>18. ASSUME UNCHANGED allVars
      PROVE  Sockets'
  BY <1>18 DEF allVars, vars, callVars
<1> QED BY <1>1, <1>2, <1>3, <1>4, <1>5, <1>6, <1>7, <1>8, <1>9, <1>10, <1>11, <1>12, <1>13, <1>14, <1>15, <1>16, <1>17, <1>18 DEF CallNext, CallerNext, Begin

LEMMA SilentStep ==
    ASSUME IInv, IInv', DataTyped, QueuesTyped, Placed, Sockets, Clean, [CallNext]_allVars
    PROVE  Silent'
<1> USE PoolAssumption, ToolCallAssumption, MessageFacts, Owners DEF DataTyped, QueuesTyped, Placed, Silent, Clean, Empty
<1>1. ASSUME NEW c \in Callers, NEW t \in Tasks, NEW s \in Servers, Begin(c, t, s), GetHit(c, s), step' = [step EXCEPT ![c] = "send"]
      PROVE  Silent'
  BY <1>1, HitFacts DEF Begin
<1>2. ASSUME NEW c \in Callers, NEW t \in Tasks, NEW s \in Servers, Begin(c, t, s), GetReserve(c, s), step' = [step EXCEPT ![c] = "start"]
      PROVE  Silent'
  BY <1>2, ReserveFacts DEF Begin
<1>3. ASSUME NEW c \in Callers, Connect(c)
      PROVE  Silent'
  BY <1>3 DEF Connect, vars
<1>4. ASSUME NEW c \in Callers, ConnectFails(c)
      PROVE  Silent'
  BY <1>4, DialFacts DEF ConnectFails
<1>5. ASSUME NEW c \in Callers, Initialize(c)
      PROVE  Silent'
  BY <1>5, DialFacts DEF Initialize
<1>6. ASSUME NEW c \in Callers, InitializeFails(c)
      PROVE  Silent'
  BY <1>6, DialFacts DEF InitializeFails, Hangup
<1>7. ASSUME NEW c \in Callers, Send(c)
      PROVE  Silent'
  BY <1>7 DEF Send, vars
<1>8. ASSUME NEW c \in Callers, Recv(c)
      PROVE  Silent'
  BY <1>8 DEF Recv, vars
<1>9. ASSUME NEW c \in Callers, RecvFails(c)
      PROVE  Silent'
  BY <1>9 DEF RecvFails, vars
<1>10. ASSUME NEW c \in Callers, Finish(c)
      PROVE  Silent'
  BY <1>10, ReturnFacts DEF Finish, GivesBack, Put, Discard, Hangup
<1>11. ASSUME NEW k \in Conns, Answer(k)
      PROVE  Silent'
  BY <1>11 DEF Answer, vars
<1>12. ASSUME NEW k \in Conns, Notify(k)
      PROVE  Silent'
  BY <1>12 DEF Notify, vars
<1>13. ASSUME NEW k \in Conns, Crash(k)
      PROVE  Silent'
  BY <1>13 DEF Crash, vars
<1>14. ASSUME NEW k \in Conns, Kill(k)
      PROVE  Silent'
  BY <1>14 DEF Kill, vars
<1>15. ASSUME NEW t \in Tasks, Stop(t)
      PROVE  Silent'
  BY <1>15 DEF Stop, vars
<1>16. ASSUME NEW t \in Tasks, Over(t)
      PROVE  Silent'
  BY <1>16 DEF Over, vars
<1>17. ASSUME PoolOnly
      PROVE  Silent'
  BY <1>17, CloseFacts DEF PoolOnly, Hangup
<1>18. ASSUME UNCHANGED allVars
      PROVE  Silent'
  BY <1>18 DEF allVars, vars, callVars
<1> QED BY <1>1, <1>2, <1>3, <1>4, <1>5, <1>6, <1>7, <1>8, <1>9, <1>10, <1>11, <1>12, <1>13, <1>14, <1>15, <1>16, <1>17, <1>18 DEF CallNext, CallerNext, Begin

(* A step of the caller c changes nothing for other callers and nothing on
   transports but X, its own. *)
Own(c, X) ==
    /\ \A d \in Callers \ {c} :
        /\ step'[d] = step[d] /\ pc'[d] = pc[d] /\ conn'[d] = conn[d]
        /\ sock'[d] = sock[d] /\ reqID'[d] = reqID[d] /\ answer'[d] = answer[d]
        /\ Using(d) => conn[d] # X
        /\ step[d] = "init" => sock[d] # X
    /\ \A k \in Conns \ {X} :
        /\ asked'[k] = asked[k] /\ inbox'[k] = inbox[k]
        /\ k \in noisy' <=> k \in noisy
        /\ k \in open' <=> k \in open
    /\ Using(c) => conn[c] = X
    /\ pc'[c] = "using" => conn'[c] = X

LEMMA Frame ==
    ASSUME IInv, DataTyped, Placed, Clean, NEW c \in Callers, NEW X, Own(c, X)
    PROVE  /\ \A d \in Callers \ {c} : PairedAt(d)'
           /\ \A k \in Conns \ {X} : k \in open' => RestAt(k)'
<1>1. ASSUME NEW d \in Callers \ {c} PROVE PairedAt(d)'
  <2>1. /\ step[d] \in {"send", "recv", "answered"} => conn[d] \in Conns \ {X}
        /\ step[d] = "init" => sock[d] \in Conns \ {X}
    BY Places DEF Own
  <2>2. /\ PairedAt(d) /\ step'[d] = step[d] /\ conn'[d] = conn[d]
        /\ sock'[d] = sock[d] /\ reqID'[d] = reqID[d] /\ answer'[d] = answer[d]
    BY DEF Own, Clean, Paired
  <2>3. \A k \in Conns \ {X} : asked'[k] = asked[k] /\ inbox'[k] = inbox[k] /\ (k \in noisy' <=> k \in noisy)
    BY DEF Own
  <2> QED BY <2>1, <2>2, <2>3 DEF PairedAt, Empty, OnItsWay
<1>2. ASSUME NEW k \in Conns \ {X}, k \in open' PROVE RestAt(k)'
  <2>1. /\ k \in open /\ (k \in noisy' <=> k \in noisy)
        /\ asked'[k] = asked[k] /\ inbox'[k] = inbox[k]
    BY <1>2 DEF Own
  <2>2. \A d \in Callers : Using(d) /\ conn[d] = k => Using(d)' /\ conn'[d] = k
    BY DEF Own, Using
  <2>3. RestAt(k)
    BY <2>1 DEF Clean, Rested
  <2> QED BY <2>1, <2>2, <2>3 DEF RestAt, Empty, Using
<1> QED BY <1>1, <1>2

LEMMA CleanFor ==
    ASSUME IInv, IInv', DataTyped, Placed, Clean, NEW c \in Callers, NEW X, Own(c, X),
           PairedAt(c)', X \in open' => RestAt(X)'
    PROVE  Rested' /\ Paired'
<1>1. open' \subseteq Conns
  BY DEF IInv, TypeOK
<1> QED BY <1>1, Frame DEF Rested, Paired

LEMMA Apart ==
    ASSUME IInv, DataTyped, Placed, Sockets, NEW c \in Callers, NEW d \in Callers \ {c}
    PROVE  /\ Using(c) /\ Using(d) => conn[d] # conn[c]
           /\ Using(c) /\ step[d] = "init" => sock[d] # conn[c]
           /\ step[c] = "init" /\ Using(d) => conn[d] # sock[c]
           /\ step[c] = "init" /\ step[d] = "init" => sock[d] # sock[c]
<1>1. step[c] = "init" => sock[c] \in Conns /\ sock[c] # NoConn
  BY Places, PoolAssumption
<1> QED BY <1>1, Owners DEF Sockets

LEMMA HitClean ==
    ASSUME IInv, IInv', DataTyped, DataTyped', QueuesTyped, Placed, Sockets, Clean,
           NEW c \in Callers, NEW t \in Tasks, NEW s \in Servers, Begin(c, t, s), GetHit(c, s), step' = [step EXCEPT ![c] = "send"]
    PROVE  Rested' /\ Paired'
<1>0. PICK X : X = conn'[c]
  OBVIOUS
<1> USE <1>0
<1>1. \A e \in Callers \ {c} :
        /\ step'[e] = step[e] /\ pc'[e] = pc[e] /\ conn'[e] = conn[e]
        /\ sock'[e] = sock[e] /\ reqID'[e] = reqID[e] /\ answer'[e] = answer[e]
  BY HitFacts DEF Begin, DataTyped
<1>2. \A k \in Conns \ {X} :
        /\ asked'[k] = asked[k] /\ inbox'[k] = inbox[k]
        /\ k \in noisy' <=> k \in noisy
        /\ k \in open' <=> k \in open
  BY HitFacts DEF Begin
<1>3. PairedAt(c)' /\ (X \in open' => RestAt(X)')
  <2>1. RestAt(X) /\ X \in open /\ Using(c)' /\ step'[c] = "send"
    BY HitFacts DEF Clean, Rested, Using, DataTyped
  <2>2. UNCHANGED <<asked, inbox, noisy>>
    BY DEF Begin
  <2>3. X \notin noisy => Empty(X)
    BY <2>1, HitFacts DEF RestAt, Using
  <2> QED BY <2>1, <2>2, <2>3 DEF PairedAt, RestAt, Empty
<1>4. /\ Using(c) => conn[c] = X
      /\ pc'[c] = "using" => conn'[c] = X
      /\ \A e \in Callers \ {c} : (Using(e) => conn[e] # X) /\ (step[e] = "init" => sock[e] # X)
  BY HitFacts DEF Using, Sockets
<1>5. Own(c, X)
  BY <1>1, <1>2, <1>4 DEF Own
<1> QED BY <1>3, <1>5, CleanFor

LEMMA ReserveClean ==
    ASSUME IInv, IInv', DataTyped, DataTyped', QueuesTyped, Placed, Sockets, Clean,
           NEW c \in Callers, NEW t \in Tasks, NEW s \in Servers, Begin(c, t, s), GetReserve(c, s), step' = [step EXCEPT ![c] = "start"]
    PROVE  Rested' /\ Paired'
<1>0. PICK X : X = NoConn
  OBVIOUS
<1> USE <1>0
<1>1. \A e \in Callers \ {c} :
        /\ step'[e] = step[e] /\ pc'[e] = pc[e] /\ conn'[e] = conn[e]
        /\ sock'[e] = sock[e] /\ reqID'[e] = reqID[e] /\ answer'[e] = answer[e]
  BY ReserveFacts DEF Begin, DataTyped
<1>2. \A k \in Conns \ {X} :
        /\ asked'[k] = asked[k] /\ inbox'[k] = inbox[k]
        /\ k \in noisy' <=> k \in noisy
        /\ k \in open' <=> k \in open
  BY ReserveFacts DEF Begin
<1>3. PairedAt(c)' /\ (X \in open' => RestAt(X)')
  <2>1. step'[c] = "start"
    BY DEF Begin, DataTyped
  <2>2. X \notin open'
    BY PoolAssumption DEF IInv, TypeOK
  <2> QED BY <2>1, <2>2 DEF PairedAt
<1>4. /\ Using(c) => conn[c] = X
      /\ pc'[c] = "using" => conn'[c] = X
      /\ \A e \in Callers \ {c} : (Using(e) => conn[e] # X) /\ (step[e] = "init" => sock[e] # X)
  BY ReserveFacts, Owners DEF Using, Placed
<1>5. Own(c, X)
  BY <1>1, <1>2, <1>4 DEF Own
<1> QED BY <1>3, <1>5, CleanFor

LEMMA ConnectFailsClean ==
    ASSUME IInv, IInv', DataTyped, DataTyped', QueuesTyped, Placed, Sockets, Clean,
           NEW c \in Callers, ConnectFails(c)
    PROVE  Rested' /\ Paired'
<1>0. PICK X : X = NoConn
  OBVIOUS
<1> USE <1>0
<1>1. \A e \in Callers \ {c} :
        /\ step'[e] = step[e] /\ pc'[e] = pc[e] /\ conn'[e] = conn[e]
        /\ sock'[e] = sock[e] /\ reqID'[e] = reqID[e] /\ answer'[e] = answer[e]
  BY DialFacts DEF ConnectFails, DataTyped
<1>2. \A k \in Conns \ {X} :
        /\ asked'[k] = asked[k] /\ inbox'[k] = inbox[k]
        /\ k \in noisy' <=> k \in noisy
        /\ k \in open' <=> k \in open
  BY DialFacts DEF ConnectFails
<1>3. PairedAt(c)' /\ (X \in open' => RestAt(X)')
  <2>1. step'[c] = "none"
    BY DEF ConnectFails, DataTyped
  <2>2. X \notin open'
    BY PoolAssumption DEF IInv, TypeOK
  <2> QED BY <2>1, <2>2 DEF PairedAt
<1>4. /\ Using(c) => conn[c] = X
      /\ pc'[c] = "using" => conn'[c] = X
      /\ \A e \in Callers \ {c} : (Using(e) => conn[e] # X) /\ (step[e] = "init" => sock[e] # X)
  BY DialFacts, Owners DEF ConnectFails, Using, Placed
<1>5. Own(c, X)
  BY <1>1, <1>2, <1>4 DEF Own
<1> QED BY <1>3, <1>5, CleanFor

LEMMA ConnectClean ==
    ASSUME IInv, IInv', DataTyped, DataTyped', QueuesTyped, Placed, Sockets, Clean,
           NEW c \in Callers, Connect(c)
    PROVE  Rested' /\ Paired'
<1>0. PICK X : X = sock'[c]
  OBVIOUS
<1> USE <1>0
<1>1. \A e \in Callers \ {c} :
        /\ step'[e] = step[e] /\ pc'[e] = pc[e] /\ conn'[e] = conn[e]
        /\ sock'[e] = sock[e] /\ reqID'[e] = reqID[e] /\ answer'[e] = answer[e]
  BY DEF Connect, vars, DataTyped
<1>2. \A k \in Conns \ {X} :
        /\ asked'[k] = asked[k] /\ inbox'[k] = inbox[k]
        /\ k \in noisy' <=> k \in noisy
        /\ k \in open' <=> k \in open
  <2>1. PICK k \in Conns \ (open \cup Dialling) :
          sock' = [sock EXCEPT ![c] = k] /\ asked' = [asked EXCEPT ![k] = <<Hello>>]
    BY DEF Connect
  <2>2. X = k
    BY <2>1 DEF DataTyped
  <2> QED BY <2>1, <2>2 DEF Connect, vars, QueuesTyped
<1>3. PairedAt(c)' /\ (X \in open' => RestAt(X)')
  <2>1. PICK k \in Conns \ (open \cup Dialling) :
          sock' = [sock EXCEPT ![c] = k] /\ asked' = [asked EXCEPT ![k] = <<Hello>>]
    BY DEF Connect
  <2>2. X = k
    BY <2>1 DEF DataTyped
  <2>3. peer[k] = "none"
    BY <2>1 DEF Sockets, ChildrenOwned
  <2>4. inbox[k] = <<>>
    BY <2>3 DEF Clean, Silent, Empty
  <2>5. step'[c] = "init" /\ inbox' = inbox /\ open' = open
    BY DEF Connect, vars, DataTyped
  <2>6. asked'[k] = <<Hello>>
    BY <2>1 DEF QueuesTyped
  <2> QED BY <2>1, <2>2, <2>4, <2>5, <2>6 DEF PairedAt, OnItsWay
<1>4. /\ Using(c) => conn[c] = X
      /\ pc'[c] = "using" => conn'[c] = X
      /\ \A e \in Callers \ {c} : (Using(e) => conn[e] # X) /\ (step[e] = "init" => sock[e] # X)
  <2>1. X \in Conns \ (open \cup Dialling)
    BY DEF Connect, DataTyped
  <2>2. pc[c] = "dialing" /\ pc' = pc
    BY DEF Connect, vars, Placed
  <2>3. \A e \in Callers : step[e] = "init" => sock[e] \in Dialling
    BY PoolAssumption DEF Dialling, Placed
  <2> QED BY <2>1, <2>2, <2>3, Owners DEF Using
<1>5. Own(c, X)
  BY <1>1, <1>2, <1>4 DEF Own
<1> QED BY <1>3, <1>5, CleanFor

LEMMA InitializeClean ==
    ASSUME IInv, IInv', DataTyped, DataTyped', QueuesTyped, Placed, Sockets, Clean,
           NEW c \in Callers, Initialize(c)
    PROVE  Rested' /\ Paired'
<1>0. PICK X : X = sock[c]
  OBVIOUS
<1> USE <1>0
<1>1. \A e \in Callers \ {c} :
        /\ step'[e] = step[e] /\ pc'[e] = pc[e] /\ conn'[e] = conn[e]
        /\ sock'[e] = sock[e] /\ reqID'[e] = reqID[e] /\ answer'[e] = answer[e]
  BY DialFacts DEF Initialize, DataTyped
<1>2. \A k \in Conns \ {X} :
        /\ asked'[k] = asked[k] /\ inbox'[k] = inbox[k]
        /\ k \in noisy' <=> k \in noisy
        /\ k \in open' <=> k \in open
  BY DialFacts DEF Initialize, QueuesTyped
<1>3. PairedAt(c)' /\ (X \in open' => RestAt(X)')
  <2>1. step'[c] = "send" /\ conn'[c] = X /\ X \in Conns /\ Using(c)'
    BY DialFacts, Places DEF Initialize, DataTyped, Using
  <2>2. X \notin noisy => OnItsWay(X, Hello)
    BY DEF Clean, Paired, PairedAt, Initialize
  <2>3. inbox[X] # <<>> /\ asked' = asked /\ noisy' = noisy /\ inbox'[X] = Tail(inbox[X])
    BY <2>1 DEF Initialize, QueuesTyped
  <2>4. X \notin noisy => inbox'[X] = <<>> /\ asked'[X] = <<>>
    BY <2>2, <2>3, QueueOne DEF OnItsWay
  <2> QED BY <2>1, <2>3, <2>4 DEF PairedAt, RestAt, Empty
<1>4. /\ Using(c) => conn[c] = X
      /\ pc'[c] = "using" => conn'[c] = X
      /\ \A e \in Callers \ {c} : (Using(e) => conn[e] # X) /\ (step[e] = "init" => sock[e] # X)
  BY DialFacts, Apart DEF Initialize, Using
<1>5. Own(c, X)
  BY <1>1, <1>2, <1>4 DEF Own
<1> QED BY <1>3, <1>5, CleanFor

LEMMA InitializeFailsClean ==
    ASSUME IInv, IInv', DataTyped, DataTyped', QueuesTyped, Placed, Sockets, Clean,
           NEW c \in Callers, InitializeFails(c)
    PROVE  Rested' /\ Paired'
<1>0. PICK X : X = sock[c]
  OBVIOUS
<1> USE <1>0
<1>1. \A e \in Callers \ {c} :
        /\ step'[e] = step[e] /\ pc'[e] = pc[e] /\ conn'[e] = conn[e]
        /\ sock'[e] = sock[e] /\ reqID'[e] = reqID[e] /\ answer'[e] = answer[e]
  BY DialFacts DEF InitializeFails, DataTyped
<1>2. \A k \in Conns \ {X} :
        /\ asked'[k] = asked[k] /\ inbox'[k] = inbox[k]
        /\ k \in noisy' <=> k \in noisy
        /\ k \in open' <=> k \in open
  BY DialFacts DEF InitializeFails, Hangup
<1>3. PairedAt(c)' /\ (X \in open' => RestAt(X)')
  <2>1. step'[c] = "none" /\ open' = open /\ X \notin open
    BY DialFacts DEF InitializeFails, DataTyped, Sockets
  <2> QED BY <2>1 DEF PairedAt
<1>4. /\ Using(c) => conn[c] = X
      /\ pc'[c] = "using" => conn'[c] = X
      /\ \A e \in Callers \ {c} : (Using(e) => conn[e] # X) /\ (step[e] = "init" => sock[e] # X)
  BY DialFacts, Apart DEF InitializeFails, Using
<1>5. Own(c, X)
  BY <1>1, <1>2, <1>4 DEF Own
<1> QED BY <1>3, <1>5, CleanFor

LEMMA SendClean ==
    ASSUME IInv, IInv', DataTyped, DataTyped', QueuesTyped, Placed, Sockets, Clean,
           NEW c \in Callers, Send(c)
    PROVE  Rested' /\ Paired'
<1>0. PICK X : X = conn[c]
  OBVIOUS
<1> USE <1>0
<1>1. \A e \in Callers \ {c} :
        /\ step'[e] = step[e] /\ pc'[e] = pc[e] /\ conn'[e] = conn[e]
        /\ sock'[e] = sock[e] /\ reqID'[e] = reqID[e] /\ answer'[e] = answer[e]
  BY DEF Send, vars, DataTyped
<1>2. \A k \in Conns \ {X} :
        /\ asked'[k] = asked[k] /\ inbox'[k] = inbox[k]
        /\ k \in noisy' <=> k \in noisy
        /\ k \in open' <=> k \in open
  BY DEF Send, vars, QueuesTyped
<1>3. PairedAt(c)' /\ (X \in open' => RestAt(X)')
  <2>1. /\ Using(c) /\ X \in Conns /\ Using(c)' /\ conn'[c] = X
        /\ reqID'[c] = lastID + 1 /\ noisy' = noisy /\ inbox' = inbox
    BY Places DEF Send, vars, DataTyped, Using
  <2>2. X \notin noisy => Empty(X)
    BY DEF Clean, Paired, PairedAt, Send
  <2>3. \/ step'[c] = "recv" /\ asked'[X] = Append(asked[X], lastID + 1)
        \/ step'[c] = "error"
    BY <2>1 DEF Send, DataTyped, QueuesTyped
  <2>4. X \notin noisy => step'[c] = "error" \/ (step'[c] = "recv" /\ asked'[X] = <<lastID + 1>>)
    <3>1. Append(<<>>, lastID + 1) = <<lastID + 1>>
      BY QueueOne
    <3>2. X \notin noisy => asked[X] = <<>>
      BY <2>2 DEF Empty
    <3>3. asked[X] = <<>> => Append(asked[X], lastID + 1) = <<lastID + 1>>
      BY <3>1, Zenon
    <3> DEFINE q == Append(asked[X], lastID + 1)
               one == <<lastID + 1>>
    <3>4. X \notin noisy => q = one
      BY <3>2, <3>3
    <3>5. step'[c] = "error" \/ (step'[c] = "recv" /\ asked'[X] = q)
      BY <2>3
    <3> HIDE DEF q, one
    <3>6. X \notin noisy => step'[c] = "error" \/ (step'[c] = "recv" /\ asked'[X] = one)
      BY <3>4, <3>5
    <3> QED BY <3>6 DEF one
  <2>5. PairedAt(c)'
    BY <2>1, <2>2, <2>3, <2>4 DEF PairedAt, OnItsWay, Empty
  <2> QED BY <2>1, <2>5 DEF RestAt
<1>4. /\ Using(c) => conn[c] = X
      /\ pc'[c] = "using" => conn'[c] = X
      /\ \A e \in Callers \ {c} : (Using(e) => conn[e] # X) /\ (step[e] = "init" => sock[e] # X)
  <2>1. Using(c)
    BY Places DEF Send
  <2> QED BY <2>1, Apart DEF Send, vars, Using
<1>5. Own(c, X)
  BY <1>1, <1>2, <1>4 DEF Own
<1> QED BY <1>3, <1>5, CleanFor

LEMMA RecvClean ==
    ASSUME IInv, IInv', DataTyped, DataTyped', QueuesTyped, Placed, Sockets, Clean,
           NEW c \in Callers, Recv(c)
    PROVE  Rested' /\ Paired'
<1>0. PICK X : X = conn[c]
  OBVIOUS
<1> USE <1>0
<1>1. \A e \in Callers \ {c} :
        /\ step'[e] = step[e] /\ pc'[e] = pc[e] /\ conn'[e] = conn[e]
        /\ sock'[e] = sock[e] /\ reqID'[e] = reqID[e] /\ answer'[e] = answer[e]
  BY DEF Recv, vars, DataTyped
<1>2. \A k \in Conns \ {X} :
        /\ asked'[k] = asked[k] /\ inbox'[k] = inbox[k]
        /\ k \in noisy' <=> k \in noisy
        /\ k \in open' <=> k \in open
  BY DEF Recv, vars, QueuesTyped
<1>3. PairedAt(c)' /\ (X \in open' => RestAt(X)')
  <2>1. /\ Using(c) /\ X \in Conns /\ Using(c)' /\ conn'[c] = X
        /\ reqID' = reqID /\ noisy' = noisy /\ asked' = asked /\ step'[c] = "answered"
    BY Places DEF Recv, vars, DataTyped, Using
  <2>2. X \notin noisy => OnItsWay(X, reqID[c])
    BY DEF Clean, Paired, PairedAt, Recv
  <2>3. inbox[X] # <<>> /\ answer'[c] = Head(inbox[X]) /\ inbox'[X] = Tail(inbox[X])
    BY <2>1 DEF Recv, DataTyped, QueuesTyped
  <2>4. X \notin noisy => answer'[c] = reqID[c] /\ inbox'[X] = <<>> /\ asked'[X] = <<>>
    BY <2>1, <2>2, <2>3, QueueOne DEF OnItsWay
  <2>5. PairedAt(c)'
    BY <2>1, <2>4 DEF PairedAt, Empty
  <2> QED BY <2>1, <2>5 DEF RestAt
<1>4. /\ Using(c) => conn[c] = X
      /\ pc'[c] = "using" => conn'[c] = X
      /\ \A e \in Callers \ {c} : (Using(e) => conn[e] # X) /\ (step[e] = "init" => sock[e] # X)
  <2>1. Using(c)
    BY Places DEF Recv
  <2> QED BY <2>1, Apart DEF Recv, vars, Using
<1>5. Own(c, X)
  BY <1>1, <1>2, <1>4 DEF Own
<1> QED BY <1>3, <1>5, CleanFor

LEMMA RecvFailsClean ==
    ASSUME IInv, IInv', DataTyped, DataTyped', QueuesTyped, Placed, Sockets, Clean,
           NEW c \in Callers, RecvFails(c)
    PROVE  Rested' /\ Paired'
<1>0. PICK X : X = conn[c]
  OBVIOUS
<1> USE <1>0
<1>1. \A e \in Callers \ {c} :
        /\ step'[e] = step[e] /\ pc'[e] = pc[e] /\ conn'[e] = conn[e]
        /\ sock'[e] = sock[e] /\ reqID'[e] = reqID[e] /\ answer'[e] = answer[e]
  BY DEF RecvFails, vars, DataTyped
<1>2. \A k \in Conns \ {X} :
        /\ asked'[k] = asked[k] /\ inbox'[k] = inbox[k]
        /\ k \in noisy' <=> k \in noisy
        /\ k \in open' <=> k \in open
  BY DEF RecvFails, vars, QueuesTyped
<1>3. PairedAt(c)' /\ (X \in open' => RestAt(X)')
  <2>1. Using(c)' /\ conn'[c] = X /\ step'[c] = "error"
    BY Places DEF RecvFails, vars, DataTyped, Using
  <2> QED BY <2>1 DEF PairedAt, RestAt
<1>4. /\ Using(c) => conn[c] = X
      /\ pc'[c] = "using" => conn'[c] = X
      /\ \A e \in Callers \ {c} : (Using(e) => conn[e] # X) /\ (step[e] = "init" => sock[e] # X)
  <2>1. Using(c)
    BY Places DEF RecvFails
  <2> QED BY <2>1, Apart DEF RecvFails, vars, Using
<1>5. Own(c, X)
  BY <1>1, <1>2, <1>4 DEF Own
<1> QED BY <1>3, <1>5, CleanFor

LEMMA FinishClean ==
    ASSUME IInv, IInv', DataTyped, DataTyped', QueuesTyped, Placed, Sockets, Clean,
           NEW c \in Callers, NEW healthy \in BOOLEAN, Finish(c), Return(c, healthy), healthy => step[c] = "answered"
    PROVE  Rested' /\ Paired'
<1>0. PICK X : X = conn[c]
  OBVIOUS
<1> USE <1>0
<1>1. \A e \in Callers \ {c} :
        /\ step'[e] = step[e] /\ pc'[e] = pc[e] /\ conn'[e] = conn[e]
        /\ sock'[e] = sock[e] /\ reqID'[e] = reqID[e] /\ answer'[e] = answer[e]
  BY ReturnFacts DEF Finish, DataTyped
<1>2. \A k \in Conns \ {X} :
        /\ asked'[k] = asked[k] /\ inbox'[k] = inbox[k]
        /\ k \in noisy' <=> k \in noisy
        /\ k \in open' <=> k \in open
  BY ReturnFacts DEF Finish, Hangup
<1>3. PairedAt(c)' /\ (X \in open' => RestAt(X)')
  <2>1. step'[c] = "none"
    BY DEF Finish, DataTyped
  <2>2. ASSUME X \in open' PROVE RestAt(X)'
    <3>1. healthy /\ X \in open
      BY <2>2, ReturnFacts
    <3>2. step[c] = "answered"
      BY <3>1
    <3>3. X \notin noisy => Empty(X)
      BY <3>2 DEF Clean, Paired, PairedAt
    <3>4. X \notin open \ open' /\ X \in Conns
      BY <2>2, <3>1, Owners
    <3>5. asked'[X] = asked[X] /\ inbox'[X] = inbox[X] /\ (X \in noisy' <=> X \in noisy)
      BY <3>4 DEF Finish, Hangup
    <3> QED BY <3>3, <3>5 DEF RestAt, Empty
  <2> QED BY <2>1, <2>2 DEF PairedAt
<1>4. /\ Using(c) => conn[c] = X
      /\ pc'[c] = "using" => conn'[c] = X
      /\ \A e \in Callers \ {c} : (Using(e) => conn[e] # X) /\ (step[e] = "init" => sock[e] # X)
  BY ReturnFacts, Apart DEF Using
<1>5. Own(c, X)
  BY <1>1, <1>2, <1>4 DEF Own
<1> QED BY <1>3, <1>5, CleanFor

(* What peers send. *)
LEMMA AnswerClean ==
    ASSUME IInv, IInv', DataTyped, DataTyped', QueuesTyped, Placed, Sockets, Clean,
           NEW k \in Conns, Answer(k)
    PROVE  Rested' /\ Paired'
<1>1. UNCHANGED <<open, pc, conn, step, sock, reqID, answer, noisy>>
  BY DEF Answer, vars
<1>2. /\ \A j \in Conns \ {k} : asked'[j] = asked[j] /\ inbox'[j] = inbox[j]
      /\ asked[k] # <<>>
      /\ asked'[k] = Tail(asked[k]) /\ inbox'[k] = Append(inbox[k], Head(asked[k]))
  BY DEF Answer, QueuesTyped
<1>3. \A m : OnItsWay(k, m) => OnItsWay(k, m)'
  BY <1>2, QueueOne DEF OnItsWay
<1>4. \A j \in Conns : Empty(j) => Empty(j)'
  BY <1>2 DEF Empty
<1>5. \A j \in Conns : \A m : OnItsWay(j, m) => OnItsWay(j, m)'
  BY <1>2, <1>3 DEF OnItsWay
<1>6. ASSUME NEW c \in Callers PROVE PairedAt(c)'
  BY <1>1, <1>4, <1>5, Places DEF Clean, Paired, PairedAt
<1>7. ASSUME NEW j \in open PROVE RestAt(j)'
  BY <1>1, <1>4, Owners DEF Clean, Rested, RestAt, Using
<1> QED BY <1>1, <1>6, <1>7 DEF Paired, Rested

LEMMA NotifyClean ==
    ASSUME IInv, IInv', DataTyped, DataTyped', QueuesTyped, Placed, Sockets, Clean,
           NEW k \in Conns, Notify(k)
    PROVE  Rested' /\ Paired'
<1>1. UNCHANGED <<open, pc, conn, step, sock, reqID, answer, asked>>
  BY DEF Notify, vars
<1>2. /\ noisy' = noisy \cup {k}
      /\ \A j \in Conns \ {k} : inbox'[j] = inbox[j]
  BY DEF Notify, QueuesTyped
<1>3. ASSUME NEW c \in Callers PROVE PairedAt(c)'
  BY <1>1, <1>2, Places DEF Clean, Paired, PairedAt, Empty, OnItsWay
<1>4. ASSUME NEW j \in open PROVE RestAt(j)'
  BY <1>1, <1>2, Owners DEF Clean, Rested, RestAt, Using, Empty
<1> QED BY <1>1, <1>3, <1>4 DEF Paired, Rested

(* Close and the reaper. *)
LEMMA PoolOnlyClean ==
    ASSUME IInv, IInv', DataTyped, DataTyped', QueuesTyped, Placed, Sockets, Clean,
           PoolOnly
    PROVE  Rested' /\ Paired'
<1>1. /\ open' \subseteq open
      /\ UNCHANGED <<pc, conn, step, sock, reqID, answer>>
      /\ \A c \in Callers : Using(c) => conn[c] \in open'
  BY CloseFacts DEF PoolOnly
<1>2. \A j \in Conns : j \in open' \/ j \notin open =>
        asked'[j] = asked[j] /\ inbox'[j] = inbox[j] /\ (j \in noisy' <=> j \in noisy)
  BY DEF PoolOnly, Hangup
<1>3. ASSUME NEW c \in Callers PROVE PairedAt(c)'
  <2>1. step[c] \in {"send", "recv", "answered"} => conn[c] \in Conns /\ conn[c] \in open'
    BY <1>1, Places
  <2>2. step[c] = "init" => sock[c] \in Conns /\ sock[c] \notin open
    BY Places DEF Sockets
  <2> QED BY <1>1, <1>2, <2>1, <2>2 DEF Clean, Paired, PairedAt, Empty, OnItsWay
<1>4. ASSUME NEW j \in open' PROVE RestAt(j)'
  BY <1>1, <1>2, Owners DEF Clean, Rested, RestAt, Using, Empty
<1> QED BY <1>3, <1>4 DEF Paired, Rested

LEMMA IdleClean ==
    ASSUME Clean, UNCHANGED <<open, pc, conn, step, sock, reqID, answer, asked, inbox, noisy>>
    PROVE  Rested' /\ Paired'
BY DEF Clean, Rested, RestAt, Paired, PairedAt, Using, Empty, OnItsWay

-----------------------------------------------------------------------------
CallInv == DataTyped /\ QueuesTyped /\ Placed /\ Sockets /\ Clean

LEMMA CallInitInv == ASSUME CallInit PROVE CallInv
<1> USE PoolAssumption, ToolCallAssumption, MessageFacts DEF CallInit, Init
<1>1. DataTyped
  BY DEF DataTyped
<1>2. QueuesTyped
  BY DEF QueuesTyped
<1>3. Placed
  BY DEF Placed
<1>4. Sockets
  BY DEF Sockets, ChildrenOwned, Dialling
<1>5. Clean
  BY DEF Clean, Silent, Rested, Paired, PairedAt, Empty
<1> QED BY <1>1, <1>2, <1>3, <1>4, <1>5 DEF CallInv

LEMMA CleanStep ==
    ASSUME IInv, IInv', CallInv, DataTyped', [CallNext]_allVars
    PROVE  Clean'
<1> USE DEF CallInv
<1>1. Silent'
  BY SilentStep
<1>2. ASSUME NEW c \in Callers, NEW t \in Tasks, NEW s \in Servers, Begin(c, t, s)
      PROVE  Rested' /\ Paired'
  <2>1. CASE GetHit(c, s) /\ step' = [step EXCEPT ![c] = "send"]
    BY <1>2, <2>1, HitClean
  <2>2. CASE GetReserve(c, s) /\ step' = [step EXCEPT ![c] = "start"]
    BY <1>2, <2>2, ReserveClean
  <2> QED BY <1>2, <2>1, <2>2 DEF Begin
<1>3. ASSUME NEW c \in Callers, Finish(c)
      PROVE  Rested' /\ Paired'
  <2>1. \E healthy \in BOOLEAN : Return(c, healthy) /\ (healthy => step[c] = "answered")
    BY <1>3 DEF Finish, GivesBack, Put, Discard
  <2> QED BY <1>3, <2>1, FinishClean
<1>4. ASSUME NEW c \in Callers, CallerNext(c), ~Finish(c)
      PROVE  Rested' /\ Paired'
  BY <1>4, ConnectClean, ConnectFailsClean, InitializeClean, InitializeFailsClean,
     SendClean, RecvClean, RecvFailsClean DEF CallerNext
<1>5. ASSUME NEW k \in Conns, Answer(k) \/ Notify(k)
      PROVE  Rested' /\ Paired'
  BY <1>5, AnswerClean, NotifyClean
<1>6. ASSUME NEW k \in Conns, Crash(k) \/ Kill(k)
      PROVE  Rested' /\ Paired'
  BY <1>6, IdleClean DEF Crash, Kill, vars
<1>7. ASSUME NEW t \in Tasks, Stop(t) \/ Over(t)
      PROVE  Rested' /\ Paired'
  BY <1>7, IdleClean DEF Stop, Over, vars
<1>8. ASSUME PoolOnly PROVE Rested' /\ Paired'
  BY <1>8, PoolOnlyClean
<1>9. ASSUME UNCHANGED allVars PROVE Rested' /\ Paired'
  BY <1>9, IdleClean DEF allVars, vars, callVars
<1>10. Rested' /\ Paired'
  BY <1>2, <1>3, <1>4, <1>5, <1>6, <1>7, <1>8, <1>9 DEF CallNext
<1> QED BY <1>1, <1>10 DEF Clean

LEMMA CallInvAlways == CallSpec => [](IInv /\ CallInv)
<1>1. IInv /\ IInv' /\ CallInv /\ [CallNext]_allVars => CallInv'
  <2> SUFFICES ASSUME IInv, IInv', CallInv, [CallNext]_allVars PROVE CallInv'
    OBVIOUS
  <2>1. DataTyped' /\ QueuesTyped' /\ Placed' /\ Sockets'
    BY DataStep, QueuesStep, PlacedStep, SocketsStep DEF CallInv
  <2> QED BY <2>1, CleanStep DEF CallInv
<1> QED BY <1>1, CallInitInv, PoolInvariant, PTL DEF CallSpec

-----------------------------------------------------------------------------
(* A step's place in executeStep and its place in the pool go together, on
   every way out of the dialler and of the call. *)
THEOREM CallTypeCorrect == CallSpec => []CallTypeOK
<1>1. CallInv => CallTypeOK
  BY DEF CallInv, DataTyped, QueuesTyped, Placed, CallTypeOK
<1> QED BY <1>1, CallInvAlways, PTL

(* Responses are not mixed up: nothing of an earlier call is left on a
   connection that passes from one step to another. *)
THEOREM AnswersAreOwn == CallSpec => []AnswersMatch
<1>1. CallInv => AnswersMatch
  BY DEF CallInv, Clean, Paired, PairedAt, AnswersMatch
<1> QED BY <1>1, CallInvAlways, PTL

(* Idle connections carry nothing. *)
THEOREM IdleConnectionsClean == CallSpec => []IdleIsClean
<1>1. IInv /\ CallInv => IdleIsClean
  BY Owners DEF CallInv, Clean, Rested, RestAt, Empty, IdleIsClean
<1> QED BY <1>1, CallInvAlways, PTL

(* No process is left without an open transport or a dial it belongs to. *)
THEOREM NoOrphans == CallSpec => []ChildrenOwned
<1>1. CallInv => ChildrenOwned
  BY DEF CallInv, Sockets
<1> QED BY <1>1, CallInvAlways, PTL

(* What is proved of the pool holds with handshakes, messages and peers: the
   limits, for one. *)
THEOREM CallsWithinLimits == CallSpec => []WithinLimits
BY ImplementsPool, LimitHolds, PTL

-----------------------------------------------------------------------------
(* Behind a transport of a stdio server is the process of some task, from the
   dial to the end of the connection, whoever uses it meanwhile. *)
Parents ==
    /\ \A k \in open : serverName[k] \in Stdio => dialer[k] \in Tasks
    /\ \A c \in Callers : step[c] = "init" /\ server[c] \in Stdio => dialer[sock[c]] \in Tasks

LEMMA ParentsStep ==
    ASSUME IInv, IInv', CallInv, CallInv', Parents, [CallNext]_allVars
    PROVE  Parents'
<1> USE PoolAssumption, ToolCallAssumption DEF CallInv, DataTyped
<1>0. /\ open \subseteq Conns /\ serverName \in [Conns -> Servers] /\ server \in [Callers -> Servers]
      /\ \A c \in Callers : step[c] = "init" => sock[c] \in Conns /\ sock[c] \notin open
      /\ \A c, d \in Callers : step[c] = "init" /\ sock[c] = sock[d] => c = d
      /\ \A c \in Callers : step[c] = "start" => task[c] \in Tasks
  BY DEF IInv, TypeOK, Placed, Sockets
<1>1. ASSUME NEW c \in Callers, NEW t \in Tasks, NEW s \in Servers, Begin(c, t, s)
      PROVE  Parents'
  <2>1. /\ UNCHANGED <<open, serverName, dialer, sock>> /\ step'[c] # "init"
        /\ \A d \in Callers : d # c => step'[d] = step[d] /\ server'[d] = server[d]
    BY <1>0, <1>1 DEF Begin, GetHit, GetReserve
  <2> QED BY <2>1 DEF Parents
<1>2. ASSUME NEW c \in Callers, Connect(c)
      PROVE  Parents'
  <2>1. PICK k \in Conns \ (open \cup Dialling) :
            /\ sock' = [sock EXCEPT ![c] = k]
            /\ dialer' = [dialer EXCEPT ![k] = IF server[c] \in Stdio THEN task[c] ELSE NoTask]
    BY <1>2 DEF Connect
  <2>2. /\ UNCHANGED <<open, serverName, server>> /\ step[c] = "start"
        /\ step' = [step EXCEPT ![c] = "init"]
    BY <1>2 DEF Connect, vars
  <2>3. \A d \in Callers : step[d] = "init" => sock[d] # k
    BY <1>0, <2>1, PoolAssumption DEF Dialling
  <2>4. \A j \in open' : serverName'[j] \in Stdio => dialer'[j] \in Tasks
    BY <1>0, <2>1, <2>2 DEF Parents
  <2>5. ASSUME NEW d \in Callers, step'[d] = "init", server'[d] \in Stdio
        PROVE  dialer'[sock'[d]] \in Tasks
    <3>1. CASE d = c
      BY <1>0, <2>1, <2>2, <2>5, <3>1
    <3>2. CASE d # c
      <4>1. step[d] = "init" /\ sock'[d] = sock[d] /\ server[d] \in Stdio
        BY <2>1, <2>2, <2>5, <3>2
      <4>2. dialer'[sock[d]] = dialer[sock[d]]
        BY <1>0, <2>1, <2>3, <4>1
      <4> QED BY <4>1, <4>2 DEF Parents
    <3> QED BY <3>1, <3>2
  <2> QED BY <2>4, <2>5 DEF Parents
<1>3. ASSUME NEW c \in Callers, Initialize(c)
      PROVE  Parents'
  <2>1. PICK k \in Conns \ open : /\ open' = open \cup {k}
                                  /\ serverName' = [serverName EXCEPT ![k] = server[c]]
                                  /\ conn' = [conn EXCEPT ![c] = k]
    BY <1>3 DEF Initialize, DialOk
  <2>2. /\ k = sock[c] /\ step[c] = "init" /\ UNCHANGED <<server, dialer>>
        /\ \A d \in Callers : d # c => step'[d] = step[d] /\ sock'[d] = sock[d]
        /\ step'[c] # "init"
    BY <1>3, <2>1 DEF Initialize, DialOk, IInv, TypeOK
  <2>3. \A j \in open' : serverName'[j] \in Stdio => dialer'[j] \in Tasks
    BY <1>0, <2>1, <2>2 DEF Parents
  <2>4. \A d \in Callers : step'[d] = "init" /\ server'[d] \in Stdio => dialer'[sock'[d]] \in Tasks
    BY <2>2 DEF Parents
  <2> QED BY <2>3, <2>4 DEF Parents
<1>4. ASSUME NEW c \in Callers, ConnectFails(c) \/ InitializeFails(c)
      PROVE  Parents'
  <2>1. /\ UNCHANGED <<open, serverName, server>> /\ step'[c] # "init"
        /\ \A d \in Callers : d # c => step'[d] = step[d] /\ sock'[d] = sock[d]
        /\ \A j \in Conns : dialer'[j] = dialer[j] \/ (step[c] = "init" /\ j = sock[c])
    BY <1>4 DEF ConnectFails, InitializeFails, DialErr, Hangup
  <2> QED BY <1>0, <2>1 DEF Parents
<1>5. ASSUME UNCHANGED <<step, sock, server, serverName>>, open' \subseteq open, Hangup(open \ open')
      PROVE  Parents'
  <2>1. \A j \in Conns : j \notin open \/ j \in open' => dialer'[j] = dialer[j]
    BY <1>5 DEF Hangup
  <2> QED BY <1>0, <1>5, <2>1 DEF Parents
<1>6. ASSUME NEW c \in Callers, Finish(c)
      PROVE  Parents'
  <2>1. PICK healthy \in BOOLEAN : Return(c, healthy)
    BY <1>6 DEF Finish, GivesBack, Put, Discard
  <2>2. UNCHANGED <<sock, server, serverName>>
    BY <1>6, <2>1 DEF Finish, Return
  <2>3. open' \subseteq open
    BY <2>1, ReturnFacts
  <2>4. \A j \in Conns : j \notin open \/ j \in open' => dialer'[j] = dialer[j]
    BY <1>6 DEF Finish, Hangup
  <2>5. step'[c] # "init" /\ \A d \in Callers : d # c => step'[d] = step[d]
    BY <1>6 DEF Finish
  <2> QED BY <1>0, <2>2, <2>3, <2>4, <2>5 DEF Parents
<1>7. ASSUME PoolOnly
      PROVE  Parents'
  BY <1>5, <1>7, CloseFacts DEF PoolOnly, Close, Reap
<1>8. ASSUME UNCHANGED <<open, serverName, server, dialer, sock>>,
             \A c \in Callers : step'[c] = "init" => step[c] = "init"
      PROVE  Parents'
  BY <1>8 DEF Parents
<1>9. ASSUME NEW c \in Callers, Send(c) \/ Recv(c) \/ RecvFails(c)
      PROVE  Parents'
  BY <1>8, <1>9 DEF Send, Recv, RecvFails, vars
<1>10. ASSUME NEW k \in Conns, Answer(k) \/ Notify(k) \/ Crash(k) \/ Kill(k)
      PROVE  Parents'
  BY <1>8, <1>10 DEF Answer, Notify, Crash, Kill, vars
<1>11. ASSUME NEW t \in Tasks, Stop(t) \/ Over(t)
      PROVE  Parents'
  BY <1>8, <1>11 DEF Stop, Over, vars
<1>12. ASSUME UNCHANGED allVars PROVE Parents'
  BY <1>8, <1>12 DEF allVars, vars, callVars
<1> QED BY <1>1, <1>2, <1>3, <1>4, <1>6, <1>7, <1>9, <1>10, <1>11, <1>12 DEF CallNext, CallerNext

LEMMA ParentsAlways == CallSpec => []Parents
<1>1. CallInit => Parents
  BY DEF CallInit, Init, Parents
<1>2. (IInv /\ CallInv) /\ (IInv /\ CallInv)' /\ Parents /\ [CallNext]_allVars => Parents'
  BY ParentsStep
<1> QED BY <1>1, <1>2, CallInvAlways, PTL DEF CallSpec

WaitsFor(c, k) ==
    \/ step[c] = "init" /\ k = sock[c]
    \/ step[c] \in {"send", "recv"} /\ k = conn[c]

(* A step that talks to a stdio server has a process before it, and that process
   dies with the context of a task.  No wait lasts longer than some task: what
   StdioCallsEnd rests on, for code that looks at no context in Recv. *)
WaitsAreBounded ==
    \A c \in Callers, k \in Conns :
        WaitsFor(c, k) /\ server[c] \in Stdio => peer[k] # "none" /\ dialer[k] \in Tasks

THEOREM StdioWaitsBounded == CallSpec => []WaitsAreBounded
<1>1. IInv /\ CallInv /\ Parents => WaitsAreBounded
  <2> SUFFICES ASSUME IInv, CallInv, Parents, NEW c \in Callers, NEW k \in Conns,
                      WaitsFor(c, k), server[c] \in Stdio
               PROVE  peer[k] # "none" /\ dialer[k] \in Tasks
    BY DEF WaitsAreBounded
  <2>1. CASE step[c] = "init" /\ k = sock[c]
    <3>1. k \in Dialling
      BY <2>1, PoolAssumption DEF Dialling
    <3> QED BY <2>1, <3>1 DEF CallInv, Sockets, ChildrenOwned, Parents
  <2>2. CASE step[c] \in {"send", "recv"} /\ k = conn[c]
    <3>1. Using(c)
      BY <2>2, Places DEF CallInv
    <3>2. k \in open /\ serverName[k] = server[c]
      BY <2>2, <3>1, Owners DEF IInv, ExclusiveUse, Using
    <3> QED BY <3>2 DEF CallInv, Sockets, ChildrenOwned, Parents
  <2> QED BY <2>1, <2>2 DEF WaitsFor
<1> QED BY <1>1, CallInvAlways, ParentsAlways, PTL

-----------------------------------------------------------------------------
(* If no server fails by itself, a process is only ever gone because the
   context of the task that dialled it is, and only that makes a call fail. *)
KilledByOwner ==
    ~MayCrash =>
        /\ \A k \in Conns : peer[k] = "down" => Killed(k)
        /\ \A c \in Callers : step[c] = "error" => peer[conn[c]] = "down"

LEMMA KilledStep ==
    ASSUME IInv, IInv', CallInv, CallInv', KilledByOwner, ~MayCrash, [CallNext]_allVars
    PROVE  KilledByOwner'
<1> USE PoolAssumption, ToolCallAssumption DEF CallInv, DataTyped
<1>0. /\ \A c \in Callers : step[c] = "error" => conn[c] \in open
      /\ \A c, d \in Callers : step[c] = "error" /\ Using(d) /\ conn[c] = conn[d] => c = d
      /\ open \subseteq Conns
  BY Owners, Places
<1>1. ASSUME UNCHANGED <<ctx, dialer, peer>>,
             \A c \in Callers : step'[c] = "error" =>
                 \/ step[c] = "error" /\ conn'[c] = conn[c]
                 \/ peer[conn'[c]] = "down"
      PROVE  KilledByOwner'
  BY <1>1 DEF KilledByOwner, Killed
<1>2. ASSUME NEW c \in Callers, NEW t \in Tasks, NEW s \in Servers, Begin(c, t, s)
      PROVE  KilledByOwner'
  <2>1. /\ UNCHANGED <<ctx, dialer, peer>> /\ step'[c] # "error"
        /\ \A d \in Callers : d # c => step'[d] = step[d] /\ conn'[d] = conn[d]
    <3>1. CASE GetHit(c, s) /\ step' = [step EXCEPT ![c] = "send"]
      BY <1>2, <3>1, HitFacts DEF Begin
    <3>2. CASE GetReserve(c, s) /\ step' = [step EXCEPT ![c] = "start"]
      BY <1>2, <3>2, ReserveFacts DEF Begin
    <3> QED BY <1>2, <3>1, <3>2 DEF Begin
  <2> QED BY <1>1, <2>1
<1>3. ASSUME NEW c \in Callers, Connect(c)
      PROVE  KilledByOwner'
  <2>1. PICK k \in Conns \ (open \cup Dialling) :
            /\ dialer' = [dialer EXCEPT ![k] = IF server[c] \in Stdio THEN task[c] ELSE NoTask]
            /\ peer' = [peer EXCEPT ![k] = "up"]
    BY <1>3 DEF Connect
  <2>2. UNCHANGED <<ctx, conn>> /\ \A d \in Callers : step'[d] = "error" => step[d] = "error"
    BY <1>3 DEF Connect, vars
  <2>3. \A j \in Conns : peer'[j] = "down" => peer[j] = "down" /\ dialer'[j] = dialer[j]
    BY <2>1
  <2>4. \A j \in open : peer'[j] = peer[j]
    BY <1>0, <2>1
  <2> QED BY <1>0, <2>2, <2>3, <2>4 DEF KilledByOwner, Killed
<1>4. ASSUME NEW c \in Callers, ConnectFails(c) \/ InitializeFails(c)
      PROVE  KilledByOwner'
  <2>1. /\ UNCHANGED <<ctx, conn>> /\ \A d \in Callers : step'[d] = "error" => step[d] = "error"
        /\ \A j \in Conns : \/ peer'[j] = peer[j] /\ dialer'[j] = dialer[j]
                            \/ step[c] = "init" /\ j = sock[c] /\ peer'[j] = "none"
    BY <1>4 DEF ConnectFails, InitializeFails, DialErr, Hangup
  <2>2. step[c] = "init" => sock[c] \notin open
    BY DEF Sockets
  <2> QED BY <1>0, <2>1, <2>2 DEF KilledByOwner, Killed
<1>5. ASSUME NEW c \in Callers, Initialize(c)
      PROVE  KilledByOwner'
  <2>1. /\ UNCHANGED <<ctx, dialer, peer>> /\ step'[c] # "error"
        /\ \A d \in Callers : d # c => step'[d] = step[d] /\ conn'[d] = conn[d]
    BY <1>5, DialFacts DEF Initialize
  <2> QED BY <1>1, <2>1
<1>6. ASSUME NEW c \in Callers, Send(c) \/ Recv(c) \/ RecvFails(c)
      PROVE  KilledByOwner'
  <2>1. /\ UNCHANGED <<ctx, dialer, peer, conn>>
        /\ \A d \in Callers : step'[d] = "error" => step[d] = "error" \/ peer[conn[d]] = "down"
    BY <1>6 DEF Send, Recv, RecvFails, vars
  <2> QED BY <1>1, <2>1
<1>7. ASSUME ctx' = ctx, Hangup(open \ open'),
             \A d \in Callers : step'[d] = "error" =>
                 step[d] = "error" /\ conn'[d] = conn[d] /\ conn[d] \in open'
      PROVE  KilledByOwner'
  <2>1. \A j \in Conns : \/ peer'[j] = peer[j] /\ dialer'[j] = dialer[j]
                         \/ peer'[j] = "none"
    BY <1>7 DEF Hangup
  <2>2. \A j \in Conns : j \in open' => peer'[j] = peer[j]
    BY <1>7 DEF Hangup
  <2>3. \A d \in Callers : step'[d] = "error" => peer'[conn'[d]] = "down"
    BY <1>0, <1>7, <2>2 DEF KilledByOwner
  <2>4. ASSUME NEW j \in Conns, peer'[j] = "down" PROVE Killed(j)'
    <3>1. peer[j] = "down" /\ dialer'[j] = dialer[j]
      BY <2>1, <2>4
    <3>2. Killed(j)
      BY <3>1 DEF KilledByOwner
    <3> QED BY <1>7, <3>1, <3>2 DEF Killed
  <2> QED BY <2>3, <2>4 DEF KilledByOwner
<1>8. ASSUME NEW c \in Callers, Finish(c)
      PROVE  KilledByOwner'
  <2>1. PICK healthy \in BOOLEAN : Return(c, healthy)
    BY <1>8 DEF Finish, GivesBack, Put, Discard
  <2>2. /\ Using(c) /\ open' \in {open, open \ {conn[c]}}
        /\ \A d \in Callers : d # c => conn'[d] = conn[d]
    BY <2>1, ReturnFacts
  <2>3. /\ step'[c] = "none" /\ \A d \in Callers : d # c => step'[d] = step[d]
        /\ ctx' = ctx /\ Hangup(open \ open')
    BY <1>8 DEF Finish
  <2>4. \A d \in Callers : step'[d] = "error" =>
            step[d] = "error" /\ conn'[d] = conn[d] /\ conn[d] \in open'
    BY <1>0, <2>2, <2>3
  <2> QED BY <1>7, <2>3, <2>4
<1>9. ASSUME PoolOnly
      PROVE  KilledByOwner'
  <2>1. UNCHANGED <<pc, conn, step, ctx>> /\ Hangup(open \ open')
    BY <1>9, CloseFacts DEF PoolOnly
  <2>2. \A d \in Callers : step[d] = "error" => conn[d] \in open'
    BY <1>9, CloseFacts, Places DEF PoolOnly
  <2> QED BY <1>7, <2>1, <2>2
<1>10. ASSUME NEW k \in Conns, Kill(k)
      PROVE  KilledByOwner'
  <2>1. /\ UNCHANGED <<ctx, dialer, conn, step>> /\ Killed(k)
        /\ peer' = [peer EXCEPT ![k] = "down"]
    BY <1>10 DEF Kill, vars
  <2>2. \A j \in Conns : peer'[j] = "down" => j = k \/ peer[j] = "down"
    BY <2>1
  <2>3. \A c \in Callers : step[c] = "error" => peer'[conn[c]] = "down"
    BY <1>0, <2>1 DEF KilledByOwner
  <2> QED BY <2>1, <2>2, <2>3 DEF KilledByOwner, Killed
<1>11. ASSUME NEW k \in Conns, Answer(k) \/ Notify(k)
      PROVE  KilledByOwner'
  BY <1>1, <1>11 DEF Answer, Notify, vars
<1>12. ASSUME NEW t \in Tasks, Stop(t) \/ Over(t)
      PROVE  KilledByOwner'
  <2>1. /\ UNCHANGED <<dialer, peer, conn, step>>
        /\ \A u \in Tasks : ctx[u] # "live" => ctx'[u] # "live"
    BY <1>12 DEF Stop, Over, vars
  <2> QED BY <2>1 DEF KilledByOwner, Killed
<1>13. ASSUME UNCHANGED allVars PROVE KilledByOwner'
  BY <1>1, <1>13 DEF allVars, vars, callVars
<1>14. \A k \in Conns : ~Crash(k)
  BY DEF Crash
<1> QED BY <1>2, <1>3, <1>4, <1>5, <1>6, <1>8, <1>9, <1>10, <1>11, <1>12, <1>13, <1>14
        DEF CallNext, CallerNext

(* If servers do not fail by themselves, a call fails only on the process of a
   task that is over or was stopped: the defect that the run toolcall_reuse
   shows is the only one of its kind, and no WebSocket call meets it. *)
ErrorsHaveOwner ==
    ~MayCrash => \A c \in Callers : step[c] = "error" => Killed(conn[c])

THEOREM OnlyOwnersKill == CallSpec => []ErrorsHaveOwner
<1>1. CallInit => KilledByOwner
  BY DEF CallInit, KilledByOwner
<1>2. (IInv /\ CallInv) /\ (IInv /\ CallInv)' /\ KilledByOwner /\ [CallNext]_allVars => KilledByOwner'
  <2>1. CASE MayCrash
    BY <2>1 DEF KilledByOwner
  <2>2. CASE ~MayCrash
    BY <2>2, KilledStep
  <2> QED BY <2>1, <2>2
<1>3. IInv /\ CallInv /\ KilledByOwner => ErrorsHaveOwner
  <2> SUFFICES ASSUME IInv, CallInv, KilledByOwner, ~MayCrash, NEW c \in Callers, step[c] = "error"
               PROVE  Killed(conn[c])
    BY DEF ErrorsHaveOwner
  <2>1. conn[c] \in Conns
    BY Places DEF CallInv
  <2> QED BY <2>1 DEF KilledByOwner
<1> QED BY <1>1, <1>2, <1>3, CallInvAlways, PTL DEF CallSpec

-----------------------------------------------------------------------------
(* When the pool is closed and no step is in it, no process runs and no socket
   is open, handshakes that were under way when Close ran included. *)
ClosedIsQuiet ==
    closed /\ (\A c \in Callers : pc[c] = "out") => \A k \in Conns : peer[k] = "none"

THEOREM ClosedLeavesNothing == CallSpec => []ClosedIsQuiet
<1>1. RestIsReleased /\ CallInv => ClosedIsQuiet
  <2> SUFFICES ASSUME RestIsReleased, CallInv, closed, \A c \in Callers : pc[c] = "out"
               PROVE  \A k \in Conns : peer[k] = "none"
    BY DEF ClosedIsQuiet
  <2>1. open = {}
    BY DEF RestIsReleased
  <2>2. Dialling = {}
    BY DEF CallInv, Placed, Dialling
  <2> QED BY <2>1, <2>2 DEF CallInv, Sockets, ChildrenOwned
<1> QED BY <1>1, ImplementsPool, ClosedAtRest, CallInvAlways, PTL
=============================================================================
