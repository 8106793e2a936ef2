-------------------------------- MODULE Pool --------------------------------
(***************************************************************************)
(* The connection pool of mcp-go (pool/pool.go), the only state the step   *)
(* goroutines of different tasks share besides the task store.             *)
(*                                                                         *)
(* A caller is a goroutine inside executor.executeStep: it takes one       *)
(* connection with Get, uses it for one tool call, and gives it back with  *)
(* Put or with Discard.  Get drops the mutex while it dials, so a caller   *)
(* that reserved a slot and has no connection yet is a state of its own.   *)
(* Everything else runs under the mutex and is one step.                   *)
(***************************************************************************)
EXTENDS Integers, Sequences, FiniteSets, Functions

CONSTANTS
    Servers,    \* server names, the keys of the pool's maps
    Callers,    \* goroutines that call Get
    Conns,      \* identities of transports; a closed one may be dialled again
    MaxOpen,    \* Config.MaxOpen
    MaxIdle,    \* Config.MaxIdle
    NoConn      \* "holds no connection"

ASSUME PoolAssumption ==
    /\ MaxOpen \in Nat \ {0} \* New replaces values <= 0 by defaults
    /\ MaxIdle \in Nat \ {0}
    /\ NoConn \notin Conns
    /\ IsFiniteSet(Callers)

VARIABLES
    idle,        \* Pool.conns: per server, the idle connections, oldest first
    activeCount, \* Pool.activeCount
    closed,      \* Pool.closed
    serverName,  \* Conn.ServerName of each dialled connection
    open,        \* the transports that are open
    pc,          \* per caller: outside the pool, dialing, or using a connection
    server,      \* per caller: the server name it gave to Get
    conn         \* per caller: the connection Get returned to it

poolVars == <<idle, activeCount, closed, serverName, open>>
vars == <<idle, activeCount, closed, serverName, open, pc, server, conn>>

-----------------------------------------------------------------------------
Busy(s) == {c \in Callers : pc[c] # "out" /\ server[c] = s}
IdleSet(s) == Range(idle[s])
Held == {conn[c] : c \in {d \in Callers : pc[d] = "using"}}

Init ==
    /\ idle = [s \in Servers |-> <<>>]
    /\ activeCount = [s \in Servers |-> 0]
    /\ closed = FALSE
    /\ serverName \in [Conns -> Servers]
    /\ open = {}
    /\ pc = [c \in Callers |-> "out"]
    /\ server \in [Callers -> Servers]
    /\ conn = [c \in Callers |-> NoConn]

-----------------------------------------------------------------------------
(* Get.  A call that finds the pool closed or the server at its limit      *)
(* returns an error and changes nothing.                                   *)

\* The idle connection Get hands out: the one used last.
Pick(s) == idle[s][Len(idle[s])]
\* Faulty variant: the list gives up its oldest connection, not the one handed out.
RestAfterPickOldest(s) == SubSeq(idle[s], 2, Len(idle[s]))

RestAfterPick(s) == SubSeq(idle[s], 1, Len(idle[s]) - 1)

GetHit(c, s) ==
    /\ pc[c] = "out"
    /\ ~closed
    /\ idle[s] # <<>>
    /\ idle' = [idle EXCEPT ![s] = RestAfterPick(s)]
    /\ activeCount' = [activeCount EXCEPT ![s] = @ + 1]
    /\ pc' = [pc EXCEPT ![c] = "using"]
    /\ server' = [server EXCEPT ![c] = s]
    /\ conn' = [conn EXCEPT ![c] = Pick(s)]
    /\ UNCHANGED <<closed, serverName, open>>

\* Faulty variant: off by one.
AtLimit(s) == activeCount[s] <= MaxOpen

BelowLimit(s) == activeCount[s] < MaxOpen

\* No idle connection: reserve a slot, then dial with the mutex released.
GetReserve(c, s) ==
    /\ pc[c] = "out"
    /\ ~closed
    /\ idle[s] = <<>>
    /\ BelowLimit(s)
    /\ activeCount' = [activeCount EXCEPT ![s] = @ + 1]
    /\ pc' = [pc EXCEPT ![c] = "dialing"]
    /\ server' = [server EXCEPT ![c] = s]
    /\ UNCHANGED <<idle, closed, serverName, open, conn>>

\* The dial succeeds, whether or not the pool was closed in the meantime.
DialOk(c) ==
    /\ pc[c] = "dialing"
    /\ \E k \in Conns \ open :
        /\ open' = open \cup {k}
        /\ serverName' = [serverName EXCEPT ![k] = server[c]]
        /\ conn' = [conn EXCEPT ![c] = k]
    /\ pc' = [pc EXCEPT ![c] = "using"]
    /\ UNCHANGED <<idle, activeCount, closed, server>>

\* Faulty variant: the reservation of a failed dial is forgotten.
AfterDialErrorKept(s) == activeCount

\* A failed dial gives its reservation back.
AfterDialError(s) == [activeCount EXCEPT ![s] = @ - 1]

DialErr(c) ==
    /\ pc[c] = "dialing"
    /\ activeCount' = AfterDialError(server[c])
    /\ pc' = [pc EXCEPT ![c] = "out"]
    /\ UNCHANGED <<idle, closed, serverName, open, server, conn>>

-----------------------------------------------------------------------------
(* Put and Discard.  Discard clears Conn.Healthy, which only the caller    *)
(* that holds the connection can see, and calls Put.                       *)

\* Faulty variant: no look at closed.
KeepsWhenClosed(k, healthy) == healthy /\ Len(idle[serverName[k]]) < MaxIdle

Keeps(k, healthy) ==
    /\ ~closed
    /\ healthy
    /\ Len(idle[serverName[k]]) < MaxIdle

\* Faulty variant: the transport is dropped without closing it.
DropOpen(k) == UNCHANGED <<idle, open>>

\* Put drops the connection, or appends it to the idle list of its server.
Drop(k) ==
    /\ open' = open \ {k}
    /\ UNCHANGED idle

Shelve(k) ==
    /\ idle' = [idle EXCEPT ![serverName[k]] = Append(@, k)]
    /\ UNCHANGED open

Return(c, healthy) ==
    /\ pc[c] = "using"
    /\ activeCount' = [activeCount EXCEPT ![serverName[conn[c]]] = @ - 1]
    /\ IF Keeps(conn[c], healthy) THEN Shelve(conn[c]) ELSE Drop(conn[c])
    /\ pc' = [pc EXCEPT ![c] = "out"]
    /\ conn' = [conn EXCEPT ![c] = NoConn]
    /\ UNCHANGED <<closed, serverName, server>>

Put(c) == Return(c, TRUE)
Discard(c) == Return(c, FALSE)

-----------------------------------------------------------------------------
(* Close and the reaper.                                                   *)

AllIdle == UNION {IdleSet(s) : s \in Servers}

\* Close empties the idle lists; connections in use are closed by their Put.
Close ==
    /\ ~closed
    /\ closed' = TRUE
    /\ open' = open \ AllIdle
    /\ idle' = [s \in Servers |-> <<>>]
    /\ UNCHANGED <<activeCount, serverName, pc, server, conn>>

\* One tick of the reaper.  LastUsed never decreases along an idle list (Put
\* appends with the current time), so what has expired is a prefix of it.
Expired(s, n) == Range(SubSeq(idle[s], 1, n))

Reap ==
    /\ ~closed
    /\ \E n \in [Servers -> 0 .. MaxOpen] :
        /\ \A s \in Servers : n[s] <= Len(idle[s])
        /\ \E s \in Servers : n[s] > 0
        /\ idle' = [s \in Servers |-> SubSeq(idle[s], n[s] + 1, Len(idle[s]))]
        /\ open' = open \ UNION {Expired(s, n[s]) : s \in Servers}
    /\ UNCHANGED <<activeCount, closed, serverName, pc, server, conn>>

-----------------------------------------------------------------------------
Next ==
    \/ \E c \in Callers, s \in Servers : GetHit(c, s) \/ GetReserve(c, s)
    \/ \E c \in Callers : DialOk(c) \/ DialErr(c) \/ Put(c) \/ Discard(c)
    \/ Close
    \/ Reap

Spec == Init /\ [][Next]_vars

\* A dial and a tool call end: both are given the task's context, which the
\* executor's timeout bounds.  (A transport that ignores the context breaks
\* this; see the run executor_deadline_hang.)
Fairness ==
    \A c \in Callers : WF_vars(DialOk(c) \/ DialErr(c)) /\ WF_vars(Put(c) \/ Discard(c))

FairSpec == Spec /\ Fairness

-----------------------------------------------------------------------------
(* Properties.                                                             *)

\* The counter stays between zero and MaxOpen, every index the code computes
\* is one the lists and maps have.
TypeOK ==
    /\ idle \in [Servers -> Seq(Conns)]
    /\ activeCount \in [Servers -> 0 .. MaxOpen]
    /\ closed \in BOOLEAN
    /\ serverName \in [Conns -> Servers]
    /\ open \subseteq Conns
    /\ pc \in [Callers -> {"out", "dialing", "using"}]
    /\ server \in [Callers -> Servers]
    /\ conn \in [Callers -> Conns \cup {NoConn}]

\* The counter that admits new connections counts exactly the callers that
\* reserved or hold one: no path through Get, a failed dial, Put or Discard
\* gives back a slot twice or never.
ActiveIsExact == \A s \in Servers : activeCount[s] = Cardinality(Busy(s))

\* "MaxOpen: maximum open connections per server", which Get compares only with
\* the active ones, and "MaxIdle: maximum idle connections per server".
OpenWithinLimit ==
    \A s \in Servers : Cardinality(Busy(s)) + Len(idle[s]) <= MaxOpen

IdleWithinLimit ==
    \A s \in Servers : Len(idle[s]) <= IF closed THEN 0 ELSE MaxIdle

\* Connections in use, dials in flight and idle connections of one server
\* together stay within MaxOpen, idle ones within MaxIdle, and a closed pool
\* keeps none.
WithinLimits == OpenWithinLimit /\ IdleWithinLimit

\* A connection has one owner: two callers never hold the same one, nobody
\* holds one that sits in an idle list, no list holds one twice, and a caller
\* only gets a connection that was dialled to the server it asked for.
ExclusiveUse ==
    /\ \A c, d \in Callers :
        pc[c] = "using" /\ pc[d] = "using" /\ conn[c] = conn[d] => c = d
    /\ \A c \in Callers : pc[c] = "using" =>
        /\ conn[c] \in Conns
        /\ serverName[conn[c]] = server[c]
        /\ \A s \in Servers : conn[c] \notin IdleSet(s)
    /\ \A s \in Servers : \A i, j \in 1 .. Len(idle[s]) :
        idle[s][i] = idle[s][j] => i = j
    /\ \A s \in Servers : \A k \in IdleSet(s) : serverName[k] = s

\* Exactly the transports somebody uses or the pool keeps are open: none is
\* closed under a caller or while idle, and none is dropped without a Close.
NoLeak == open = Held \cup AllIdle

\* After Close every transport is closed in the end, also one whose dial was
\* in flight when Close ran and so was in no list Close could see.
CloseReleasesAll == closed ~> (open = {} /\ \A s \in Servers : activeCount[s] = 0)
=============================================================================
