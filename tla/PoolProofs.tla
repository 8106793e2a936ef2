----------------------------- MODULE PoolProofs -----------------------------
(***************************************************************************)
(* What the runs of Pool show for a few callers, proved for any servers,   *)
(* any connections, any limits and any finite number of callers.           *)
(***************************************************************************)
EXTENDS Pool, FiniteSetTheorems, TLAPS

(* The part of the argument that is about counting. *)
Counting ==
    /\ ActiveIsExact
    /\ \A s \in Servers : activeCount[s] + Len(idle[s]) <= MaxOpen
    /\ IdleWithinLimit

(* The inductive invariant.  NoLeak is what makes a freshly dialled transport
   different from every connection in use or idle, ExclusiveUse is what makes
   closing a transport safe for everybody else: neither is inductive alone. *)
IInv == TypeOK /\ Counting /\ ExclusiveUse /\ NoLeak

-----------------------------------------------------------------------------
(* The three ways the code changes an idle list: taking the last connection,
   appending one, and cutting off an expired prefix. *)
NoDup(q) == \A i, j \in 1 .. Len(q) : q[i] = q[j] => i = j

LEMMA PickFacts ==
    ASSUME NEW S, NEW q \in Seq(S), q # <<>>, NoDup(q)
    PROVE  /\ SubSeq(q, 1, Len(q) - 1) \in Seq(S)
           /\ Len(SubSeq(q, 1, Len(q) - 1)) = Len(q) - 1
           /\ NoDup(SubSeq(q, 1, Len(q) - 1))
           /\ q[Len(q)] \in Range(q)
           /\ Range(SubSeq(q, 1, Len(q) - 1)) = Range(q) \ {q[Len(q)]}
<1> DEFINE r == SubSeq(q, 1, Len(q) - 1)
<1>1. Len(q) \in Nat \ {0} /\ DOMAIN q = 1 .. Len(q)
  OBVIOUS
<1>2. r \in Seq(S) /\ Len(r) = Len(q) - 1 /\ \A i \in 1 .. Len(q) - 1 : r[i] = q[i]
  BY <1>1
<1>3. DOMAIN r = 1 .. Len(q) - 1
  BY <1>2
<1> HIDE DEF r
<1>4. NoDup(r)
  BY <1>1, <1>2 DEF NoDup
<1>5. q[Len(q)] \in Range(q)
  BY <1>1 DEF Range
<1>6. Range(r) = Range(q) \ {q[Len(q)]}
  BY <1>1, <1>2, <1>3 DEF Range, NoDup
<1> QED BY <1>2, <1>4, <1>5, <1>6 DEF r

LEMMA AppendFacts ==
    ASSUME NEW S, NEW q \in Seq(S), NEW k \in S, k \notin Range(q), NoDup(q)
    PROVE  /\ Append(q, k) \in Seq(S)
           /\ Len(Append(q, k)) = Len(q) + 1
           /\ NoDup(Append(q, k))
           /\ Range(Append(q, k)) = Range(q) \cup {k}
<1> DEFINE r == Append(q, k)
<1>1. Len(q) \in Nat /\ DOMAIN q = 1 .. Len(q)
  OBVIOUS
<1>2. /\ r \in Seq(S)
      /\ Len(r) = Len(q) + 1
      /\ \A i \in 1 .. Len(q) : r[i] = q[i]
      /\ r[Len(q) + 1] = k
  BY <1>1
<1>3. DOMAIN r = 1 .. Len(q) + 1
  BY <1>2
<1> HIDE DEF r
<1>4. NoDup(r)
  BY <1>1, <1>2 DEF NoDup, Range
<1>5. Range(r) = Range(q) \cup {k}
  BY <1>1, <1>2, <1>3 DEF Range
<1> QED BY <1>2, <1>4, <1>5 DEF r

LEMMA SuffixShape ==
    ASSUME NEW S, NEW q \in Seq(S), NEW n \in 0 .. Len(q)
    PROVE  /\ SubSeq(q, n + 1, Len(q)) \in Seq(S)
           /\ Len(SubSeq(q, n + 1, Len(q))) = Len(q) - n
           /\ \A i \in 1 .. Len(q) - n : SubSeq(q, n + 1, Len(q))[i] = q[n + i]
<1>1. SubSeq(q, n + 1, Len(q)) \in Seq(S)
  OBVIOUS
<1>2. Len(SubSeq(q, n + 1, Len(q))) = Len(q) - n
  OBVIOUS
<1>3. ASSUME NEW i \in 1 .. Len(q) - n
      PROVE  SubSeq(q, n + 1, Len(q))[i] = q[n + i]
  OBVIOUS
<1> QED BY <1>1, <1>2, <1>3

LEMMA CutFacts ==
    ASSUME NEW S, NEW q \in Seq(S), NEW n \in 0 .. Len(q), NoDup(q)
    PROVE  /\ SubSeq(q, n + 1, Len(q)) \in Seq(S)
           /\ Len(SubSeq(q, n + 1, Len(q))) = Len(q) - n
           /\ NoDup(SubSeq(q, n + 1, Len(q)))
           /\ Range(SubSeq(q, 1, n)) \subseteq Range(q)
           /\ Range(SubSeq(q, n + 1, Len(q))) = Range(q) \ Range(SubSeq(q, 1, n))
<1> DEFINE a == SubSeq(q, 1, n)
           b == SubSeq(q, n + 1, Len(q))
<1>1. Len(q) \in Nat /\ n \in Nat /\ n <= Len(q) /\ DOMAIN q = 1 .. Len(q)
  OBVIOUS
<1>2. a \in Seq(S) /\ Len(a) = n /\ \A i \in 1 .. n : a[i] = q[i]
  BY <1>1
<1>3. b \in Seq(S) /\ Len(b) = Len(q) - n /\ \A i \in 1 .. Len(q) - n : b[i] = q[n + i]
  BY SuffixShape
<1>4. DOMAIN a = 1 .. n /\ DOMAIN b = 1 .. Len(q) - n
  BY <1>2, <1>3
<1> HIDE DEF a, b
<1>5. NoDup(b)
  BY <1>1, <1>3 DEF NoDup
<1>6. Range(a) \subseteq Range(q)
  BY <1>1, <1>2, <1>4 DEF Range
<1>7. ASSUME NEW x \in Range(b)
      PROVE  x \in Range(q) \ Range(a)
  <2>1. PICK i \in 1 .. Len(q) - n : b[i] = x
    BY <1>4 DEF Range
  <2>2. n + i \in 1 .. Len(q) /\ q[n + i] = x /\ n + i > n
    BY <1>1, <1>3, <2>1
  <2>3. \A j \in 1 .. n : a[j] # x
    BY <1>1, <1>2, <2>2 DEF NoDup
  <2> QED BY <1>1, <1>4, <2>2, <2>3 DEF Range
<1>8. ASSUME NEW x \in Range(q) \ Range(a)
      PROVE  x \in Range(b)
  <2>1. PICK i \in 1 .. Len(q) : q[i] = x
    BY <1>1 DEF Range
  <2>2. i > n
    BY <1>1, <1>2, <1>4, <2>1 DEF Range
  <2>3. i - n \in 1 .. Len(q) - n /\ b[i - n] = q[n + (i - n)] /\ n + (i - n) = i
    BY <1>1, <1>3, <2>1, <2>2
  <2> QED BY <1>4, <2>1, <2>3 DEF Range
<1> QED BY <1>3, <1>5, <1>6, <1>7, <1>8 DEF a, b

-----------------------------------------------------------------------------
(* The caller c entering or leaving the pool changes the busy callers of one
   server by one. *)
LEMMA BusyGrows ==
    ASSUME PoolAssumption, TypeOK, NEW c \in Callers, NEW s \in Servers,
           pc[c] = "out", pc'[c] # "out", server'[c] = s,
           \A d \in Callers \ {c} : pc'[d] = pc[d] /\ server'[d] = server[d],
           ActiveIsExact
    PROVE  \A t \in Servers :
             Cardinality(Busy(t)') = IF t = s THEN activeCount[t] + 1 ELSE activeCount[t]
<1> TAKE t \in Servers
<1>1. IsFiniteSet(Busy(t)) /\ Cardinality(Busy(t)) = activeCount[t]
  BY FS_Subset DEF PoolAssumption, Busy, ActiveIsExact
<1>2. CASE t = s
  <2>1. Busy(t)' = Busy(t) \cup {c} /\ c \notin Busy(t)
    BY <1>2 DEF Busy
  <2>2. Cardinality(Busy(t) \cup {c}) = Cardinality(Busy(t)) + 1
    BY <1>1, <2>1, FS_AddElement
  <2> QED BY <1>1, <1>2, <2>1, <2>2
<1>3. CASE t # s
  <2>1. Busy(t)' = Busy(t)
    BY <1>3 DEF Busy
  <2> QED BY <1>1, <1>3, <2>1
<1> QED BY <1>2, <1>3

LEMMA BusyShrinks ==
    ASSUME PoolAssumption, TypeOK, NEW c \in Callers,
           pc[c] # "out", pc'[c] = "out",
           \A d \in Callers \ {c} : pc'[d] = pc[d] /\ server'[d] = server[d],
           ActiveIsExact
    PROVE  /\ activeCount[server[c]] >= 1
           /\ \A t \in Servers : Cardinality(Busy(t)') =
                IF t = server[c] THEN activeCount[t] - 1 ELSE activeCount[t]
<1>0. \A t \in Servers :
        IsFiniteSet(Busy(t)) /\ Cardinality(Busy(t)) = activeCount[t] /\ activeCount[t] \in Int
  BY FS_Subset DEF PoolAssumption, Busy, ActiveIsExact, TypeOK
<1>1. activeCount[server[c]] >= 1
  <2>1. server[c] \in Servers /\ c \in Busy(server[c])
    BY DEF Busy, TypeOK
  <2>2. Cardinality(Busy(server[c])) # 0
    BY <1>0, <2>1, FS_EmptySet
  <2>3. Cardinality(Busy(server[c])) \in Nat
    BY <1>0, <2>1, FS_CardinalityType
  <2> QED BY <1>0, <2>1, <2>2, <2>3
<1>2. ASSUME NEW t \in Servers
      PROVE  Cardinality(Busy(t)') =
               IF t = server[c] THEN activeCount[t] - 1 ELSE activeCount[t]
  <2>1. CASE t = server[c]
    <3>1. Busy(t)' = Busy(t) \ {c} /\ c \in Busy(t)
      BY <2>1 DEF Busy
    <3>2. Cardinality(Busy(t) \ {c}) = Cardinality(Busy(t)) - 1
      BY <1>0, <3>1, FS_RemoveElement
    <3> QED BY <1>0, <2>1, <3>1, <3>2
  <2>2. CASE t # server[c]
    <3>1. Busy(t)' = Busy(t)
      BY <2>2 DEF Busy
    <3> QED BY <1>0, <2>2, <3>1
  <2> QED BY <2>1, <2>2
<1> QED BY <1>1, <1>2

-----------------------------------------------------------------------------
LEMMA IdleSetConns == ASSUME TypeOK PROVE \A s \in Servers : IdleSet(s) \subseteq Conns
<1> TAKE s \in Servers
<1>1. idle[s] \in Seq(Conns)
  BY DEF TypeOK
<1>2. \A i \in DOMAIN idle[s] : idle[s][i] \in Conns
  BY <1>1
<1> QED BY <1>2 DEF IdleSet, Range

LEMMA InitIInv == ASSUME PoolAssumption, Init PROVE IInv
<1>1. TypeOK
  <2>1. idle \in [Servers -> Seq(Conns)]
    BY DEF Init
  <2>2. activeCount \in [Servers -> 0 .. MaxOpen]
    BY DEF PoolAssumption, Init
  <2>6. closed \in BOOLEAN
    BY DEF Init
  <2>4. /\ serverName \in [Conns -> Servers]
        /\ open \subseteq Conns
        /\ server \in [Callers -> Servers]
    BY DEF Init
  <2>5. /\ pc \in [Callers -> {"out", "dialing", "using"}]
        /\ conn \in [Callers -> Conns \cup {NoConn}]
    BY DEF Init
  <2> QED BY <2>1, <2>2, <2>4, <2>5, <2>6 DEF TypeOK
<1>2. ActiveIsExact
  <2>1. \A s \in Servers : Busy(s) = {}
    BY DEF Init, Busy
  <2> QED BY <2>1, FS_EmptySet DEF Init, ActiveIsExact
<1>3. Counting
  BY <1>2 DEF PoolAssumption, Init, Counting, IdleWithinLimit
<1>4. ExclusiveUse
  BY DEF Init, ExclusiveUse, IdleSet, Range
<1>5. NoLeak
  BY DEF Init, NoLeak, Held, AllIdle, IdleSet, Range
<1> QED BY <1>1, <1>3, <1>4, <1>5 DEF IInv

-----------------------------------------------------------------------------
(* One lemma per action. *)
LEMMA GetHitStep ==
    ASSUME PoolAssumption, IInv, NEW c \in Callers, NEW s \in Servers, GetHit(c, s)
    PROVE  IInv'
<1> USE DEF IInv
<1> DEFINE k == Pick(s)
<1>1. /\ idle[s] \in Seq(Conns) /\ idle[s] # <<>> /\ NoDup(idle[s])
      /\ Len(idle[s]) \in Nat /\ Len(idle[s]) >= 1
  BY DEF TypeOK, GetHit, ExclusiveUse, NoDup
<1>2. /\ idle'[s] \in Seq(Conns)
      /\ Len(idle'[s]) = Len(idle[s]) - 1
      /\ NoDup(idle'[s])
      /\ k \in IdleSet(s)
      /\ IdleSet(s)' = IdleSet(s) \ {k}
  BY <1>1, PickFacts DEF TypeOK, GetHit, Pick, RestAfterPick, IdleSet
<1>3. \A t \in Servers \ {s} : idle'[t] = idle[t] /\ IdleSet(t)' = IdleSet(t)
  BY DEF TypeOK, GetHit, IdleSet
<1>4. k \in Conns /\ serverName[k] = s /\ k \notin Held
  BY <1>1, <1>2 DEF TypeOK, ExclusiveUse, IdleSet, Range, Held
<1>5. \A t \in Servers : k \notin IdleSet(t)'
  BY <1>2, <1>3, <1>4 DEF ExclusiveUse
<1>6. /\ pc' = [pc EXCEPT ![c] = "using"]
      /\ server' = [server EXCEPT ![c] = s]
      /\ conn' = [conn EXCEPT ![c] = k]
      /\ pc[c] = "out" /\ ~closed
      /\ closed' = closed /\ serverName' = serverName /\ open' = open
      /\ activeCount' = [activeCount EXCEPT ![s] = @ + 1]
  BY DEF GetHit
<1> HIDE DEF k
<1>7. TypeOK'
  <2>1. idle' \in [Servers -> Seq(Conns)]
    BY <1>2 DEF TypeOK, GetHit
  <2>2. activeCount' \in [Servers -> 0 .. MaxOpen]
    BY <1>1, <1>6 DEF TypeOK, Counting, PoolAssumption
  <2> QED BY <1>4, <1>6, <2>1, <2>2 DEF TypeOK
<1>8. Counting'
  <2>1. ActiveIsExact'
    BY <1>6, BusyGrows DEF TypeOK, ActiveIsExact, Counting
  <2>2. ASSUME NEW t \in Servers
        PROVE  /\ activeCount'[t] + Len(idle'[t]) <= MaxOpen
               /\ Len(idle'[t]) <= IF closed' THEN 0 ELSE MaxIdle
    <3>1. /\ activeCount[t] \in Int /\ MaxOpen \in Int /\ MaxIdle \in Int
          /\ activeCount[t] + Len(idle[t]) <= MaxOpen
          /\ Len(idle[t]) <= MaxIdle
      BY <1>6 DEF TypeOK, Counting, IdleWithinLimit, PoolAssumption
    <3>2. CASE t = s
      <4>1. activeCount'[s] = activeCount[s] + 1
        BY <1>6 DEF TypeOK
      <4> QED BY <1>1, <1>2, <1>6, <3>1, <3>2, <4>1
    <3>3. CASE t # s
      <4>1. activeCount'[t] = activeCount[t] /\ idle'[t] = idle[t]
        BY <1>3, <1>6, <3>3 DEF TypeOK
      <4> QED BY <1>6, <3>1, <4>1
    <3> QED BY <3>2, <3>3
  <2>3. IdleWithinLimit'
    BY <2>2 DEF IdleWithinLimit
  <2> QED BY <2>1, <2>2, <2>3 DEF Counting
<1>9. ExclusiveUse'
  <2>1. \A d, e \in Callers :
          pc'[d] = "using" /\ pc'[e] = "using" /\ conn'[d] = conn'[e] => d = e
    BY <1>4, <1>6 DEF TypeOK, ExclusiveUse, Held
  <2>2. ASSUME NEW d \in Callers, pc'[d] = "using"
        PROVE  /\ conn'[d] \in Conns
               /\ serverName'[conn'[d]] = server'[d]
               /\ \A t \in Servers : conn'[d] \notin IdleSet(t)'
    <3>1. CASE d = c
      BY <1>4, <1>5, <1>6, <3>1 DEF TypeOK
    <3>2. CASE d # c
      <4>1. pc[d] = "using" /\ conn'[d] = conn[d] /\ server'[d] = server[d]
        BY <1>6, <2>2, <3>2 DEF TypeOK
      <4>2. \A t \in Servers : IdleSet(t)' \subseteq IdleSet(t)
        BY <1>2, <1>3
      <4> QED BY <1>6, <4>1, <4>2 DEF ExclusiveUse
    <3> QED BY <3>1, <3>2
  <2>3. \A t \in Servers : NoDup(idle'[t])
    BY <1>2, <1>3 DEF ExclusiveUse, NoDup
  <2>4. \A t \in Servers : \A x \in IdleSet(t)' : serverName'[x] = t
    BY <1>2, <1>3, <1>6 DEF ExclusiveUse
  <2> QED BY <2>1, <2>2, <2>3, <2>4 DEF ExclusiveUse, NoDup
<1>10. NoLeak'
  <2>1. Held' = Held \cup {k}
    BY <1>6 DEF TypeOK, Held
  <2>2. AllIdle' = AllIdle \ {k}
    BY <1>2, <1>3, <1>5 DEF AllIdle
  <2>3. k \in AllIdle
    BY <1>2 DEF AllIdle
  <2> QED BY <1>6, <2>1, <2>2, <2>3 DEF NoLeak
<1> QED BY <1>7, <1>8, <1>9, <1>10

LEMMA GetReserveStep ==
    ASSUME PoolAssumption, IInv, NEW c \in Callers, NEW s \in Servers, GetReserve(c, s)
    PROVE  IInv'
<1> USE DEF IInv
<1>1. /\ pc' = [pc EXCEPT ![c] = "dialing"]
      /\ server' = [server EXCEPT ![c] = s]
      /\ conn' = conn /\ idle' = idle
      /\ pc[c] = "out" /\ idle[s] = <<>> /\ activeCount[s] < MaxOpen
      /\ closed' = closed /\ serverName' = serverName /\ open' = open
      /\ activeCount' = [activeCount EXCEPT ![s] = @ + 1]
  BY DEF GetReserve, BelowLimit
<1>2. TypeOK'
  <2>1. activeCount' \in [Servers -> 0 .. MaxOpen]
    BY <1>1 DEF TypeOK, PoolAssumption
  <2> QED BY <1>1, <2>1 DEF TypeOK
<1>3. Counting'
  <2>1. ActiveIsExact'
    BY <1>1, BusyGrows DEF TypeOK, ActiveIsExact, Counting
  <2>2. \A t \in Servers : activeCount'[t] + Len(idle'[t]) <= MaxOpen
    BY <1>1 DEF TypeOK, Counting, PoolAssumption
  <2>3. IdleWithinLimit'
    BY <1>1 DEF Counting, IdleWithinLimit
  <2> QED BY <2>1, <2>2, <2>3 DEF Counting
<1>4. \A d \in Callers : pc'[d] = "using" <=> (pc[d] = "using" /\ server'[d] = server[d])
  BY <1>1 DEF TypeOK
<1>5. \A d \in Callers : pc'[d] = "using" <=> pc[d] = "using"
  BY <1>1 DEF TypeOK
<1>6. \A t \in Servers : IdleSet(t)' = IdleSet(t)
  BY <1>1 DEF IdleSet
<1>7. ExclusiveUse'
  BY <1>1, <1>4, <1>5, <1>6 DEF ExclusiveUse
<1>8. NoLeak'
  BY <1>1, <1>5, <1>6 DEF NoLeak, Held, AllIdle
<1> QED BY <1>2, <1>3, <1>7, <1>8

LEMMA DialOkStep ==
    ASSUME PoolAssumption, IInv, NEW c \in Callers, DialOk(c)
    PROVE  IInv'
<1> USE DEF IInv
<1>1. PICK k \in Conns \ open :
        /\ open' = open \cup {k}
        /\ serverName' = [serverName EXCEPT ![k] = server[c]]
        /\ conn' = [conn EXCEPT ![c] = k]
  BY DEF DialOk
<1>2. /\ pc[c] = "dialing" /\ pc' = [pc EXCEPT ![c] = "using"]
      /\ idle' = idle /\ activeCount' = activeCount
      /\ closed' = closed /\ server' = server
  BY DEF DialOk
<1>3. k \in Conns /\ k \notin Held /\ \A t \in Servers : k \notin IdleSet(t)
  BY DEF NoLeak, AllIdle
<1>4. \A t \in Servers : IdleSet(t)' = IdleSet(t)
  BY <1>2 DEF IdleSet
<1>5. TypeOK'
  BY <1>1, <1>2 DEF TypeOK
<1>6. Counting'
  <2>1. \A t \in Servers : Busy(t)' = Busy(t)
    BY <1>2 DEF TypeOK, Busy
  <2> QED BY <1>2, <2>1 DEF Counting, ActiveIsExact, IdleWithinLimit
<1>7. ExclusiveUse'
  <2>1. \A d, e \in Callers :
          pc'[d] = "using" /\ pc'[e] = "using" /\ conn'[d] = conn'[e] => d = e
    BY <1>1, <1>2, <1>3 DEF TypeOK, ExclusiveUse, Held
  <2>2. ASSUME NEW d \in Callers, pc'[d] = "using"
        PROVE  /\ conn'[d] \in Conns
               /\ serverName'[conn'[d]] = server'[d]
               /\ \A t \in Servers : conn'[d] \notin IdleSet(t)'
    <3>1. CASE d = c
      BY <1>1, <1>2, <1>3, <1>4, <3>1 DEF TypeOK
    <3>2. CASE d # c
      <4>1. pc[d] = "using" /\ conn'[d] = conn[d] /\ conn[d] # k
        BY <1>1, <1>2, <1>3, <2>2, <3>2 DEF TypeOK, Held
      <4>2. conn[d] \in Conns /\ serverName[conn[d]] = server[d]
        BY <4>1 DEF ExclusiveUse
      <4>3. serverName'[conn[d]] = serverName[conn[d]]
        BY <1>1, <4>1, <4>2 DEF TypeOK
      <4> QED BY <1>2, <1>4, <4>1, <4>2, <4>3 DEF ExclusiveUse
    <3> QED BY <3>1, <3>2
  <2>3. \A t \in Servers : NoDup(idle'[t])
    BY <1>2 DEF ExclusiveUse, NoDup
  <2>4. ASSUME NEW t \in Servers, NEW x \in IdleSet(t)'
        PROVE  serverName'[x] = t
    <3>1. x \in IdleSet(t) /\ x # k /\ x \in Conns
      BY <1>3, <1>4, IdleSetConns
    <3> QED BY <1>1, <3>1 DEF TypeOK, ExclusiveUse
  <2> QED BY <2>1, <2>2, <2>3, <2>4 DEF ExclusiveUse, NoDup
<1>8. NoLeak'
  <2>1. Held' = Held \cup {k}
    BY <1>1, <1>2 DEF TypeOK, Held
  <2> QED BY <1>1, <1>4, <2>1 DEF NoLeak, AllIdle
<1> QED BY <1>5, <1>6, <1>7, <1>8

LEMMA DialErrStep ==
    ASSUME PoolAssumption, IInv, NEW c \in Callers, DialErr(c)
    PROVE  IInv'
<1> USE DEF IInv
<1>1. /\ pc[c] = "dialing" /\ pc' = [pc EXCEPT ![c] = "out"]
      /\ activeCount' = [activeCount EXCEPT ![server[c]] = @ - 1]
      /\ idle' = idle /\ closed' = closed /\ serverName' = serverName
      /\ open' = open /\ server' = server /\ conn' = conn
  BY DEF DialErr, AfterDialError
<1>2. server[c] \in Servers /\ \A t \in Servers : activeCount[t] \in 0 .. MaxOpen
  BY DEF TypeOK
<1>3. /\ activeCount[server[c]] >= 1
      /\ \A t \in Servers : Cardinality(Busy(t)') =
           IF t = server[c] THEN activeCount[t] - 1 ELSE activeCount[t]
  BY <1>1, BusyShrinks DEF TypeOK, Counting
<1>4. TypeOK'
  <2>1. activeCount' \in [Servers -> 0 .. MaxOpen]
    BY <1>1, <1>2, <1>3 DEF TypeOK, PoolAssumption
  <2> QED BY <1>1, <2>1 DEF TypeOK
<1>5. Counting'
  <2>1. ActiveIsExact'
    BY <1>1, <1>3 DEF TypeOK, ActiveIsExact
  <2>2. \A t \in Servers : activeCount'[t] + Len(idle'[t]) <= MaxOpen
    BY <1>1, <1>2 DEF TypeOK, Counting, PoolAssumption
  <2>3. IdleWithinLimit'
    BY <1>1 DEF Counting, IdleWithinLimit
  <2> QED BY <2>1, <2>2, <2>3 DEF Counting
<1>6. \A d \in Callers : pc'[d] = "using" <=> pc[d] = "using"
  BY <1>1 DEF TypeOK
<1>7. \A t \in Servers : IdleSet(t)' = IdleSet(t)
  BY <1>1 DEF IdleSet
<1>8. ExclusiveUse'
  BY <1>1, <1>6, <1>7 DEF ExclusiveUse
<1>9. NoLeak'
  BY <1>1, <1>6, <1>7 DEF NoLeak, Held, AllIdle
<1> QED BY <1>4, <1>5, <1>8, <1>9

LEMMA ReturnStep ==
    ASSUME PoolAssumption, IInv, NEW c \in Callers, NEW healthy \in BOOLEAN,
           Return(c, healthy)
    PROVE  IInv'
<1> USE DEF IInv
<1>a. PICK k : k = conn[c]
  OBVIOUS
<1>b. PICK s : s = serverName[k]
  OBVIOUS
<1>1. /\ pc[c] = "using" /\ pc' = [pc EXCEPT ![c] = "out"]
      /\ conn' = [conn EXCEPT ![c] = NoConn]
      /\ activeCount' = [activeCount EXCEPT ![s] = @ - 1]
      /\ closed' = closed /\ serverName' = serverName /\ server' = server
  BY <1>a, <1>b DEF Return
<1>2. k \in Conns /\ s \in Servers /\ s = server[c] /\ \A t \in Servers : k \notin IdleSet(t)
  BY <1>1, <1>a, <1>b DEF TypeOK, ExclusiveUse
<1>3. /\ activeCount[s] >= 1
      /\ \A t \in Servers : Cardinality(Busy(t)') =
           IF t = s THEN activeCount[t] - 1 ELSE activeCount[t]
  BY <1>1, <1>2, BusyShrinks DEF TypeOK, Counting
<1>4. Held' = Held \ {k} /\ k \in Held
  <2>1. \A d \in Callers : pc'[d] = "using" <=> pc[d] = "using" /\ d # c
    BY <1>1 DEF TypeOK
  <2>2. \A d \in Callers \ {c} : conn'[d] = conn[d]
    BY <1>1 DEF TypeOK
  <2>3. \A d \in Callers \ {c} : pc[d] = "using" => conn[d] # k
    BY <1>1, <1>a DEF ExclusiveUse
  <2> QED BY <1>1, <1>a, <2>1, <2>2, <2>3 DEF Held
<1>5. \/ /\ ~closed /\ Len(idle[s]) < MaxIdle
         /\ idle' = [idle EXCEPT ![s] = Append(@, k)]
         /\ open' = open
      \/ /\ idle' = idle
         /\ open' = open \ {k}
  BY <1>a, <1>b DEF Return, Shelve, Drop, Keeps
<1>6. \/ /\ ~closed /\ Len(idle[s]) < MaxIdle /\ open' = open
         /\ idle'[s] \in Seq(Conns) /\ idle' = [idle EXCEPT ![s] = idle'[s]]
         /\ NoDup(idle'[s]) /\ Len(idle'[s]) = Len(idle[s]) + 1
         /\ IdleSet(s)' = IdleSet(s) \cup {k}
      \/ /\ idle' = idle /\ open' = open \ {k}
  <2>1. idle[s] \in Seq(Conns) /\ NoDup(idle[s]) /\ k \notin Range(idle[s])
    BY <1>2 DEF TypeOK, ExclusiveUse, NoDup, IdleSet
  <2>2. CASE idle' = [idle EXCEPT ![s] = Append(@, k)]
    <3>1. idle'[s] = Append(idle[s], k) /\ idle' = [idle EXCEPT ![s] = idle'[s]]
      BY <1>2, <2>2 DEF TypeOK
    <3>2. /\ idle'[s] \in Seq(Conns)
          /\ Len(idle'[s]) = Len(idle[s]) + 1
          /\ NoDup(idle'[s])
          /\ IdleSet(s)' = IdleSet(s) \cup {k}
      <4>1. /\ Append(idle[s], k) \in Seq(Conns)
            /\ Len(Append(idle[s], k)) = Len(idle[s]) + 1
            /\ NoDup(Append(idle[s], k))
            /\ Range(Append(idle[s], k)) = Range(idle[s]) \cup {k}
        BY <1>2, <2>1, AppendFacts
      <4> QED BY <3>1, <4>1 DEF IdleSet
    <3> QED BY <1>5, <3>1, <3>2
  <2>3. CASE idle' = idle
    BY <1>5, <2>3, <2>2
  <2> QED BY <1>5, <2>2, <2>3
<1>7. \A t \in Servers \ {s} : idle'[t] = idle[t] /\ IdleSet(t)' = IdleSet(t)
  BY <1>6 DEF TypeOK, IdleSet
<1>8. /\ idle'[s] \in Seq(Conns) /\ NoDup(idle'[s])
      /\ IdleSet(s)' \subseteq IdleSet(s) \cup {k}
  <2>1. CASE idle' = idle
    BY <1>2, <2>1 DEF TypeOK, ExclusiveUse, NoDup, IdleSet
  <2> QED BY <1>6, <2>1
<1>9. TypeOK'
  <2>1. idle' \in [Servers -> Seq(Conns)]
    BY <1>2, <1>6 DEF TypeOK
  <2>2. activeCount' \in [Servers -> 0 .. MaxOpen]
    <3>1. activeCount[s] - 1 \in 0 .. MaxOpen
      BY <1>2, <1>3 DEF TypeOK, PoolAssumption
    <3> QED BY <1>1, <3>1 DEF TypeOK
  <2>3. open' \subseteq Conns
    BY <1>6 DEF TypeOK
  <2> QED BY <1>1, <2>1, <2>2, <2>3 DEF TypeOK
<1>10. Counting'
  <2>1. ActiveIsExact'
    BY <1>1, <1>2, <1>3 DEF TypeOK, ActiveIsExact
  <2>2. ASSUME NEW t \in Servers
        PROVE  /\ activeCount'[t] + Len(idle'[t]) <= MaxOpen
               /\ Len(idle'[t]) <= IF closed' THEN 0 ELSE MaxIdle
    <3>1. /\ activeCount[t] \in Int /\ MaxOpen \in Int /\ MaxIdle \in Int
          /\ Len(idle[t]) \in Int
          /\ activeCount[t] + Len(idle[t]) <= MaxOpen
          /\ Len(idle[t]) <= IF closed THEN 0 ELSE MaxIdle
      BY DEF TypeOK, Counting, IdleWithinLimit, PoolAssumption
    <3>2. CASE t = s
      <4>1. activeCount'[s] = activeCount[s] - 1
        BY <1>1, <1>2 DEF TypeOK
      <4>2. CASE /\ ~closed /\ Len(idle[s]) < MaxIdle
                 /\ Len(idle'[s]) = Len(idle[s]) + 1
        BY <1>1, <3>1, <3>2, <4>1, <4>2
      <4>3. CASE idle' = idle
        BY <1>1, <3>1, <3>2, <4>1, <4>3
      <4> QED BY <1>6, <4>2, <4>3
    <3>3. CASE t # s
      <4>1. activeCount'[t] = activeCount[t] /\ idle'[t] = idle[t]
        BY <1>1, <1>7, <3>3 DEF TypeOK
      <4> QED BY <1>1, <3>1, <4>1
    <3> QED BY <3>2, <3>3
  <2> QED BY <2>1, <2>2 DEF Counting, IdleWithinLimit
<1>11. ExclusiveUse'
  <2>1. \A d \in Callers : pc'[d] = "using" =>
          pc[d] = "using" /\ d # c /\ conn'[d] = conn[d] /\ conn[d] # k
    BY <1>1, <1>a DEF TypeOK, ExclusiveUse
  <2>2. ASSUME NEW t \in Servers
        PROVE  IdleSet(t)' \subseteq IdleSet(t) \cup {k}
    <3>1. CASE t = s
      BY <1>8, <3>1
    <3>2. CASE t # s
      BY <1>7, <3>2
    <3> QED BY <3>1, <3>2
  <2>3. \A d \in Callers : pc'[d] = "using" =>
          /\ conn'[d] \in Conns
          /\ serverName'[conn'[d]] = server'[d]
          /\ \A t \in Servers : conn'[d] \notin IdleSet(t)'
    BY <1>1, <2>1, <2>2 DEF ExclusiveUse
  <2>4. \A t \in Servers : NoDup(idle'[t])
    BY <1>7, <1>8 DEF ExclusiveUse, NoDup
  <2>5. ASSUME NEW t \in Servers, NEW x \in IdleSet(t)'
        PROVE  serverName'[x] = t
    <3>1. CASE t = s
      BY <1>1, <1>8, <1>b, <3>1 DEF ExclusiveUse
    <3>2. CASE t # s
      BY <1>1, <1>7, <3>2 DEF ExclusiveUse
    <3> QED BY <3>1, <3>2
  <2> QED BY <2>1, <2>3, <2>4, <2>5 DEF ExclusiveUse, NoDup
<1>12. NoLeak'
  <2>1. CASE open' = open /\ IdleSet(s)' = IdleSet(s) \cup {k}
    <3>1. AllIdle' = AllIdle \cup {k}
      <4>1. \A t \in Servers : IdleSet(t)' \subseteq IdleSet(t) \cup {k}
        BY <1>7, <2>1
      <4>2. \A t \in Servers : IdleSet(t) \subseteq IdleSet(t)'
        BY <1>7, <2>1
      <4> QED BY <1>2, <2>1, <4>1, <4>2 DEF AllIdle
    <3> QED BY <1>4, <2>1, <3>1 DEF NoLeak
  <2>2. CASE idle' = idle /\ open' = open \ {k}
    <3>1. AllIdle' = AllIdle /\ k \notin AllIdle
      BY <1>2, <2>2 DEF AllIdle, IdleSet
    <3> QED BY <1>4, <2>2, <3>1 DEF NoLeak
  <2> QED BY <1>6, <2>1, <2>2
<1> QED BY <1>9, <1>10, <1>11, <1>12

LEMMA CloseStep == ASSUME PoolAssumption, IInv, Close PROVE IInv'
<1> USE DEF IInv
<1>1. /\ closed' = TRUE /\ open' = open \ AllIdle
      /\ idle' = [s \in Servers |-> <<>>]
      /\ activeCount' = activeCount /\ serverName' = serverName
      /\ pc' = pc /\ server' = server /\ conn' = conn
  BY DEF Close
<1>2. \A s \in Servers : /\ idle'[s] = <<>> /\ Len(idle'[s]) = 0
                         /\ IdleSet(s)' = {} /\ NoDup(idle'[s])
  BY <1>1 DEF IdleSet, Range, NoDup
<1>3. TypeOK'
  <2>1. <<>> \in Seq(Conns)
    OBVIOUS
  <2>2. idle' \in [Servers -> Seq(Conns)]
    BY <1>1, <2>1
  <2> QED BY <1>1, <2>2 DEF TypeOK
<1>4. Counting'
  <2>1. \A s \in Servers : activeCount[s] + 0 <= MaxOpen
    BY DEF TypeOK, PoolAssumption
  <2>2. \A s \in Servers : Busy(s)' = Busy(s)
    BY <1>1 DEF Busy
  <2> QED BY <1>1, <1>2, <2>1, <2>2 DEF Counting, ActiveIsExact, IdleWithinLimit
<1>5. ExclusiveUse'
  BY <1>1, <1>2 DEF ExclusiveUse, NoDup
<1>6. NoLeak'
  <2>1. AllIdle' = {}
    BY <1>2 DEF AllIdle
  <2>2. Held' = Held /\ Held \cap AllIdle = {}
    BY <1>1 DEF Held, AllIdle, ExclusiveUse
  <2> QED BY <1>1, <2>1, <2>2 DEF NoLeak
<1> QED BY <1>3, <1>4, <1>5, <1>6

LEMMA ReapStep == ASSUME PoolAssumption, IInv, Reap PROVE IInv'
<1> USE DEF IInv
<1>1. PICK n \in [Servers -> 0 .. MaxOpen] :
        /\ \A s \in Servers : n[s] <= Len(idle[s])
        /\ idle' = [s \in Servers |-> SubSeq(idle[s], n[s] + 1, Len(idle[s]))]
        /\ open' = open \ UNION {Expired(s, n[s]) : s \in Servers}
  BY DEF Reap
<1>2. /\ activeCount' = activeCount /\ closed' = closed /\ serverName' = serverName
      /\ pc' = pc /\ server' = server /\ conn' = conn /\ ~closed
  BY DEF Reap
<1>3. ASSUME NEW s \in Servers
      PROVE  /\ idle'[s] \in Seq(Conns)
             /\ Len(idle'[s]) <= Len(idle[s])
             /\ NoDup(idle'[s])
             /\ Expired(s, n[s]) \subseteq IdleSet(s)
             /\ IdleSet(s)' = IdleSet(s) \ Expired(s, n[s])
  <2>1. idle[s] \in Seq(Conns) /\ NoDup(idle[s]) /\ Len(idle[s]) \in Nat
    BY DEF TypeOK, ExclusiveUse, NoDup
  <2>2. n[s] \in 0 .. Len(idle[s])
    BY <1>1, <2>1 DEF PoolAssumption
  <2>3. idle'[s] = SubSeq(idle[s], n[s] + 1, Len(idle[s]))
    BY <1>1
  <2>4. /\ idle'[s] \in Seq(Conns)
        /\ Len(idle'[s]) = Len(idle[s]) - n[s]
        /\ NoDup(idle'[s])
        /\ Range(SubSeq(idle[s], 1, n[s])) \subseteq Range(idle[s])
        /\ Range(idle'[s]) = Range(idle[s]) \ Range(SubSeq(idle[s], 1, n[s]))
    BY <2>1, <2>2, <2>3, CutFacts
  <2>5. Len(idle'[s]) <= Len(idle[s])
    BY <2>1, <2>2, <2>4
  <2> QED BY <2>4, <2>5 DEF IdleSet, Expired
<1>4. TypeOK'
  <2>1. idle' \in [Servers -> Seq(Conns)]
    BY <1>1, <1>3
  <2>2. open' \subseteq Conns
    BY <1>1 DEF TypeOK
  <2> QED BY <1>2, <2>1, <2>2 DEF TypeOK
<1>5. Counting'
  <2>1. \A s \in Servers : Busy(s)' = Busy(s)
    BY <1>2 DEF Busy
  <2>2. ActiveIsExact'
    BY <1>2, <2>1 DEF Counting, ActiveIsExact
  <2>3. ASSUME NEW s \in Servers
        PROVE  /\ activeCount'[s] + Len(idle'[s]) <= MaxOpen
               /\ Len(idle'[s]) <= IF closed' THEN 0 ELSE MaxIdle
    <3>1. /\ activeCount[s] \in Int /\ MaxOpen \in Int /\ MaxIdle \in Int
          /\ Len(idle[s]) \in Int /\ Len(idle'[s]) \in Int
          /\ activeCount[s] + Len(idle[s]) <= MaxOpen
          /\ Len(idle[s]) <= MaxIdle
      BY <1>2, <1>3 DEF TypeOK, Counting, IdleWithinLimit, PoolAssumption
    <3> QED BY <1>2, <1>3, <3>1
  <2> QED BY <2>2, <2>3 DEF Counting, IdleWithinLimit
<1>6. ExclusiveUse'
  <2>1. \A s \in Servers : IdleSet(s)' \subseteq IdleSet(s)
    BY <1>3
  <2> QED BY <1>2, <1>3, <2>1 DEF ExclusiveUse, NoDup
<1>7. NoLeak'
  <2> DEFINE gone == UNION {Expired(s, n[s]) : s \in Servers}
  <2>1. gone \subseteq AllIdle
    BY <1>3 DEF AllIdle
  <2>2. Held' = Held /\ Held \cap AllIdle = {}
    BY <1>2 DEF Held, AllIdle, ExclusiveUse
  <2>3. AllIdle' = AllIdle \ gone
    <3>1. \A s, t \in Servers : s # t => IdleSet(s) \cap IdleSet(t) = {}
      BY DEF ExclusiveUse
    <3>2. \A s \in Servers : IdleSet(s)' = IdleSet(s) \ gone
      BY <1>3, <3>1
    <3> QED BY <3>2 DEF AllIdle
  <2> QED BY <1>1, <2>1, <2>2, <2>3 DEF NoLeak
<1> QED BY <1>4, <1>5, <1>6, <1>7

LEMMA InductiveStep == ASSUME PoolAssumption, IInv, [Next]_vars PROVE IInv'
<1>1. ASSUME NEW c \in Callers, NEW s \in Servers, GetHit(c, s) \/ GetReserve(c, s)
      PROVE  IInv'
  BY <1>1, GetHitStep, GetReserveStep
<1>2. ASSUME NEW c \in Callers, DialOk(c) \/ DialErr(c) \/ Put(c) \/ Discard(c)
      PROVE  IInv'
  BY <1>2, DialOkStep, DialErrStep, ReturnStep DEF Put, Discard
<1>3. CASE Close
  BY <1>3, CloseStep
<1>4. CASE Reap
  BY <1>4, ReapStep
<1>5. CASE UNCHANGED vars
  <2>1. /\ idle' = idle /\ activeCount' = activeCount /\ closed' = closed
        /\ serverName' = serverName /\ open' = open
        /\ pc' = pc /\ server' = server /\ conn' = conn
    BY <1>5 DEF vars
  <2>2. TypeOK'
    BY <2>1 DEF IInv, TypeOK
  <2>3. \A s \in Servers : IdleSet(s)' = IdleSet(s) /\ Busy(s)' = Busy(s)
    BY <2>1 DEF IdleSet, Busy
  <2>4. Counting'
    BY <2>1, <2>3 DEF IInv, Counting, ActiveIsExact, IdleWithinLimit
  <2>5. ExclusiveUse'
    BY <2>1, <2>3 DEF IInv, ExclusiveUse
  <2>6. NoLeak'
    BY <2>1, <2>3 DEF IInv, NoLeak, Held, AllIdle
  <2> QED BY <2>2, <2>4, <2>5, <2>6 DEF IInv
<1> QED BY <1>1, <1>2, <1>3, <1>4, <1>5 DEF Next

LEMMA InductiveInvariant == ASSUME PoolAssumption PROVE Spec => []IInv
<1>1. Init => IInv
  BY InitIInv
<1>2. IInv /\ [Next]_vars => IInv'
  BY InductiveStep
<1> QED BY <1>1, <1>2, PTL DEF Spec

-----------------------------------------------------------------------------
(* Get, Put, Discard, Close and the reaper keep the counters between zero and
   MaxOpen and every list and map well formed. *)
THEOREM TypeCorrect == Spec => []TypeOK
<1>1. IInv => TypeOK
  BY DEF IInv
<1> QED BY <1>1, InductiveInvariant, PoolAssumption, PTL

(* The counter Get compares with MaxOpen is exact in every reachable state. *)
THEOREM ActiveCountExact == Spec => []ActiveIsExact
<1>1. IInv => ActiveIsExact
  BY DEF IInv, Counting
<1> QED BY <1>1, InductiveInvariant, PoolAssumption, PTL

(* A server never has more than MaxOpen connections open, being dialled or
   idle, although Get only counts the active ones: an idle list is non-empty
   only while active and idle connections together fit. *)
THEOREM LimitHolds == Spec => []WithinLimits
<1>1. IInv => WithinLimits
  BY DEF IInv, Counting, ActiveIsExact, OpenWithinLimit, WithinLimits
<1> QED BY <1>1, InductiveInvariant, PoolAssumption, PTL

(* No two callers ever share a connection, no connection in use is idle, and
   a caller only uses connections to the server it asked for. *)
THEOREM ConnectionsExclusive == Spec => []ExclusiveUse
<1>1. IInv => ExclusiveUse
  BY DEF IInv
<1> QED BY <1>1, InductiveInvariant, PoolAssumption, PTL

(* The pool neither loses an open transport nor closes one that is in use. *)
THEOREM NothingLeaks == Spec => []NoLeak
<1>1. IInv => NoLeak
  BY DEF IInv
<1> QED BY <1>1, InductiveInvariant, PoolAssumption, PTL

-----------------------------------------------------------------------------
(* Why a closed pool comes to rest: it takes nobody in, and the callers that
   are left each have at most a dial and a return to go. *)
Left(c) == CASE pc[c] = "dialing" -> 2 [] pc[c] = "using" -> 1 [] OTHER -> 0

Todo == {w \in Callers \X (1 .. 2) : w[2] <= Left(w[1])}

Unfinished == Cardinality(Todo)

LEMMA TodoFinite == ASSUME PoolAssumption PROVE IsFiniteSet(Todo) /\ Unfinished \in Nat
<1>1. IsFiniteSet(1 .. 2)
  BY 1 \in Int, 2 \in Int, FS_Interval
<1>2. IsFiniteSet(Callers \X (1 .. 2))
  BY <1>1, FS_Product DEF PoolAssumption
<1> QED BY <1>2, FS_Subset, FS_CardinalityType DEF Todo, Unfinished

(* One caller goes on and has less left to do. *)
LEMMA CallerGoesOn ==
    ASSUME PoolAssumption, TypeOK, NEW c \in Callers, NEW l,
           \/ pc[c] = "dialing" /\ l \in {"using", "out"}
           \/ pc[c] = "using" /\ l = "out",
           pc' = [pc EXCEPT ![c] = l]
    PROVE  Unfinished' \in Nat /\ Unfinished' < Unfinished
<1>0. Left(c) \in 1 .. 2 /\ Left(c)' \in 0 .. 1 /\ Left(c)' < Left(c)
  BY DEF Left, TypeOK
<1>1. \A d \in Callers \ {c} : Left(d)' = Left(d)
  BY DEF Left, TypeOK
<1>2. Todo' \subseteq Todo
  <2> SUFFICES ASSUME NEW w \in Callers \X (1 .. 2), w[2] <= Left(w[1])'
               PROVE  w[2] <= Left(w[1])
    BY DEF Todo
  <2>1. CASE w[1] = c
    <3>1. w[2] \in Int /\ w[2] <= Left(c)'
      BY <2>1
    <3> QED BY <1>0, <2>1, <3>1
  <2>2. CASE w[1] # c
    BY <1>1, <2>2
  <2> QED BY <2>1, <2>2
<1>3. /\ <<c, Left(c)>> \in Todo
      /\ <<c, Left(c)>> \notin Todo'
  BY <1>0 DEF Todo
<1>4. /\ Cardinality(Todo') \in Nat /\ Cardinality(Todo') <= Cardinality(Todo)
      /\ Cardinality(Todo') # Cardinality(Todo)
  BY <1>2, <1>3, TodoFinite, FS_Subset, FS_CardinalityType
<1> QED BY <1>4, TodoFinite DEF Unfinished

LEMMA DrainStep ==
    ASSUME PoolAssumption, IInv, closed, Next
    PROVE  closed' /\ Unfinished' \in Nat /\ Unfinished' < Unfinished
<1>1. PICK c \in Callers : DialOk(c) \/ DialErr(c) \/ Put(c) \/ Discard(c)
  BY DEF Next, GetHit, GetReserve, Close, Reap
<1>2. \E l \in {"using", "out"} :
        /\ pc[c] = "dialing" \/ (pc[c] = "using" /\ l = "out")
        /\ pc' = [pc EXCEPT ![c] = l]
  BY <1>1 DEF DialOk, DialErr, Put, Discard, Return
<1>3. closed'
  BY <1>1 DEF DialOk, DialErr, Put, Discard, Return
<1> QED BY <1>2, <1>3, CallerGoesOn DEF IInv

(* Every step after Close brings the pool nearer to the state in which nobody
   uses it, and no Get undoes that. *)
Drains == closed => closed' /\ Unfinished' \in Nat /\ Unfinished' < Unfinished

THEOREM CloseDrains == Spec => [][Drains]_vars
<1>1. IInv /\ [Next]_vars => [Drains]_vars
  BY DrainStep, PoolAssumption DEF Drains
<1> QED BY <1>1, InductiveInvariant, PoolAssumption, PTL DEF Spec

(* And in that state nothing is left open and no slot is taken, also when a
   dial was in flight while Close ran: what CloseReleasesAll waits for. *)
RestIsReleased ==
    closed /\ (\A c \in Callers : pc[c] = "out") =>
        open = {} /\ \A s \in Servers : activeCount[s] = 0

THEOREM ClosedAtRest == Spec => []RestIsReleased
<1>1. IInv => RestIsReleased
  <2> SUFFICES ASSUME IInv, closed, \A c \in Callers : pc[c] = "out"
               PROVE  open = {} /\ \A s \in Servers : activeCount[s] = 0
    BY DEF RestIsReleased
  <2>1. \A s \in Servers : Busy(s) = {}
    BY DEF Busy
  <2>2. \A s \in Servers : activeCount[s] = 0
    BY <2>1, FS_EmptySet DEF IInv, Counting, ActiveIsExact
  <2>3. ASSUME NEW s \in Servers PROVE IdleSet(s) = {}
    <3>1. idle[s] \in Seq(Conns) /\ Len(idle[s]) <= 0
      BY DEF IInv, TypeOK, Counting, IdleWithinLimit
    <3>2. DOMAIN idle[s] = 1 .. Len(idle[s]) /\ Len(idle[s]) = 0
      BY <3>1
    <3> QED BY <3>2 DEF IdleSet, Range
  <2>4. Held = {} /\ AllIdle = {}
    BY <2>3 DEF Held, AllIdle
  <2> QED BY <2>2, <2>4 DEF IInv, NoLeak
<1> QED BY <1>1, InductiveInvariant, PoolAssumption, PTL
=============================================================================
