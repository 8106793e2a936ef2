--------------------------- MODULE RegistryProofs ---------------------------
(***************************************************************************)
(* Theorems about Registry: for any servers, tools and files, and however  *)
(* loads, registrations and health checks interleave, the index agrees     *)
(* with the servers and results of health checks reach their servers.      *)
(***************************************************************************)
EXTENDS Registry, FiniteSetTheorems, WellFoundedInduction, TLAPS

\* Every server whose check has begun, and that nobody has replaced since, is
\* still registered.
Checked ==
    \A k \in Checks, n \in Names :
        health[k][n] # "none" /\ n \notin replaced[k] => n \in Registered

\* A call checks nothing before it begins and nothing after it has returned,
\* so whatever still checks is not earlier than any call.
Phases ==
    \A k \in Checks :
        /\ call[k] = "new" => \A n \in Names : health[k][n] = "none"
        /\ call[k] = "returned" => \A n \in Names : health[k][n] # "checking"
        /\ \A c \in earlier[k] : call[c] = "returned"

\* What HealthApplied says, from the moment one server has been checked.
Fresh ==
    \A k \in Checks, n \in Names :
        health[k][n] = "done" /\ n \notin replaced[k] =>
            \E c \in Checks \ earlier[k] :
                health[c][n] = "done" /\ servers[n].healthy = report[c][n]

IInv == TypeOK /\ IndexExact /\ Checked /\ Phases /\ Fresh

-----------------------------------------------------------------------------
(* Max and Min of a finite set of numbers.  A member with the fewest larger
   ones has none. *)
LEMMA MaxIsMember ==
    ASSUME NEW S \in SUBSET Nat, IsFiniteSet(S), S # {}
    PROVE  Max(S) \in S
<1> DEFINE Up(i) == {j \in S : i < j}
           T == {Up(i) : i \in S}
<1>1. IsWellFoundedOn(StrictSubsetOrdering(S), SUBSET S)
  BY FS_StrictSubsetOrderingWellFounded, FS_FiniteSubsetsOfFinite
<1>2. T \subseteq SUBSET S /\ T # {}
  OBVIOUS
<1>3. PICK A \in T : \A B \in T : ~(<<B, A>> \in StrictSubsetOrdering(S))
  BY <1>1, <1>2, WFMin
<1>4. PICK i \in S : A = Up(i)
  OBVIOUS
<1>5. ASSUME NEW j \in S, i < j PROVE FALSE
  <2>1. Up(j) \in T
    OBVIOUS
  <2>2. j \in Up(i) /\ j \notin Up(j)
    BY <1>5
  <2>3. Up(j) \subseteq Up(i)
    <3> SUFFICES ASSUME NEW k \in Up(j) PROVE k \in Up(i)
      OBVIOUS
    <3>1. i \in Int /\ j \in Int /\ k \in Int
      OBVIOUS
    <3> QED BY <1>5, <3>1
  <2>4. Up(j) \in SUBSET S /\ A \in SUBSET S
    BY <1>4
  <2>5. <<Up(j), A>> \in StrictSubsetOrdering(S)
    BY <1>4, <2>2, <2>3, <2>4 DEF StrictSubsetOrdering
  <2> QED BY <1>3, <2>1, <2>5
<1>6. \A j \in S : i >= j
  BY <1>5
<1> QED BY <1>6 DEF Max

LEMMA MinIsMember ==
    ASSUME NEW S \in SUBSET Nat, IsFiniteSet(S), S # {}
    PROVE  Min(S) \in S
<1> DEFINE Down(i) == {j \in S : j < i}
           T == {Down(i) : i \in S}
<1>1. IsWellFoundedOn(StrictSubsetOrdering(S), SUBSET S)
  BY FS_StrictSubsetOrderingWellFounded, FS_FiniteSubsetsOfFinite
<1>2. T \subseteq SUBSET S /\ T # {}
  OBVIOUS
<1>3. PICK A \in T : \A B \in T : ~(<<B, A>> \in StrictSubsetOrdering(S))
  BY <1>1, <1>2, WFMin
<1>4. PICK i \in S : A = Down(i)
  OBVIOUS
<1>5. ASSUME NEW j \in S, j < i PROVE FALSE
  <2>1. Down(j) \in T
    OBVIOUS
  <2>2. j \in Down(i) /\ j \notin Down(j)
    BY <1>5
  <2>3. Down(j) \subseteq Down(i)
    <3> SUFFICES ASSUME NEW k \in Down(j) PROVE k \in Down(i)
      OBVIOUS
    <3>1. i \in Int /\ j \in Int /\ k \in Int
      OBVIOUS
    <3> QED BY <1>5, <3>1
  <2>4. Down(j) \in SUBSET S /\ A \in SUBSET S
    BY <1>4
  <2>5. <<Down(j), A>> \in StrictSubsetOrdering(S)
    BY <1>4, <2>2, <2>3, <2>4 DEF StrictSubsetOrdering
  <2> QED BY <1>3, <2>1, <2>5
<1>6. \A j \in S : i <= j
  BY <1>5
<1> QED BY <1>6 DEF Min

(* A selection of the places of a list. *)
LEMMA PlacesFinite ==
    ASSUME NEW l \in Seq(Infos), NEW P \in SUBSET DOMAIN l
    PROVE  P \in SUBSET Nat /\ IsFiniteSet(P)
<1>1. DOMAIN l = 1 .. Len(l) /\ Len(l) \in Nat
  OBVIOUS
<1>2. IsFiniteSet(1 .. Len(l))
  BY <1>1, FS_Interval
<1> QED BY <1>1, <1>2, FS_Subset

(* What a list of entries makes of the two maps. *)
LEMMA ServersOfList ==
    ASSUME NEW l \in Seq(Infos), NEW n \in Names
    PROVE  /\ ServersOf(l)[n] # NoServer <=> At(l, n) # {}
           /\ At(l, n) # {} => \E i \in At(l, n) : ServersOf(l)[n] = l[i]
<1>1. ServersOf(l)[n] = IF At(l, n) = {} THEN NoServer ELSE l[Max(At(l, n))]
  BY DEF ServersOf
<1>2. At(l, n) # {} => Max(At(l, n)) \in At(l, n)
  BY PlacesFinite, MaxIsMember DEF At
<1>3. \A i \in At(l, n) : l[i] \in Infos
  BY DEF At
<1> QED BY <1>1, <1>2, <1>3, RegistryAssumption

LEMMA ToolsOfList ==
    ASSUME NEW l \in Seq(Infos), NEW r \in Refs
    PROVE  LET has == {i \in DOMAIN l : r[2] \in l[i].tools /\ r[1] \in {Bare, l[i].name}}
           IN  /\ has = {} => ToolsOf(l)[r] = NoServer
               /\ has # {} => \E i \in has : ToolsOf(l)[r] = l[i].name
<1> DEFINE has == {i \in DOMAIN l : r[2] \in l[i].tools /\ r[1] \in {Bare, l[i].name}}
<1>1. ToolsOf(l)[r] = IF has = {} THEN NoServer ELSE l[Min(has)].name
  BY DEF ToolsOf
<1>2. has # {} => Min(has) \in has
  <2>1. has \in SUBSET DOMAIN l
    OBVIOUS
  <2>2. has \in SUBSET Nat /\ IsFiniteSet(has)
    BY <2>1, PlacesFinite
  <2> QED BY <2>2, MinIsMember
<1> QED BY <1>1, <1>2

LEMMA LoadTyped ==
    ASSUME NEW l \in Seq(Infos)
    PROVE  /\ ServersOf(l) \in [Names -> Infos \cup {NoServer}]
           /\ \A n \in Names : ServersOf(l)[n] # NoServer => ServersOf(l)[n].name = n
           /\ ToolsOf(l) \in [Refs -> Names \cup {NoServer}]
           /\ \A r \in Refs : r[1] # Bare => ToolsOf(l)[r] \in {r[1], NoServer}
           /\ Repeated(l) \subseteq Names
<1>1. \A i \in DOMAIN l : l[i] \in Infos /\ l[i].name \in Names
  <2>1. \A e \in Infos : e.name \in Names
    BY DEF Infos
  <2>2. \A i \in DOMAIN l : l[i] \in Infos
    OBVIOUS
  <2> QED BY <2>1, <2>2
<1>2. \A n \in Names : /\ ServersOf(l)[n] \in Infos \cup {NoServer}
                       /\ ServersOf(l)[n] # NoServer => ServersOf(l)[n].name = n
  BY <1>1, ServersOfList DEF At
<1>3. \A r \in Refs : /\ ToolsOf(l)[r] \in Names \cup {NoServer}
                      /\ r[1] # Bare => ToolsOf(l)[r] \in {r[1], NoServer}
  BY <1>1, ToolsOfList
<1>4. ServersOf(l) \in [Names -> Infos \cup {NoServer}]
  BY <1>2 DEF ServersOf
<1>5. ToolsOf(l) \in [Refs -> Names \cup {NoServer}]
  BY <1>3 DEF ToolsOf
<1> QED BY <1>2, <1>3, <1>4, <1>5 DEF Repeated

LEMMA LoadExact ==
    ASSUME NEW l \in Seq(Infos), NEW n \in Names, NEW t \in Tools
    PROVE  /\ ServersOf(l)[n] # NoServer /\ t \in ServersOf(l)[n].tools => ToolsOf(l)[<<n, t>>] = n
           /\ n \notin Repeated(l) /\ ToolsOf(l)[<<n, t>>] = n =>
                ServersOf(l)[n] # NoServer /\ t \in ServersOf(l)[n].tools
<1> DEFINE r == <<n, t>>
           has == {i \in DOMAIN l : r[2] \in l[i].tools /\ r[1] \in {Bare, l[i].name}}
<1>1. r \in Refs /\ r[1] = n /\ r[2] = t
  BY DEF Refs
<1>2. n # Bare /\ n # NoServer
  BY RegistryAssumption
<1>3. has = {i \in At(l, n) : t \in l[i].tools}
  BY <1>2 DEF At
<1>4. /\ has = {} => ToolsOf(l)[r] = NoServer
      /\ has # {} => ToolsOf(l)[r] = n
  BY <1>1, <1>3, ToolsOfList DEF At
<1>5. ASSUME ServersOf(l)[n] # NoServer, t \in ServersOf(l)[n].tools
      PROVE  ToolsOf(l)[r] = n
  BY <1>3, <1>4, <1>5, ServersOfList
<1>6. ASSUME n \notin Repeated(l), ToolsOf(l)[r] = n
      PROVE  ServersOf(l)[n] # NoServer /\ t \in ServersOf(l)[n].tools
  <2>1. PICK i \in At(l, n) : t \in l[i].tools
    BY <1>2, <1>3, <1>4, <1>6
  <2>2. \A j \in At(l, n) : j = i
    BY <1>6, <2>1 DEF Repeated
  <2> QED BY <2>1, <2>2, ServersOfList
<1> QED BY <1>5, <1>6

LEMMA Listed == \A f \in Files, t \in Targets : Listing[f][t] \in Seq(Infos)
BY RegistryAssumption

-----------------------------------------------------------------------------
(* The initial states. *)
LEMMA InitIInv == Init => IInv
<1> SUFFICES ASSUME Init PROVE IInv
  OBVIOUS
<1>1. PICK t \in Targets :
        /\ servers = ServersOf(Listing[file][t])
        /\ tools = ToolsOf(Listing[file][t])
        /\ overwritten = Repeated(Listing[file][t])
  BY DEF Init
<1>2. Listing[file][t] \in Seq(Infos)
  BY Listed DEF Init
<1>3. TypeOK
  BY <1>1, <1>2, LoadTyped DEF Init, TypeOK, Registered
<1>4. IndexExact
  BY <1>1, <1>2, LoadExact DEF IndexExact, Registered
<1> QED BY <1>3, <1>4 DEF Init, IInv, Checked, Phases, Fresh

(* A step that leaves the maps alone. *)
LEMMA MapsKept ==
    ASSUME IInv, UNCHANGED <<servers, tools, overwritten>>
    PROVE  IndexExact'
BY DEF IInv, IndexExact, Registered

(* A step that leaves alone the servers and the calls of HealthCheck. *)
LEMMA ChecksKept ==
    ASSUME IInv, UNCHANGED <<servers, healthVars, replaced>>
    PROVE  Checked' /\ Phases' /\ Fresh'
BY DEF IInv, Checked, Phases, Fresh, Registered, healthVars

(* A step that replaces the entries of some servers: their results no longer
   count, the others have kept theirs. *)
LEMMA OthersKept ==
    ASSUME IInv, NEW ns \in SUBSET Names, Replace(ns), UNCHANGED healthVars,
           \A n \in Names \ ns : servers'[n] = servers[n]
    PROVE  Checked' /\ Phases' /\ Fresh' /\ replaced' \in [Checks -> SUBSET Names]
<1>1. \A k \in Checks : replaced'[k] = replaced[k] \cup {n \in ns : health[k][n] # "none"}
  BY DEF Replace
<1>2. call' = call /\ health' = health /\ report' = report /\ earlier' = earlier
  BY DEF healthVars
<1>3. \A n \in Names \ ns : n \in Registered => n \in Registered'
  BY DEF Registered
<1>4. Checked'
  <2> SUFFICES ASSUME NEW k \in Checks, NEW n \in Names, health[k][n] # "none", n \notin replaced'[k]
               PROVE  n \in Registered'
    BY <1>2 DEF Checked
  <2>1. n \notin ns /\ n \notin replaced[k]
    BY <1>1
  <2> QED BY <1>3, <2>1 DEF IInv, Checked
<1>5. Fresh'
  <2> SUFFICES ASSUME NEW k \in Checks, NEW n \in Names, health[k][n] = "done", n \notin replaced'[k]
               PROVE  \E c \in Checks \ earlier[k] :
                        health[c][n] = "done" /\ servers'[n].healthy = report[c][n]
    BY <1>2 DEF Fresh
  <2>1. n \notin ns /\ n \notin replaced[k]
    BY <1>1
  <2>2. servers'[n] = servers[n]
    BY <2>1
  <2> QED BY <2>1, <2>2 DEF IInv, Fresh
<1>6. Phases'
  BY <1>2 DEF IInv, Phases
<1>7. replaced' \in [Checks -> SUBSET Names]
  BY DEF Replace, IInv, TypeOK
<1> QED BY <1>4, <1>5, <1>6, <1>7

LEMMA EditStep == ASSUME IInv, Edit PROVE IInv'
<1>1. TypeOK'
  BY DEF IInv, TypeOK, Edit, healthVars, Registered
<1>2. IndexExact'
  BY MapsKept DEF Edit
<1>3. Checked' /\ Phases' /\ Fresh'
  BY ChecksKept DEF Edit
<1> QED BY <1>1, <1>2, <1>3 DEF IInv

LEMMA RefreshReadStep == ASSUME IInv, RefreshRead PROVE IInv'
<1>1. TypeOK'
  BY DEF IInv, TypeOK, RefreshRead, healthVars, Registered
<1>2. IndexExact'
  BY MapsKept DEF RefreshRead
<1>3. Checked' /\ Phases' /\ Fresh'
  BY ChecksKept DEF RefreshRead
<1> QED BY <1>1, <1>2, <1>3 DEF IInv

LEMMA RefreshSwapStep ==
    ASSUME IInv, NEW f \in Files, RefreshSwap(f)
    PROVE  IInv'
<1> DEFINE l == Listing[f][Default]
<1>1. l \in Seq(Infos)
  BY Listed, RegistryAssumption
<1>2. servers' = ServersOf(l) /\ tools' = ToolsOf(l) /\ overwritten' = Repeated(l)
  BY DEF RefreshSwap
<1> HIDE DEF l
<1>3. Checked' /\ Phases' /\ Fresh' /\ replaced' \in [Checks -> SUBSET Names]
  BY OthersKept DEF RefreshSwap
<1>4. refresh' \subseteq Files
  BY DEF IInv, TypeOK, RefreshSwap
<1>5. TypeOK'
  BY <1>1, <1>2, <1>3, <1>4, LoadTyped DEF IInv, TypeOK, RefreshSwap, healthVars, Registered
<1>6. IndexExact'
  BY <1>1, <1>2, LoadExact DEF IndexExact, Registered
<1> QED BY <1>3, <1>5, <1>6 DEF IInv

LEMMA RegisterStep ==
    ASSUME IInv, NEW e \in Entries, RegisterServer(e)
    PROVE  IInv'
<1>1. e \in Infos /\ e.name \in Names /\ e # NoServer
  BY RegistryAssumption DEF Infos
<1>2. Registered' = Registered \cup {e.name}
  BY <1>1 DEF IInv, TypeOK, RegisterServer, Registered
<1>3. \A n \in Names : servers'[n] = IF n = e.name THEN e ELSE servers[n]
  BY <1>1 DEF IInv, TypeOK, RegisterServer
<1>0. Checked' /\ Phases' /\ Fresh' /\ replaced' \in [Checks -> SUBSET Names]
  BY <1>1, <1>3, OthersKept DEF RegisterServer
<1>4. \A n \in Names, t \in Tools :
        tools'[<<n, t>>] = IF n = e.name /\ t \in e.tools THEN n ELSE tools[<<n, t>>]
  <2>1. \A r \in Refs : tools'[r] = IF r[1] = e.name /\ r[2] \in e.tools THEN e.name ELSE tools[r]
    BY DEF RegisterServer
  <2>2. \A n \in Names, t \in Tools : <<n, t>> \in Refs
    BY DEF Refs
  <2> QED BY <2>1, <2>2
<1>5. TypeOK'
  <2>1. servers' \in [Names -> Infos \cup {NoServer}]
    BY <1>1 DEF IInv, TypeOK, RegisterServer
  <2>2. \A n \in Registered' : servers'[n].name = n
    BY <1>1, <1>2, <1>3 DEF IInv, TypeOK, Registered
  <2>3. tools' \in [Refs -> Names \cup {NoServer}]
    BY <1>1 DEF IInv, TypeOK, RegisterServer
  <2>4. \A r \in Refs : r[1] # Bare => tools'[r] \in {r[1], NoServer}
    BY <1>1 DEF IInv, TypeOK, RegisterServer
  <2> QED BY <1>0, <1>1, <2>1, <2>2, <2>3, <2>4 DEF IInv, TypeOK, RegisterServer, healthVars
<1>6. IndexExact'
  <2> SUFFICES ASSUME NEW n \in Names, NEW t \in Tools
               PROVE  /\ n \in Registered' /\ t \in servers'[n].tools => tools'[<<n, t>>] = n
                      /\ n \notin overwritten' /\ tools'[<<n, t>>] = n =>
                            n \in Registered' /\ t \in servers'[n].tools
    BY DEF IndexExact
  <2>1. CASE n # e.name
    BY <1>2, <1>3, <1>4, <2>1 DEF IInv, IndexExact, RegisterServer
  <2>2. CASE n = e.name
    BY <1>2, <1>3, <1>4, <2>2 DEF IInv, IndexExact, RegisterServer
  <2> QED BY <2>1, <2>2
<1> QED BY <1>0, <1>5, <1>6 DEF IInv

LEMMA UnregisterStep ==
    ASSUME IInv, NEW m \in Names, UnregisterServer(m)
    PROVE  IInv'
<1>1. \A n \in Names : servers'[n] = IF n = m THEN NoServer ELSE servers[n]
  BY DEF IInv, TypeOK, UnregisterServer
<1>2. Registered' = Registered \ {m} /\ m \in Registered
  BY <1>1 DEF Registered, UnregisterServer
<1>0. Checked' /\ Phases' /\ Fresh' /\ replaced' \in [Checks -> SUBSET Names]
  BY <1>1, OthersKept DEF UnregisterServer
<1>3. \A n \in Names, t \in Tools :
        tools'[<<n, t>>] = IF n = m /\ t \in servers[m].tools THEN NoServer ELSE tools[<<n, t>>]
  <2>1. \A r \in Refs : tools'[r] = IF r[1] = m /\ r[2] \in servers[m].tools THEN NoServer ELSE tools[r]
    BY DEF UnregisterServer, Forgets
  <2>2. \A n \in Names, t \in Tools : <<n, t>> \in Refs
    BY DEF Refs
  <2> QED BY <2>1, <2>2
<1>4. TypeOK'
  <2>1. servers' \in [Names -> Infos \cup {NoServer}]
    BY DEF IInv, TypeOK, UnregisterServer
  <2>2. \A n \in Registered' : servers'[n].name = n
    BY <1>1, <1>2 DEF IInv, TypeOK, Registered
  <2>3. tools' \in [Refs -> Names \cup {NoServer}]
    BY DEF IInv, TypeOK, UnregisterServer
  <2>4. \A r \in Refs : r[1] # Bare => tools'[r] \in {r[1], NoServer}
    BY DEF IInv, TypeOK, UnregisterServer
  <2> QED BY <1>0, <2>1, <2>2, <2>3, <2>4 DEF IInv, TypeOK, UnregisterServer, healthVars
<1>5. IndexExact'
  <2>1. m # NoServer
    BY RegistryAssumption
  <2>2. overwritten' = overwritten
    BY DEF UnregisterServer
  <2> SUFFICES ASSUME NEW n \in Names, NEW t \in Tools
               PROVE  /\ n \in Registered' /\ t \in servers'[n].tools => tools'[<<n, t>>] = n
                      /\ n \notin overwritten' /\ tools'[<<n, t>>] = n =>
                            n \in Registered' /\ t \in servers'[n].tools
    BY DEF IndexExact
  <2>3. CASE n # m
    BY <1>1, <1>2, <1>3, <2>2, <2>3 DEF IInv, IndexExact
  <2>4. CASE n = m
    BY <1>1, <1>2, <1>3, <2>1, <2>2, <2>4 DEF IInv, IndexExact
  <2> QED BY <2>3, <2>4
<1> QED BY <1>0, <1>4, <1>5 DEF IInv

LEMMA HealthCheckStep ==
    ASSUME IInv, NEW k \in Checks, HealthCheck(k)
    PROVE  IInv'
<1>1. /\ \A c \in Checks, n \in Names :
           health'[c][n] = IF c # k THEN health[c][n] ELSE IF n \in Registered THEN "checking" ELSE "none"
      /\ \A c \in Checks : earlier'[c] = IF c # k THEN earlier[c] ELSE {d \in Checks : call[d] = "returned"}
      /\ \A c \in Checks : call'[c] = IF c # k THEN call[c] ELSE "running"
      /\ call[k] = "new"
      /\ UNCHANGED <<servers, tools, overwritten, replaced, report>>
  BY DEF IInv, TypeOK, HealthCheck
<1>2. Registered' = Registered
  BY <1>1 DEF Registered
<1>3. TypeOK'
  BY <1>2 DEF IInv, TypeOK, HealthCheck
<1>4. IndexExact'
  BY <1>1, MapsKept
<1>5. Checked'
  BY <1>1, <1>2 DEF IInv, Checked
<1>6. Phases'
  <2> SUFFICES ASSUME NEW d \in Checks
               PROVE  /\ call'[d] = "new" => \A n \in Names : health'[d][n] = "none"
                      /\ call'[d] = "returned" => \A n \in Names : health'[d][n] # "checking"
                      /\ \A c \in earlier'[d] : call'[c] = "returned"
    BY DEF Phases
  <2>1. \A c \in earlier'[d] : c \in Checks /\ call[c] = "returned"
    <3>1. earlier[d] \subseteq Checks
      BY DEF IInv, TypeOK
    <3>2. \A c \in earlier[d] : call[c] = "returned"
      BY DEF IInv, Phases
    <3>3. CASE d = k
      <4>1. earlier'[d] = {c \in Checks : call[c] = "returned"}
        BY <3>3 DEF HealthCheck, IInv, TypeOK
      <4> QED BY <4>1
    <3>4. CASE d # k
      BY <1>1, <3>1, <3>2, <3>4
    <3> QED BY <3>3, <3>4
  <2>2. \A c \in earlier'[d] : call'[c] = "returned"
    BY <1>1, <2>1
  <2>3. CASE d = k
    BY <1>1, <2>2, <2>3
  <2>4. CASE d # k
    BY <1>1, <2>2, <2>4 DEF IInv, Phases
  <2> QED BY <2>3, <2>4
<1>7. Fresh'
  <2> SUFFICES ASSUME NEW d \in Checks, NEW n \in Names, health'[d][n] = "done", n \notin replaced[d]
               PROVE  \E c \in Checks \ earlier'[d] :
                        health'[c][n] = "done" /\ servers[n].healthy = report[c][n]
    BY <1>1 DEF Fresh
  <2>1. d # k /\ health[d][n] = "done"
    BY <1>1
  <2>2. PICK c \in Checks \ earlier[d] : health[c][n] = "done" /\ servers[n].healthy = report[c][n]
    BY <2>1 DEF IInv, Fresh
  <2>3. c # k
    BY <1>1, <2>2 DEF IInv, Phases
  <2> QED BY <1>1, <2>1, <2>2, <2>3
<1> QED BY <1>3, <1>4, <1>5, <1>6, <1>7 DEF IInv

LEMMA CheckServerStep ==
    ASSUME IInv, NEW k \in Checks, NEW m \in Names, CheckServer(k, m)
    PROVE  IInv'
<1>1. PICK up \in BOOLEAN :
        /\ report' = [report EXCEPT ![k][m] = up]
        /\ servers' = IF m \in Registered THEN [servers EXCEPT ![m].healthy = up] ELSE servers
  BY DEF CheckServer
<1>2. /\ health[k][m] = "checking"
      /\ \A c \in Checks, n \in Names :
           /\ health'[c][n] = IF c = k /\ n = m THEN "done" ELSE health[c][n]
           /\ report'[c][n] = IF c = k /\ n = m THEN up ELSE report[c][n]
      /\ UNCHANGED <<tools, file, refresh, call, earlier, replaced, overwritten>>
  BY <1>1 DEF IInv, TypeOK, CheckServer
<1>3. \A n \in Names : n \in Registered => servers[n] \in Infos
  BY DEF IInv, TypeOK, Registered
<1>4. \A n \in Names :
        /\ n # m => servers'[n] = servers[n]
        /\ m \notin Registered => servers'[m] = servers[m]
        /\ m \in Registered => servers'[m] = [servers[m] EXCEPT !.healthy = up]
  BY <1>1 DEF IInv, TypeOK
<1>5. m \in Registered =>
        /\ servers'[m] \in Infos
        /\ servers'[m].name = servers[m].name
        /\ servers'[m].tools = servers[m].tools
        /\ servers'[m].healthy = up
  BY <1>3, <1>4 DEF Infos
<1>6. Registered' = Registered
  BY <1>4, <1>5, RegistryAssumption DEF Registered
<1>7. TypeOK'
  <2>1. servers' \in [Names -> Infos \cup {NoServer}]
    <3>1. DOMAIN servers' = Names /\ servers' = [n \in Names |-> servers'[n]]
      BY <1>1 DEF IInv, TypeOK
    <3>2. \A n \in Names : servers'[n] \in Infos \cup {NoServer}
      BY <1>4, <1>5 DEF IInv, TypeOK
    <3> QED BY <3>1, <3>2
  <2>2. \A n \in Registered' : servers'[n].name = n
    BY <1>4, <1>5, <1>6 DEF IInv, TypeOK, Registered
  <2>3. health' \in [Checks -> [Names -> {"none", "checking", "done"}]]
    BY DEF IInv, TypeOK, CheckServer
  <2>4. report' \in [Checks -> [Names -> BOOLEAN]]
    BY <1>1 DEF IInv, TypeOK
  <2> QED BY <1>2, <2>1, <2>2, <2>3, <2>4 DEF IInv, TypeOK
<1>8. IndexExact'
  <2>1. \A n \in Names : n \in Registered => servers'[n].tools = servers[n].tools
    BY <1>4, <1>5
  <2> QED BY <1>2, <1>6, <2>1 DEF IInv, IndexExact
<1>9. Checked'
  BY <1>2, <1>6 DEF IInv, Checked
<1>10. call[k] = "running"
  <2>1. call[k] \in {"new", "running", "returned"}
    BY DEF IInv, TypeOK
  <2>2. call[k] # "new" /\ call[k] # "returned"
    BY <1>2 DEF IInv, Phases
  <2> QED BY <2>1, <2>2
<1>11. Phases'
  <2> SUFFICES ASSUME NEW d \in Checks
               PROVE  /\ call[d] = "new" => \A n \in Names : health'[d][n] = "none"
                      /\ call[d] = "returned" => \A n \in Names : health'[d][n] # "checking"
                      /\ \A c \in earlier[d] : call[c] = "returned"
    BY <1>2 DEF Phases
  <2>1. CASE d = k
    BY <1>10, <2>1 DEF IInv, Phases
  <2>2. CASE d # k
    BY <1>2, <2>2 DEF IInv, Phases
  <2> QED BY <2>1, <2>2
<1>12. Fresh'
  <2> SUFFICES ASSUME NEW d \in Checks, NEW n \in Names, health'[d][n] = "done", n \notin replaced[d]
               PROVE  \E c \in Checks \ earlier[d] :
                        health'[c][n] = "done" /\ servers'[n].healthy = report'[c][n]
    BY <1>2 DEF Fresh
  <2>1. n \in Registered
    BY <1>2 DEF IInv, Checked
  <2>2. CASE n = m
    <3>1. k \notin earlier[d]
      BY <1>10 DEF IInv, Phases
    <3> QED BY <1>2, <1>5, <2>1, <2>2, <3>1
  <2>3. CASE n # m
    <3>1. PICK c \in Checks \ earlier[d] : health[c][n] = "done" /\ servers[n].healthy = report[c][n]
      BY <1>2, <2>3 DEF IInv, Fresh
    <3> QED BY <1>2, <1>4, <2>3, <3>1
  <2> QED BY <2>2, <2>3
<1> QED BY <1>7, <1>8, <1>9, <1>11, <1>12 DEF IInv

LEMMA HealthReturnStep ==
    ASSUME IInv, NEW k \in Checks, HealthReturn(k)
    PROVE  IInv'
<1>1. /\ \A c \in Checks : call'[c] = IF c = k THEN "returned" ELSE call[c]
      /\ \A n \in Names : health[k][n] # "checking"
      /\ UNCHANGED <<servers, tools, file, refresh, health, report, earlier, replaced, overwritten>>
  BY DEF IInv, TypeOK, HealthReturn, Waited
<1>2. TypeOK'
  BY DEF IInv, TypeOK, HealthReturn, Registered
<1>3. IndexExact'
  BY <1>1, MapsKept
<1>4. Checked' /\ Fresh'
  BY <1>1 DEF IInv, Checked, Fresh, Registered
<1>5. Phases'
  <2> SUFFICES ASSUME NEW d \in Checks
               PROVE  /\ call'[d] = "new" => \A n \in Names : health[d][n] = "none"
                      /\ call'[d] = "returned" => \A n \in Names : health[d][n] # "checking"
                      /\ \A c \in earlier[d] : call'[c] = "returned"
    BY <1>1 DEF Phases
  <2>1. \A c \in earlier[d] : c \in Checks
    BY DEF IInv, TypeOK
  <2>2. \A c \in earlier[d] : call'[c] = "returned"
    BY <1>1, <2>1 DEF IInv, Phases
  <2>3. CASE d = k
    BY <1>1, <2>2, <2>3
  <2>4. CASE d # k
    BY <1>1, <2>2, <2>4 DEF IInv, Phases
  <2> QED BY <2>3, <2>4
<1> QED BY <1>2, <1>3, <1>4, <1>5 DEF IInv

LEMMA StutterStep == ASSUME IInv, UNCHANGED vars PROVE IInv'
BY DEF IInv, TypeOK, IndexExact, Checked, Phases, Fresh, Registered, vars, healthVars

LEMMA InductiveInvariant == Spec => []IInv
<1>1. ASSUME IInv, [Next]_vars PROVE IInv'
  BY <1>1, EditStep, RefreshReadStep, RefreshSwapStep, RegisterStep, UnregisterStep,
     HealthCheckStep, CheckServerStep, HealthReturnStep, StutterStep, RegistryAssumption DEF Next
<1> QED BY <1>1, InitIInv, PTL DEF Spec

-----------------------------------------------------------------------------
(* Every server is found under its own name and every full reference leads
   to the server it names. *)
THEOREM TypeCorrect == Spec => []TypeOK
BY InductiveInvariant, PTL DEF IInv

(* The index has exactly the full references of the registered servers, apart
   from those left by entries that were overwritten. *)
THEOREM IndexIsExact == Spec => []IndexExact
BY InductiveInvariant, PTL DEF IInv

(* However many calls of HealthCheck overlap, when one has returned the
   registry has its answer or one of a call that was not over when it began,
   for every server it checked and nobody has replaced since. *)
THEOREM HealthReaches == Spec => []HealthApplied
<1>1. IInv => HealthApplied
  <2> SUFFICES ASSUME IInv, NEW k \in Checks, NEW n \in Names,
                      call[k] = "returned", health[k][n] # "none", n \notin replaced[k]
               PROVE  /\ n \in Registered
                      /\ \E c \in Checks \ earlier[k] :
                            health[c][n] = "done" /\ servers[n].healthy = report[c][n]
    BY DEF HealthApplied
  <2>1. n \in Registered
    BY DEF IInv, Checked
  <2>2. health[k][n] = "done"
    BY DEF IInv, TypeOK, Phases
  <2> QED BY <2>1, <2>2 DEF IInv, Fresh
<1> QED BY <1>1, InductiveInvariant, PTL
=============================================================================
