------------------------------ MODULE Registry ------------------------------
(***************************************************************************)
(* registry.Registry: the servers, the index of their tools that Validate  *)
(* consults, and the operations that change them: Refresh, RegisterServer, *)
(* UnregisterServer and HealthCheck.                                       *)
(*                                                                         *)
(* The two maps have to agree, but each operation brings them up to date   *)
(* in a way of its own.  Refresh reads the file and HealthCheck talks to   *)
(* the servers with the lock released; what they come back with is applied *)
(* to whatever the registry holds by then.  Any number of calls of either  *)
(* may be in progress at once.                                             *)
(***************************************************************************)
EXTENDS Integers, Sequences, FiniteSetsExt

CONSTANTS
    Names,      \* server names
    Tools,      \* tool names
    Files,      \* contents of the registry file
    Targets,    \* profiles of a versioned registry file
    Default,    \* "codex"
    Listing,    \* the servers a content defines for a profile, in file order
    Entries,    \* what clients pass to RegisterServer
    Checks,     \* the calls of HealthCheck
    Bare,       \* the server part of a reference without one
    NoServer    \* no such server

Infos == [name : Names, tools : SUBSET Tools, healthy : BOOLEAN]

ASSUME RegistryAssumption ==
    /\ Default \in Targets
    /\ Listing \in [Files -> [Targets -> Seq(Infos)]]
    /\ Entries \subseteq Infos
    /\ Bare \notin Names
    /\ NoServer \notin Names \cup Infos

VARIABLES
    servers,     \* Registry.servers
    tools,       \* Registry.tools: per reference, the server of its ToolRef
    file,        \* the content of the file at filePath
    refresh,     \* the contents that Refreshes in progress have read
    call,        \* per HealthCheck: it is new, running or has returned
    health,      \* per HealthCheck and server: how far the check is
    report,      \* per HealthCheck and server: what it found
    replaced,    \* history, per HealthCheck: the names changed since its snapshot
    earlier,     \* history, per HealthCheck: the ones that had returned by then
    overwritten  \* history: the names of entries that replaced another one

healthVars == <<call, health, report, earlier>>
vars == <<servers, tools, file, refresh, healthVars, replaced, overwritten>>

-----------------------------------------------------------------------------
(* Loading.                                                                *)

\* "server/tool", or "tool" alone.
Refs == (Names \cup {Bare}) \X Tools

At(l, n) == {i \in DOMAIN l : l[i].name = n}

\* A repeated name replaces the earlier entry.
ServersOf(l) == [n \in Names |-> IF At(l, n) = {} THEN NoServer ELSE l[Max(At(l, n))]]

\* Faulty variant: the full reference gets the server that has the bare name.
ToolsOfBare(l) ==
    [r \in Refs |->
        LET has == {i \in DOMAIN l : r[2] \in l[i].tools}
        IN  IF has = {} THEN NoServer ELSE l[Min(has)].name]

\* Every full reference is indexed, those of a replaced entry too; a bare name
\* belongs to the first server that has the tool.
ToolsOf(l) ==
    [r \in Refs |->
        LET has == {i \in DOMAIN l : r[2] \in l[i].tools /\ r[1] \in {Bare, l[i].name}}
        IN  IF has = {} THEN NoServer ELSE l[Min(has)].name]

Repeated(l) == {n \in Names : \E i, j \in At(l, n) : i # j}

Init ==
    /\ file \in Files
    /\ \E t \in Targets :
        /\ servers = ServersOf(Listing[file][t])
        /\ tools = ToolsOf(Listing[file][t])
        /\ overwritten = Repeated(Listing[file][t])
    /\ refresh = {}
    /\ call = [k \in Checks |-> "new"]
    /\ health = [k \in Checks |-> [n \in Names |-> "none"]]
    /\ report = [k \in Checks |-> [n \in Names |-> FALSE]]
    /\ replaced = [k \in Checks |-> {}]
    /\ earlier = [k \in Checks |-> {}]

Registered == {n \in Names : servers[n] # NoServer}

\* These entries are no longer what the snapshots taken so far have.
Replace(ns) ==
    replaced' = [k \in Checks |-> replaced[k] \cup {n \in ns : health[k][n] # "none"}]

\* Somebody edits the file.
Edit ==
    /\ file' \in Files \ {file}
    /\ UNCHANGED <<servers, tools, refresh, healthVars, replaced, overwritten>>

\* Refresh reads and parses the file before it takes the lock.
RefreshRead ==
    /\ refresh' = refresh \cup {file}
    /\ UNCHANGED <<servers, tools, file, healthVars, replaced, overwritten>>

\* LoadFromFile takes the default profile, whatever the first load used.
\* Another Refresh may have read the same.
RefreshSwap(f) ==
    /\ f \in refresh
    /\ servers' = ServersOf(Listing[f][Default])
    /\ tools' = ToolsOf(Listing[f][Default])
    /\ overwritten' = Repeated(Listing[f][Default])
    /\ refresh' \in {refresh, refresh \ {f}}
    /\ Replace(Names)
    /\ UNCHANGED <<file, healthVars>>

-----------------------------------------------------------------------------
(* RegisterServer, UnregisterServer.                                       *)

\* The full references are added, those of an entry it replaces stay, and no
\* bare name is indexed.
RegisterServer(e) ==
    /\ servers' = [servers EXCEPT ![e.name] = e]
    /\ tools' = [r \in Refs |-> IF r[1] = e.name /\ r[2] \in e.tools THEN e.name ELSE tools[r]]
    /\ Replace({e.name})
    /\ overwritten' = overwritten \cup ({e.name} \cap Registered)
    /\ UNCHANGED <<file, refresh, healthVars>>

\* Faulty variant: the tool is forgotten, whichever server it belongs to.
ForgetsTool(n, r) == r[2] \in servers[n].tools

Forgets(n, r) == r[1] = n /\ r[2] \in servers[n].tools

\* The full references of its tools are removed, bare names stay.
UnregisterServer(n) ==
    /\ n \in Registered
    /\ tools' = [r \in Refs |-> IF Forgets(n, r) THEN NoServer ELSE tools[r]]
    /\ servers' = [servers EXCEPT ![n] = NoServer]
    /\ Replace({n})
    /\ UNCHANGED <<file, refresh, healthVars, overwritten>>

-----------------------------------------------------------------------------
(* HealthCheck: a snapshot, then one goroutine per server, then a return.  *)

HealthCheck(k) ==
    /\ call[k] = "new"
    /\ call' = [call EXCEPT ![k] = "running"]
    /\ health' = [health EXCEPT ![k] = [n \in Names |-> IF n \in Registered THEN "checking" ELSE "none"]]
    /\ earlier' = [earlier EXCEPT ![k] = {c \in Checks : call[c] = "returned"}]
    /\ UNCHANGED <<servers, tools, file, refresh, report, replaced, overwritten>>

\* checkServer dials the endpoint of the snapshot and asks for its tools, which
\* may be long before its answer is put into the results of the call and goes
\* to the server of that name, if there still is one.
CheckServer(k, n) ==
    /\ health[k][n] = "checking"
    /\ health' = [health EXCEPT ![k][n] = "done"]
    /\ \E up \in BOOLEAN :
        /\ report' = [report EXCEPT ![k][n] = up]
        /\ servers' = IF n \in Registered THEN [servers EXCEPT ![n].healthy = up] ELSE servers
    /\ UNCHANGED <<tools, file, refresh, call, earlier, replaced, overwritten>>

\* Faulty variant: each goroutine calls wg.Add for itself, too late for Wait.
WaitedForStarted(k) == call[k] = "running"

\* wg.Wait: every goroutine is through.
Waited(k) == \A n \in Names : health[k][n] \in {"none", "done"}

HealthReturn(k) ==
    /\ call[k] = "running"
    /\ Waited(k)
    /\ call' = [call EXCEPT ![k] = "returned"]
    /\ UNCHANGED <<servers, tools, file, refresh, health, report, earlier, replaced, overwritten>>

-----------------------------------------------------------------------------
Next ==
    \/ Edit
    \/ RefreshRead
    \/ \E f \in Files : RefreshSwap(f)
    \/ \E e \in Entries : RegisterServer(e)
    \/ \E n \in Names : UnregisterServer(n)
    \/ \E k \in Checks :
        \/ HealthCheck(k) \/ HealthReturn(k)
        \/ \E n \in Names : CheckServer(k, n)

Spec == Init /\ [][Next]_vars

-----------------------------------------------------------------------------
(* Properties.                                                             *)

\* Each map has its keys and values: a server is found under its own name, and
\* a full reference leads to no server but the one it names.
TypeOK ==
    /\ servers \in [Names -> Infos \cup {NoServer}]
    /\ \A n \in Registered : servers[n].name = n
    /\ tools \in [Refs -> Names \cup {NoServer}]
    /\ \A r \in Refs : r[1] # Bare => tools[r] \in {r[1], NoServer}
    /\ file \in Files
    /\ refresh \subseteq Files
    /\ call \in [Checks -> {"new", "running", "returned"}]
    /\ health \in [Checks -> [Names -> {"none", "checking", "done"}]]
    /\ report \in [Checks -> [Names -> BOOLEAN]]
    /\ replaced \in [Checks -> SUBSET Names]
    /\ earlier \in [Checks -> SUBSET Checks]
    /\ overwritten \subseteq Names

\* What Validate finds in the index is what can be called: the full references
\* of every registered server, and no others.  Left out are servers whose
\* entry replaced another one, which may keep references of the other.
IndexExact ==
    \A n \in Names, t \in Tools :
        /\ n \in Registered /\ t \in servers[n].tools => tools[<<n, t>>] = n
        /\ n \notin overwritten /\ tools[<<n, t>>] = n => n \in Registered /\ t \in servers[n].tools

\* When HealthCheck has returned, the registry says of each server it checked
\* what that check found, or another one that was not over when it began: no
\* older answer is left, and none comes later, however calls overlap.  Two
\* calls that overlap may leave the answer of either.  Left out are servers
\* whose entry was replaced or removed after the snapshot.
HealthApplied ==
    \A k \in Checks, n \in Names :
        call[k] = "returned" /\ health[k][n] # "none" /\ n \notin replaced[k] =>
            /\ n \in Registered
            /\ \E c \in Checks \ earlier[k] :
                health[c][n] = "done" /\ servers[n].healthy = report[c][n]
=============================================================================
