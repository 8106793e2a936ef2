------------------------------ MODULE TaskGraph ------------------------------
(***************************************************************************)
(* Notions about a task's dependency graph and its waves that the planner  *)
(* promises and the executor relies on.  A graph is a function deps from   *)
(* step IDs to the sets of steps they depend on; a plan is a sequence of   *)
(* sets of steps, the waves.                                               *)
(***************************************************************************)
EXTENDS Integers, Sequences

\* The steps placed before wave i.
Before(waves, i) == UNION {waves[h] : h \in 1 .. i - 1}

\* A plan for the graph: waves are not empty, every step is in exactly one
\* of them, and everything a step depends on is in an earlier wave.
WellPlanned(deps, waves) ==
    /\ \A i \in 1 .. Len(waves) :
        /\ waves[i] # {}
        /\ waves[i] \cap Before(waves, i) = {}
        /\ \A s \in waves[i] : deps[s] \subseteq Before(waves, i)
    /\ Before(waves, Len(waves) + 1) = DOMAIN deps

\* The steps a step depends on, directly or not: the least set that holds its
\* dependencies and is closed under them.
Upstream(deps, s) ==
    {t \in DOMAIN deps : \A C \in SUBSET DOMAIN deps :
        (deps[s] \subseteq C /\ \A u \in C : deps[u] \subseteq C) => t \in C}

\* No step depends on itself, directly or not.
Acyclic(deps) == \A s \in DOMAIN deps : s \notin Upstream(deps, s)
=============================================================================
