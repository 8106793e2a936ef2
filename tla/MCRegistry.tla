----------------------------- MODULE MCRegistry -----------------------------
(* Instances of Registry for TLC. *)
EXTENDS Registry, TLC

CONSTANTS n1, n2, x, y

Info(n, ts, ok) == [name |-> n, tools |-> ts, healthy |-> ok]

\* A file in which both servers have tool x, with a profile that drops one of
\* them, and a file that names one server twice.
MCListing ==
    [f1 |-> [codex |-> <<Info(n1, {x}, TRUE), Info(n2, {x, y}, TRUE)>>,
             other |-> <<Info(n2, {x}, TRUE)>>],
     f2 |-> [codex |-> <<Info(n1, {x}, TRUE), Info(n1, {y}, FALSE)>>,
             other |-> <<>>]]

\* An update of the first server and a registration of the second.
MCEntries == {Info(n1, {y}, FALSE), Info(n2, {x}, TRUE)}

\* Nothing tells the calls of HealthCheck apart.
CheckSymmetry == Permutations(Checks)
=============================================================================
