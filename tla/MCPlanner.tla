------------------------------ MODULE MCPlanner ------------------------------
(* Instances of Planner for TLC: every task of up to three steps over three
   IDs whose dependency lists have at most two entries, with the malformed
   ones a client can send. *)
EXTENDS Planner

CONSTANTS a, b, c

\* Every list of at most two dependencies, so also one named twice.
DepLists == UNION {[1 .. n -> IDs] : n \in 0 .. 2}

\* The IDs the steps of a task carry, among them missing and repeated ones.
\* The ID c is unknown to the tasks of one or two steps.
IdLists == {<<a>>, <<NoId>>, <<a, b>>, <<a, a>>, <<b, NoId>>, <<a, b, c>>, <<a, b, a>>}

MCTasks ==
    {<<>>} \cup
    UNION {{[i \in 1 .. Len(ids) |->
                [id |-> ids[i], deps |-> deps[i], known |-> i # unknown]] :
            deps \in [1 .. Len(ids) -> DepLists], unknown \in {0, Len(ids)}} :
           ids \in IdLists}
=============================================================================
