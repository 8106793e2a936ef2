----------------------------- MODULE MCExecutor -----------------------------
(* Instances of Executor for TLC: four steps in the shapes that matter. *)
EXTENDS Executor

CONSTANTS a, b, c, d

Graph(da, db, dc, dd) ==
    [s \in Steps |-> CASE s = a -> da [] s = b -> db [] s = c -> dc [] OTHER -> dd]

Job(deps, refs, waves) == [deps |-> deps, refs |-> refs, waves |-> waves]

\* One step, two that need its output side by side, one that needs both.
Diamond ==
    LET g == Graph({}, {a}, {a}, {b, c})
    IN  Job(g, g, <<{a}, {b, c}, {d}>>)

\* Three steps side by side, then one that needs all their outputs.
FanIn ==
    LET g == Graph({}, {}, {}, {a, b, c})
    IN  Job(g, g, <<{a, b, c}, {d}>>)

\* A chain whose last step refers to the first, which it only depends on
\* indirectly, beside a step on its own.
Chain == Job(Graph({}, {a}, {b}, {}), Graph({}, {a}, {a, b}, {}), <<{a, d}, {b}, {c}>>)

\* A step that refers to one of the same wave, on which it does not depend.
Stray == Job(Graph({}, {}, {a}, {a}), Graph({}, {a}, {b}, {a}), <<{a, b}, {c, d}>>)

MCJobs == {Diamond, FanIn, Chain, Stray}
MCEndJobs == {Diamond, Stray}
=============================================================================
