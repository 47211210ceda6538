--------------------------- MODULE MCPlannerLink ---------------------------
(* PlannerLink for TLC. *)
EXTENDS PlannerLink

CONSTANTS a, b, q1, q2

Load(who, finishing, asks, links, presses, timeouts, endings) ==
    [runs |-> who, finishing |-> finishing, asks |-> asks, links |-> links, presses |-> presses,
     timeouts |-> timeouts, endings |-> endings]

\* Stops and Resumes of two runs over three links, answered in time or not; two questions
\* while the run or the ownership ends; one of each.
MCLoads ==
    {Load({a, b}, {}, {}, 2, 3, 0, FALSE), Load({a, b}, {}, {}, 3, 2, 2, FALSE),
     Load({a}, {a}, {q1, q2}, 3, 0, 0, TRUE), Load({a}, {}, {q1}, 3, 1, 1, FALSE)}

=============================================================================
