----------------------------- MODULE MCPlanSync -----------------------------
(* Two tabs, or one with lost connections, refusals, stops and rejected     *)
(* batches.                                                                 *)
EXTENDS PlanSync, TLC

CONSTANTS c1, c2

Load(who, rejects, epochs, losses, crashes, refusals) ==
    [tabs |-> who, bad |-> rejects, epochs |-> epochs, losses |-> losses,
     crashes |-> crashes, refusals |-> refusals, refused |-> FALSE]

MCLoads == {Load({c1, c2}, 0, 1, 0, 0, 0), Load({c1}, 0, 1, 1, 0, 0), Load({c1}, 0, 1, 0, 0, 1),
            Load({c1}, 0, 1, 0, 1, 0), Load({c1}, 1, 3, 0, 0, 0)}

\* Two histories: a batch is refused because a research projection it changes has moved on.
MCRejected == {Load({c1}, 0, 2, 0, 0, 0)}
=============================================================================
