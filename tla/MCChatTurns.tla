----------------------------- MODULE MCChatTurns -----------------------------
(* One document's Chat with a few members, threads and jobs.  The notes are  *)
(* of one thread.                                                            *)
EXTENDS ChatTurns, TLC

CONSTANTS m1, m2, i1, n1, n2, j1, d1, d2

MCThread == [n \in Notes |-> "t"]

Load(once, twice, faults) ==
    [asks |-> [i \in Items |-> IF i \in twice THEN 2 ELSE IF i \in once THEN 1 ELSE 0],
     faults |-> faults]

MCLoads  == {Load({i1, n1}, {m1}, 1), Load({m2, i1}, {m1}, 1), Load({m1, m2, i1, n1}, {}, 0),
             Load({n1, n2, j1}, {}, 1), Load({m1, i1, j1, d1}, {}, 0),
             Load({i1, j1, d1}, {}, 1)}
=============================================================================
