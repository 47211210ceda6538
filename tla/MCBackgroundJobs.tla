-------------------------- MODULE MCBackgroundJobs --------------------------
(* Two jobs that compete, and one job through every kind of failure.  A job *)
(* alone is never claimed more than 13 times under its load.                *)
EXTENDS BackgroundJobs, TLC

CONSTANTS j1, j2, t1, t2

Load(on, claims, faults, stalls, restarts, moves) ==
    [on |-> on, claims |-> claims, faults |-> faults, stalls |-> stalls,
     restarts |-> restarts, moves |-> moves]

Alone == j1 :> t1 @@ j2 :> NoTarget
Same  == j1 :> t1 @@ j2 :> t1
Apart == j1 :> t1 @@ j2 :> t2

MCLoads == {Load(Alone, 14, 2, 0, 1, 0), Load(Alone, 3, 1, 1, 0, 1), Load(Alone, 3, 0, 1, 1, 1),
            Load(Same, 2, 0, 1, 0, 0), Load(Same, 1, 0, 0, 0, 1),
            Load(Apart, 2, 0, 0, 0, 0)}
=============================================================================
