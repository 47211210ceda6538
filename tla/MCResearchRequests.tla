------------------------- MODULE MCResearchRequests -------------------------
(* ResearchRequests for TLC. *)
EXTENDS ResearchRequests

Load(inline, starts, retries, cancels, follows, archives, defers, faults, crashes) ==
    [inline |-> inline, starts |-> starts, retries |-> retries, cancels |-> cancels,
     follows |-> follows, edits |-> 0, archives |-> archives, defers |-> defers,
     faults |-> faults, crashes |-> crashes, reads |-> FALSE,
     cut |-> FALSE, failed |-> FALSE]

MCLoads ==
    {Load(TRUE, 1, 1, 0, 0, 0, 0, 1, 0),     \* a failed call and a retry
     Load(TRUE, 1, 0, 1, 1, 0, 0, 0, 0),     \* a finding follows it, and is stopped
     Load(FALSE, 1, 1, 0, 1, 0, 0, 0, 0),    \* a finding follows it through a retry
     Load(TRUE, 1, 1, 1, 0, 0, 0, 0, 0),     \* cancelled and retried
     Load(FALSE, 1, 0, 2, 0, 1, 0, 0, 0),    \* cancelled twice while it is archived
     Load(TRUE, 2, 0, 0, 0, 1, 1, 0, 1),     \* replayed, deferred, archived, crashed
     Load(TRUE, 2, 1, 0, 0, 0, 1, 0, 0),     \* deferred, retried before it is placed
     [Load(TRUE, 1, 1, 0, 0, 0, 0, 0, 1) EXCEPT !.reads = TRUE],
     [Load(FALSE, 1, 0, 0, 0, 0, 0, 1, 0) EXCEPT !.reads = TRUE, !.edits = 1]}

\* The document is edited and the server dies.
MCEdited == {[Load(FALSE, 1, 0, 0, 0, 0, 0, 0, 1) EXCEPT !.edits = 1, !.reads = TRUE]}
=============================================================================
