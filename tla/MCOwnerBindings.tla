-------------------------- MODULE MCOwnerBindings --------------------------
(* l1 is a browser's login, l2 a paired machine's.                         *)
EXTENDS OwnerBindings

CONSTANTS l1, l2, t1, t2, t3

Load(who, tasks, outs, binders, revs, faults, refusals, claims, resets, stops) ==
    [logins |-> who, tasks |-> tasks, outs |-> outs, binders |-> binders, revs |-> revs,
     faults |-> faults, refusals |-> refusals, claims |-> claims, resets |-> resets, stops |-> stops]

\* Requests that share a login, one of them a sign-out; two sign-outs; a login that GitHub
\* refuses twice; the owner's binding while its login rotates, signs out and the channel is
\* reset, or its reset fails; a machine's; a handover between the two.
MCLoads ==
    {Load({l1}, {t1, t2}, {t2}, {}, 2, 1, 1, 0, 0, 0),
     Load({l1}, {t1, t2, t3}, {t3}, {}, 2, 0, 1, 0, 0, 0),
     Load({l1}, {t1, t2}, {t1, t2}, {}, 1, 2, 0, 0, 0, 0),
     Load({l1}, {t1}, {}, {}, 3, 0, 2, 0, 0, 0),
     Load({l1}, {t1, t2}, {t2}, {t1}, 2, 0, 1, 1, 0, 0),
     Load({l1}, {t1, t2}, {t2}, {t1}, 1, 0, 0, 2, 1, 0),
     Load({l1}, {t1}, {}, {t1}, 1, 1, 0, 2, 2, 0),
     Load({l2}, {t1}, {}, {t1}, 2, 1, 1, 1, 0, 1),
     Load({l1, l2}, {t1}, {}, {t1}, 1, 0, 0, 2, 0, 0)}
=============================================================================
