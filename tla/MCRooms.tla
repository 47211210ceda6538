------------------------------- MODULE MCRooms -------------------------------
(* Two tabs; the first one reloads, so that two of the sockets are its own. *)
EXTENDS Rooms, TLC

CONSTANTS s1, s2, s3, c1, c2

MCClientOf == s1 :> c1 @@ s2 :> c1 @@ s3 :> c2

Load(who, transitions, turns, detached, faults) ==
    [sockets |-> who, trans |-> transitions, turns |-> turns, detached |-> detached,
     faults |-> faults, failed |-> FALSE]

\* Three sockets that come and go; two, or one, while the server works on the document.
MCLoads  == {Load({s1, s2, s3}, 0, 0, 0, 0), Load({s1, s3}, 1, 1, 0, 0),
             Load({s1, s3}, 1, 0, 0, 1), Load({s1}, 2, 1, 1, 1)}
MCJoins  == {Load({s1, s2, s3}, 0, 0, 0, 0)}
=============================================================================
