------------------------------ MODULE FencedLog ------------------------------
(***************************************************************************)
(* What the writer lease promises to everything that is stored: an         *)
(* append-only log with one writer at a time.  A term is granted to one    *)
(* process, a later term is always granted to take over, and only the      *)
(* process of the current term appends.                                    *)
(***************************************************************************)
EXTENDS Naturals, Sequences

CONSTANTS Writers, NoWriter

VARIABLES
    holder,     \* the process of the current term
    term,       \* the number of terms granted
    entries     \* the terms the entries of the log were appended in

logVars == <<holder, term, entries>>

Init == holder = NoWriter /\ term = 0 /\ entries = <<>>

\* A new term, for another process or for the same one.
Grant(w) ==
    /\ holder' = w /\ term' = term + 1
    /\ UNCHANGED entries

AppendEntry ==
    /\ holder # NoWriter
    /\ entries' = Append(entries, term)
    /\ UNCHANGED <<holder, term>>

Next == AppendEntry \/ \E w \in Writers : Grant(w)

Spec == Init /\ [][Next]_logVars
=============================================================================
