---------------------------- MODULE PlanProvider ----------------------------
(***************************************************************************)
(* The browser's provider (packages/editor/src/provider.ts), as operators  *)
(* on one provider instance.  The outbox keeps every local edit until an   *)
(* acknowledgement names the entry that holds it.  Entries are merged when *)
(* they are sent together; updates here are far below MERGE_BYTES, so a    *)
(* merge always gives one entry, and the order of the entries decides      *)
(* nothing: the outbox, a Map by id, is a set of entries.                  *)
(*                                                                         *)
(* `mine' and `gen' are not in the code: the edits made through the        *)
(* instance, and a number telling apart the instances a tab has had (the   *)
(* code compares object identity and #generation).                         *)
(***************************************************************************)
EXTENDS Integers, Sequences, FiniteSets, FiniteSetsExt

CONSTANTS
    MaxSends,       \* MAX_SENDS
    MaxOutbox       \* MAX_OUTBOX_ITEMS

ASSUME OutboxAssumption == MaxSends \in Nat \ {0} /\ MaxOutbox \in Nat \ {0, 1}

NoEpoch == 0

\* A new instance: a new Y.Doc, a new outbox, and #counter from zero.
Fresh(gen) ==
    [gen |-> gen, epoch |-> NoEpoch, synced |-> FALSE, opening |-> FALSE, pacing |-> FALSE,
     counter |-> 0, outbox |-> {}, doc |-> {}, mine |-> {}]

Held(p) == UNION {e.edits : e \in p.outbox}

\* Entries have been merged: #counter has run past the edits made.
Merged(p) == p.counter > Cardinality(p.mine)

\* What #merge makes of the entries `at': all their edits, still unsent if one was.
Union(at, id) ==
    [id |-> id, edits |-> UNION {e.edits : e \in at},
     unsent |-> \E e \in at : e.unsent, sends |-> Max({e.sends : e \in at})]

Single(at) == \E e \in at : at = {e}

\* Mutation: the merged entry keeps the id of one it replaces.
HolderKeepsId(p, at) ==
    LET e == CHOOSE e \in at : TRUE IN IF Single(at) THEN e ELSE Union(at, e.id)

\* The entry that holds the entries `at' once they are merged: a single one itself, several
\* under a fresh id.
Holder(p, at) ==
    IF Single(at) THEN CHOOSE e \in at : TRUE ELSE Union(at, <<"merged", p.counter>>)

\* #merge: the entries give way to their holder.
Merge(p, at) ==
    IF Single(at) THEN p
    ELSE [p EXCEPT !.counter = @ + 1, !.outbox = (@ \ at) \cup {Holder(p, at)}]

\* #send: one frame, and one more try of its entry, whose `unsent' every caller has cleared.
Sent(e) == [e EXCEPT !.unsent = FALSE, !.sends = @ + 1]

\* Merge the entries `at' and send what holds them: the next provider and its frames.
SendMerged(p, at) ==
    LET q == Merge(p, at)
        h == Holder(p, at)
    IN  [next   |-> [q EXCEPT !.outbox = (@ \ {h}) \cup {Sent(h)}],
         frames |-> <<[kind |-> "update", epoch |-> p.epoch, id |-> h.id, edits |-> h.edits]>>]

Unsent(p) == {e \in p.outbox : e.unsent}

Idle(p) == [next |-> p, frames |-> <<>>]

\* #flush: only a provider with an epoch sends, and then holds newer edits for SEND_MS.
Flush(p) ==
    IF p.epoch = NoEpoch \/ Unsent(p) = {} THEN Idle(p)
    ELSE LET s == SendMerged(p, Unsent(p)) IN [s EXCEPT !.next.pacing = TRUE]

\* #local: keep the edit, collapse a saturated outbox, send at once unless pacing.
Local(p, e) ==
    LET kept == [p EXCEPT !.doc = @ \cup {e}, !.mine = @ \cup {e}, !.counter = @ + 1,
                          !.outbox = @ \cup {[id |-> <<"edit", e>>, edits |-> {e},
                                              unsent |-> TRUE, sends |-> 0]}]
        q    == IF Cardinality(kept.outbox) >= MaxOutbox THEN Merge(kept, kept.outbox) ELSE kept
    IN  IF q.pacing THEN Idle(q) ELSE Flush(q)

\* The pacing timer.
Paced(p) == Flush([p EXCEPT !.pacing = FALSE])

\* #resend's candidates; which of them waited a whole interval is a matter of time.
Overdue(p) == {e \in p.outbox : ~e.unsent /\ e.sends < MaxSends}

\* #park: what has been sent is left for the next open.
Park(p) ==
    [p EXCEPT !.outbox = {IF e.unsent THEN e ELSE [e EXCEPT !.sends = MaxSends] : e \in @}]

\* Mutation: any acknowledgement empties the outbox.
SettleAll(p, id) == [p EXCEPT !.outbox = {}]

\* #settle: by id alone.
Settle(p, id) == [p EXCEPT !.outbox = {e \in @ : e.id # id}]

\* #remote: only updates of the provider's own epoch.
Remote(p, epoch, edits) ==
    IF epoch = p.epoch THEN [p EXCEPT !.doc = @ \cup edits] ELSE p

\* Mutation: the pending open is forgotten but the flag that one is in flight is not.
AbandonKeepsOpening(p) == p

\* Wire.#abandon rejects the pending open, and resume's `finally' lets the next one through.
Abandon(p) == [p EXCEPT !.opening = FALSE]

\* #discard, with the editor remounting around a new Y.Doc and a new provider.
Discard(p) == Fresh(p.gen + 1)

\* #reset: the same epoch refused an update and kept the document.
Reset(p, epoch) == IF epoch = p.epoch THEN Park(p) ELSE Discard(p)

\* Mutation: a provider that comes back keeps the document it had.
OpenedStale(p, epoch, doc) ==
    IF p.epoch # NoEpoch /\ p.epoch # epoch THEN Idle(Discard(p))
    ELSE Idle([p EXCEPT !.epoch = epoch, !.synced = TRUE, !.opening = FALSE,
                        !.doc = IF p.epoch = NoEpoch THEN doc ELSE @])

\* #open's reply and #replay: another epoch discards, otherwise take the server's state
\* and send the whole outbox again.
Opened(p, epoch, doc) ==
    IF p.epoch # NoEpoch /\ p.epoch # epoch THEN Idle(Discard(p))
    ELSE LET q == [p EXCEPT !.epoch = epoch, !.doc = @ \cup doc, !.synced = TRUE,
                            !.opening = FALSE,
                            !.outbox = {[e EXCEPT !.unsent = FALSE, !.sends = 0] : e \in @}]
         IN  IF q.outbox = {} THEN Idle(q) ELSE SendMerged(q, q.outbox)
=============================================================================
