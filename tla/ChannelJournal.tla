--------------------------- MODULE ChannelJournal ---------------------------
(***************************************************************************)
(* One channel's durable rows (storage/postgres/adapter.ts): the channel's *)
(* revision and next sequence, its checkpoint, the update journal after    *)
(* the checkpoint and the operation ids already committed.  Each           *)
(* operation is one transaction holding the channel row FOR UPDATE and the *)
(* writer fence, so it is an operator on the rows.  The journal is a table *)
(* keyed by sequence: a set of rows, which #load reads in that order.      *)
(*                                                                         *)
(* A Yjs document is the set of the edits it has received: applying an     *)
(* update is set union, which is what makes a repeated update harmless.    *)
(***************************************************************************)
EXTENDS Integers, Sequences

\* The rows a new channel starts from, once its first open has checkpointed it.
Created(epoch) ==
    [revision |-> 0, next |-> 1, operations |-> {}, updates |-> {},
     snapshot |-> [epoch |-> epoch, doc |-> {}, through |-> 0, revision |-> 0]]

\* An operation id seen before is answered from its row: nothing is written again.
Repeated(ch, op) == op \in ch.operations

\* #commit: the journal row (when there is an update), the operation, and both counters.
Commit(ch, op, epoch, update) ==
    [ch EXCEPT !.revision = @ + 1, !.next = @ + 1, !.operations = @ \cup {op},
               !.updates = IF update = {} THEN @
                           ELSE @ \cup {[sequence |-> ch.next, revision |-> ch.revision + 1,
                                         epoch |-> epoch, update |-> update]}]

\* #checkpoint's refusals: the channel moved on, or already has a newer checkpoint.
MayCheckpoint(ch, revision, through) ==
    /\ ch.revision = revision
    /\ through < ch.next /\ ch.snapshot.through <= through

\* #checkpoint: fold the journal through a sequence.  The counters do not move.
Checkpoint(ch, revision, through, epoch, doc) ==
    [ch EXCEPT !.snapshot = [epoch |-> epoch, doc |-> doc, through |-> through,
                             revision |-> revision],
               !.updates = {u \in @ : u.sequence > through}]

\* #replace: a new checkpoint, and no journal.
Replace(ch, op, epoch, doc) ==
    [ch EXCEPT !.revision = @ + 1, !.next = @ + 1, !.operations = @ \cup {op},
               !.snapshot = [epoch |-> epoch, doc |-> doc, through |-> ch.next,
                             revision |-> ch.revision + 1],
               !.updates = {}]

\* #load and room.restore: the checkpoint and every journal row after it.
After(ch)   == {u \in ch.updates : u.sequence > ch.snapshot.through}
Durable(ch) == ch.snapshot.doc \cup UNION {u.update : u \in After(ch)}

\* What restoreHosted and room.restore demand of the rows, or the document never opens.
Restorable(ch) ==
    LET tail == After(ch) IN
    /\ ch.snapshot.revision <= ch.revision /\ ch.snapshot.through < ch.next
    /\ \A u \in tail :
         /\ u.sequence < ch.next /\ u.revision <= ch.revision
         /\ u.epoch = ch.snapshot.epoch
         /\ \A v \in tail : u.sequence = v.sequence => u = v
=============================================================================
