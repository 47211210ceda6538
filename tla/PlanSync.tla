------------------------------ MODULE PlanSync ------------------------------
(***************************************************************************)
(* One collaborative document: browser providers (PlanProvider), the plan  *)
(* service that batches, validates, commits and acknowledges their updates *)
(* (plan/service.ts over plan/room.ts), and the channel's rows             *)
(* (ChannelJournal).  Providers talk to the service over sockets that keep *)
(* order and can be lost; the server can stop at any moment.               *)
(*                                                                         *)
(* Every mutation of the document runs in the promise chain `flushing', so *)
(* `phase' is where the one operation in the chain is: its awaits are the  *)
(* points where frames, disconnects and crashes come in between.           *)
(*                                                                         *)
(* Edits are numbers in the order they are made.  deps[e] is what e builds *)
(* on: always its author's own earlier edits (Yjs takes a client's structs *)
(* only in order), and possibly all its author had seen.  An edit whose    *)
(* deps are missing stays pending in Yjs: received, stored, not shown.     *)
(* Integrating an edit of `bad' leaves a tree that does not validate.      *)
(***************************************************************************)
EXTENDS ChannelJournal, PlanProvider, FiniteSets

CONSTANTS
    Clients,        \* browser tabs with the document open
    NoClient,       \* the sender of an update whose socket has closed
    MaxEdits,       \* bound on the edits made, by people and by the server
    Loads           \* the loads a behaviour may start with: the tabs that take part, how many
                    \* edits do not validate (`bad'), how many histories there are (`epochs',
                    \* one more than the rejected batches), and how many connections are lost,
                    \* servers stop and updates are refused before they are queued (`refused':
                    \* one was)

ASSUME ClientAssumption == NoClient \notin Clients
ASSUME SyncLoads ==
    /\ MaxEdits \in Nat
    /\ Loads \subseteq [tabs: SUBSET Clients, bad: Nat, epochs: Nat \ {0}, losses: Nat,
                        crashes: Nat, refusals: Nat, refused: {FALSE}]

VARIABLES
    deps, bad,      \* the edits made so far
    ch,             \* the channel's rows
    \* the open plan; `running' is whether the room has one
    running, epoch, live, known,    \* document.epoch, .doc and .checkpoint
    queue,          \* plan.queue
    phase, batch, extra,            \* the operation in the chain: client items, server edits
    saved,          \* persistence: revision, sequence, committedEpoch, committedDocument
    due,            \* the checkpoint timer is armed
    asks,           \* opens waiting for the chain
    \* the tabs and their sockets
    prov, online, up, down,
    past,           \* of a tab's earlier providers: their edits, and those onReset told lost
    load            \* what is left of the load

edits   == <<deps, bad>>
chain   == <<phase, batch, extra>>
room    == <<running, epoch, live, known, saved, due>>
tabs    == <<prov, online, up, down, past>>
vars    == <<edits, ch, room, queue, chain, asks, tabs, load>>

Edits == 1 .. MaxEdits
Made  == DOMAIN deps

\* What Yjs shows of the updates received: an edit once everything it builds on is there.
Shown(s) == {e \in s : deps[e] \subseteq s}
Valid(s) == Shown(s) \cap bad = {}

Phases == {"idle", "applied", "conflict", "repeated", "committed", "replacing", "replaced"}

\* The rows, the updates and the frames there can be when the edits M have been made.
Ids        == {"edit", "merged"} \X Nat
Operations(M) == ({"update"} \X Nat \X SUBSET M) \cup ({"state", "epoch"} \X Nat)
Channels(M) ==
    [revision: Nat, next: Nat \ {0}, operations: SUBSET Operations(M),
     updates: SUBSET [sequence: Nat, revision: Nat, epoch: Nat, update: SUBSET M],
     snapshot: [epoch: Nat \ {0}, doc: SUBSET M, through: Nat, revision: Nat]]
Items(M)   == [client: Clients \cup {NoClient}, id: Ids, edits: SUBSET M, epoch: Nat \ {0}]
Entries(M) == [id: Ids, edits: SUBSET M, unsent: BOOLEAN, sends: Nat]
ProviderRecords(M) ==
    [gen: Nat \ {0}, epoch: Nat, synced: BOOLEAN, opening: BOOLEAN, pacing: BOOLEAN, counter: Nat,
     outbox: SUBSET Entries(M), doc: SUBSET M, mine: SUBSET M]
\* The id was given to an entry of the provider.
Used(p, id, M) == IF id[1] = "edit" THEN id[2] \in M ELSE id[2] < p.counter
Providers(M) ==
    {p \in ProviderRecords(M) : /\ IsFiniteSet(p.outbox) /\ p.mine \subseteq p.doc
                                /\ \A x \in p.outbox : Used(p, x.id, M)}
Ups(M)     == [kind: {"update"}, epoch: Nat, id: Ids, edits: SUBSET M]
              \cup [kind: {"open"}, gen: Nat]
Downs(M)   == [kind: {"ack"}, id: Ids, edits: SUBSET M]
              \cup [kind: {"update"}, epoch: Nat, edits: SUBSET M]
              \cup [kind: {"refuse"}] \cup [kind: {"reset"}, epoch: Nat]
              \cup [kind: {"open"}, gen: Nat, epoch: Nat \ {0}, doc: SUBSET M]
LoadRecords == [tabs: SUBSET Clients, bad: Nat, epochs: Nat \ {0}, losses: Nat,
                crashes: Nat, refusals: Nat, refused: BOOLEAN]

Saved == [revision |-> ch.revision, sequence |-> ch.next - 1,
          epoch |-> ch.snapshot.epoch, doc |-> Durable(ch)]

Init ==
    /\ deps = <<>> /\ bad = {}
    /\ ch = Created(1)
    /\ running = FALSE /\ epoch = 1 /\ live = {} /\ known = {}
    /\ queue = <<>> /\ phase = "idle" /\ batch = <<>> /\ extra = {}
    /\ saved = Saved /\ due = FALSE /\ asks = {}
    /\ prov = [c \in Clients |-> Fresh(1)] /\ past = [c \in Clients |-> [mine |-> {}, lost |-> {}]]
    /\ online = [c \in Clients |-> FALSE]
    /\ up = [c \in Clients |-> <<>>] /\ down = [c \in Clients |-> <<>>]
    /\ load \in Loads

Spend(b) == load[b] > 0 /\ load' = [load EXCEPT ![b] = @ - 1]

-----------------------------------------------------------------------------
(* The tab: its provider and its end of the socket.                        *)

\* Wire.send drops a frame when the socket is not open.
Carry(c, s) ==
    /\ prov' = [prov EXCEPT ![c] = s.next]
    /\ up' = IF online[c] THEN [up EXCEPT ![c] = @ \o s.frames] ELSE up

\* resume: ask for the document, unless an open is in flight.
Resume(p) ==
    IF p.opening THEN Idle(p)
    ELSE [next |-> [p EXCEPT !.opening = TRUE],
          frames |-> <<[kind |-> "open", gen |-> p.gen]>>]

\* The socket opens, and the provider asks.
Connect(c) ==
    /\ c \in load.tabs /\ ~online[c]
    /\ online' = [online EXCEPT ![c] = TRUE]
    /\ LET s == Resume(prov[c]) IN
       prov' = [prov EXCEPT ![c] = s.next] /\ up' = [up EXCEPT ![c] = s.frames]
    /\ UNCHANGED <<edits, ch, room, queue, chain, asks, down, past, load>>

\* An edit, once the editor is unlocked.
Edit(c) ==
    /\ prov[c].synced /\ Len(deps) < MaxEdits
    /\ LET e == Len(deps) + 1 IN
       /\ \E seen \in {prov[c].mine, prov[c].doc} :
            deps' = Append(deps, seen \cup UNION {deps[d] : d \in seen})
       /\ \E b \in {{}, {e}} : bad' = bad \cup b /\ Cardinality(bad') <= load.bad
       /\ Carry(c, Local(prov[c], e))
    /\ UNCHANGED <<ch, room, queue, chain, asks, online, down, past, load>>

Pace(c) ==
    /\ prov[c].pacing
    /\ Carry(c, Paced(prov[c]))
    /\ UNCHANGED <<edits, ch, room, queue, chain, asks, online, down, past, load>>

Resend(c) ==
    /\ prov[c].synced
    /\ \E at \in SUBSET Overdue(prov[c]) :
         at # {} /\ Carry(c, SendMerged(prov[c], at))
    /\ UNCHANGED <<edits, ch, room, queue, chain, asks, online, down, past, load>>

\* The edits made through a provider, while its entries' ids tell them apart: always in a tab's
\* first one, in a later one until it merges (see SettledByOwn).
Accountable(p) == IF p.gen = 1 \/ ~Merged(p) THEN p.mine ELSE {}

\* Mutation: #discard looks at the outbox when it has emptied it.
DiscardedEmptied(h, p) == [h EXCEPT !.mine = @ \cup Accountable(p)]

\* What #discard tells the editor (onReset's `lost'): the edits still in the outbox go with it.
Discarded(h, p) == [mine |-> h.mine \cup Accountable(p), lost |-> h.lost \cup Held(p)]

\* A provider that discarded its document opens again at once, if the socket is there.
Reopen(c, p) ==
    IF p.gen # prov[c].gen /\ online[c] THEN Resume(p) ELSE Idle(p)

Receive(c) ==
    /\ down[c] # <<>>
    /\ down' = [down EXCEPT ![c] = Tail(@)]
    /\ LET m == Head(down[c])  p == prov[c] IN
       \/ m.kind = "ack"    /\ Carry(c, Idle(Settle(p, m.id)))
       \/ m.kind = "update" /\ Carry(c, Idle(Remote(p, m.epoch, m.edits)))
       \/ m.kind = "refuse" /\ Carry(c, Idle(Park(p)))
       \/ m.kind = "reset"  /\ Carry(c, Reopen(c, Reset(p, m.epoch)))
       \/ m.kind = "open"   /\ Carry(c, IF m.gen # p.gen THEN Idle(p)
                                        ELSE LET s == Opened(p, m.epoch, m.doc) IN
                                             IF s.next.gen # p.gen THEN Reopen(c, s.next) ELSE s)
    /\ past' = IF prov'[c].gen = prov[c].gen THEN past
               ELSE [past EXCEPT ![c] = Discarded(@, prov[c])]
    /\ UNCHANGED <<edits, ch, room, queue, chain, asks, online, load>>

\* The socket is lost with the frames on it; the service's replies to it go nowhere.
Gone(items, lost) == [i \in DOMAIN items |->
    IF items[i].client \in lost THEN [items[i] EXCEPT !.client = NoClient] ELSE items[i]]

Lose(c) ==
    /\ online[c] /\ Spend("losses")
    /\ online' = [online EXCEPT ![c] = FALSE]
    /\ up' = [up EXCEPT ![c] = <<>>] /\ down' = [down EXCEPT ![c] = <<>>]
    /\ prov' = [prov EXCEPT ![c] = Abandon(@)]
    /\ queue' = Gone(queue, {c}) /\ batch' = Gone(batch, {c})
    /\ asks' = {a \in asks : a.client # c}
    /\ UNCHANGED <<edits, ch, room, phase, extra, past>>

-----------------------------------------------------------------------------
(* The service: frames from sockets, then the chain.                       *)

ToAll(cs, frames) == [c \in Clients |-> IF c \in cs /\ online[c] THEN down[c] \o frames ELSE down[c]]

\* submit: an update for another epoch, or for a document not open, is dropped without a word.
\* The item's `epoch', like the `edits' of an ack, is a ghost for the properties to read:
\* the code keeps neither, and no guard here looks at them.
Submit(c) ==
    /\ up[c] # <<>> /\ Head(up[c]).kind = "update"
    /\ up' = [up EXCEPT ![c] = Tail(@)]
    /\ LET m == Head(up[c]) IN
       queue' = IF ~running \/ m.epoch # epoch THEN queue
                ELSE Append(queue, [client |-> c, id |-> m.id, edits |-> m.edits,
                                    epoch |-> m.epoch])
    /\ UNCHANGED <<edits, ch, room, chain, asks, prov, online, down, past, load>>

\* submit's refusals: over the rate (nothing the provider acts on), an implementation is
\* active (an error), or the update is oversized (a reset naming the current epoch).
Refuse(c) ==
    /\ running /\ up[c] # <<>> /\ Head(up[c]).kind = "update"
    /\ load.refusals > 0 /\ load' = [load EXCEPT !.refusals = @ - 1, !.refused = TRUE]
    /\ up' = [up EXCEPT ![c] = Tail(@)]
    /\ \/ UNCHANGED down
       \/ down' = ToAll({c}, <<[kind |-> "refuse"]>>)
       \/ Head(up[c]).epoch = epoch /\ down' = ToAll({c}, <<[kind |-> "reset", epoch |-> epoch]>>)
    /\ UNCHANGED <<edits, ch, room, queue, chain, asks, prov, online, past>>

\* plan:open waits its turn in the chain.
Ask(c) ==
    /\ up[c] # <<>> /\ Head(up[c]).kind = "open"
    /\ up' = [up EXCEPT ![c] = Tail(@)]
    /\ asks' = asks \cup {[client |-> c, gen |-> Head(up[c]).gen]}
    /\ UNCHANGED <<edits, ch, room, queue, chain, prov, online, down, past, load>>

\* Mutation: greet outside the chain.
GreetReadyUnchained == running

GreetReady == running /\ phase = "idle"

\* greet: the state vector only saves bytes, so the reply stands for the whole document.
Greet(a) ==
    /\ GreetReady /\ a \in asks
    /\ asks' = asks \ {a}
    /\ down' = ToAll({a.client}, <<[kind |-> "open", gen |-> a.gen, epoch |-> epoch, doc |-> live]>>)
    /\ UNCHANGED <<edits, ch, room, queue, chain, prov, online, up, past, load>>

\* Mutation: the batch is not projected and validated.
AcceptsAll == TRUE

\* room.apply's outcome: the live document, batch included, still projects and validates.
Accepts == Valid(live)

BatchEdits == UNION {batch[i].edits : i \in DOMAIN batch}

\* commit, up to room.apply: the updates are in the live document before it is validated.
Apply ==
    /\ running /\ phase = "idle" /\ queue # <<>>
    /\ batch' = queue /\ queue' = <<>>
    /\ live' = live \cup UNION {queue[i].edits : i \in DOMAIN queue}
    /\ phase' = "applied"
    /\ UNCHANGED <<edits, ch, running, epoch, known, saved, due, extra, asks, tabs, load>>

\* publish, publishStaged, rewrite: an edit by the server itself, to be committed.
Publish ==
    /\ running /\ phase = "idle" /\ Len(deps) < MaxEdits
    /\ deps' = Append(deps, Shown(live)) /\ bad' = bad
    /\ extra' = {Len(deps) + 1} /\ live' = live \cup extra'
    /\ phase' = "applied"
    /\ UNCHANGED <<ch, running, epoch, known, saved, due, queue, batch, asks, tabs, load>>

\* room.enableTitle after a valid batch: the server's own edit joins the batch's commit.
CorrectTitle ==
    /\ running /\ phase = "applied" /\ Accepts /\ batch # <<>> /\ extra = {}
    /\ Len(deps) < MaxEdits
    /\ deps' = Append(deps, Shown(live)) /\ bad' = bad
    /\ extra' = {Len(deps) + 1} /\ live' = live \cup extra'
    /\ UNCHANGED <<ch, running, epoch, known, saved, due, queue, phase, batch, asks, tabs, load>>

\* The operation id: the epoch and a hash of the merged update.
Operation == <<"update", epoch, BatchEdits \cup extra>>

\* commitHosted reaches the database.  A research projection that changed meanwhile
\* refuses a batch of client updates; a batch committed before is not written again.
CommitRows ==
    /\ running /\ phase = "applied" /\ Accepts
    /\ \/ /\ ~Repeated(ch, Operation)
          /\ ch' = Commit(ch, Operation, epoch, BatchEdits \cup extra)
          /\ phase' = "committed"
       \/ /\ Repeated(ch, Operation)
          /\ phase' = "repeated" /\ UNCHANGED ch
       \/ /\ ~Repeated(ch, Operation) /\ batch # <<>> /\ epoch < load.epochs
          /\ phase' = "conflict" /\ UNCHANGED ch
    /\ UNCHANGED <<edits, room, queue, batch, extra, asks, tabs, load>>

\* After a repeated batch the advanced sidecar is committed under an id of its own.
CommitState ==
    /\ running /\ phase = "repeated"
    /\ ch' = Commit(ch, <<"state", ch.next>>, epoch, {})
    /\ phase' = "committed"
    /\ UNCHANGED <<edits, room, queue, batch, extra, asks, tabs, load>>

\* Mutation: the rebuild point moves only when the room checkpoints.
KnownAtCheckpoint == known

KnownAfterCommit == live

\* Mutation: the sequence commitHosted returned is not kept.
NextSavedOldSequence == [revision |-> ch.revision, sequence |-> saved.sequence,
                         epoch |-> epoch, doc |-> live]

\* persistence after a write: what the database answered and what was captured.
NextSaved == [revision |-> ch.revision, sequence |-> ch.next - 1, epoch |-> epoch, doc |-> live]

\* The rest of commitHosted and of commit: the acks to the senders, the relays to the others.
Acknowledge ==
    /\ running /\ phase = "committed"
    /\ saved' = NextSaved
    /\ known' = KnownAfterCommit /\ due' = TRUE
    /\ down' = [c \in Clients |-> IF ~online[c] THEN down[c] ELSE
         down[c]
         \o [i \in DOMAIN batch |->
               IF batch[i].client = c
               THEN [kind |-> "ack", id |-> batch[i].id, edits |-> batch[i].edits]
               ELSE [kind |-> "update", epoch |-> epoch, edits |-> batch[i].edits]]
         \o (IF extra = {} THEN <<>> ELSE <<[kind |-> "update", epoch |-> epoch, edits |-> extra]>>)]
    /\ phase' = "idle" /\ batch' = <<>> /\ extra' = {}
    /\ UNCHANGED <<edits, ch, running, epoch, live, queue, asks, prov, online, up, past, load>>

\* rejectBatch, up to plan.document = rebuilt: the last known-good state under a new epoch.
\* Whatever was queued meanwhile stays in the queue.
Rebuild ==
    /\ running /\ epoch < load.epochs
    /\ phase = "conflict" \/ (phase = "applied" /\ ~Accepts)
    /\ epoch' = epoch + 1 /\ live' = known
    /\ phase' = "replacing"
    /\ UNCHANGED <<edits, ch, running, known, saved, due, queue, batch, extra, asks, tabs, load>>

ReplaceRows ==
    /\ running /\ phase = "replacing"
    /\ ch' = Replace(ch, <<"epoch", epoch>>, epoch, live)
    /\ phase' = "replaced"
    /\ UNCHANGED <<edits, room, queue, batch, extra, asks, tabs, load>>

\* The rest of replaceHosted and of rejectBatch: everyone in the room is told to reopen.
AnnounceReset ==
    /\ running /\ phase = "replaced"
    /\ saved' = NextSaved
    /\ known' = live /\ due' = FALSE
    /\ down' = ToAll(Clients, <<[kind |-> "reset", epoch |-> epoch]>>)
    /\ phase' = "idle" /\ batch' = <<>> /\ extra' = {}
    /\ UNCHANGED <<edits, ch, running, epoch, live, queue, asks, prov, online, up, past, load>>

\* The checkpoint timer, in the chain.
CheckpointRows ==
    /\ running /\ phase = "idle" /\ due
    /\ due' = FALSE
    /\ MayCheckpoint(ch, saved.revision, saved.sequence)
    /\ ch' = Checkpoint(ch, saved.revision, saved.sequence, saved.epoch, saved.doc)
    /\ known' = saved.doc
    /\ UNCHANGED <<edits, running, epoch, live, saved, queue, chain, asks, tabs, load>>

\* close: the room emptied.  The chain is drained, a queued update is not, and the
\* document is checkpointed.
Close ==
    /\ running /\ phase = "idle" /\ \A c \in Clients : ~online[c]
    /\ MayCheckpoint(ch, saved.revision, saved.sequence)
    /\ ch' = Checkpoint(ch, saved.revision, saved.sequence, saved.epoch, saved.doc)
    /\ running' = FALSE /\ due' = FALSE /\ queue' = <<>>
    /\ live' = {} /\ known' = {}
    /\ UNCHANGED <<edits, epoch, saved, chain, asks, tabs, load>>

\* The process stops: everything in memory and on its sockets is gone.
Crash ==
    /\ Spend("crashes")
    /\ running' = FALSE /\ due' = FALSE /\ queue' = <<>> /\ asks' = {}
    /\ live' = {} /\ known' = {}
    /\ phase' = "idle" /\ batch' = <<>> /\ extra' = {}
    /\ online' = [c \in Clients |-> FALSE]
    /\ up' = [c \in Clients |-> <<>>] /\ down' = [c \in Clients |-> <<>>]
    /\ prov' = [c \in Clients |-> IF online[c] THEN Abandon(prov[c]) ELSE prov[c]]
    /\ epoch' = ch.snapshot.epoch /\ saved' = Saved      \* read again by Restore
    /\ UNCHANGED <<edits, ch, past>>

\* The first plan:open of a room opens the plan: load, restore and replay.
Restore ==
    /\ ~running /\ asks # {} /\ Restorable(ch)
    /\ running' = TRUE
    /\ epoch' = ch.snapshot.epoch /\ live' = Durable(ch) /\ known' = Durable(ch)
    /\ saved' = Saved
    /\ UNCHANGED <<edits, ch, due, queue, chain, asks, tabs, load>>

Next ==
    \/ \E c \in Clients : Connect(c) \/ Edit(c) \/ Pace(c) \/ Resend(c) \/ Receive(c) \/ Lose(c)
                          \/ Submit(c) \/ Refuse(c) \/ Ask(c)
    \/ \E a \in asks : Greet(a)
    \/ Apply \/ Publish \/ CorrectTitle \/ CommitRows \/ CommitState \/ Acknowledge
    \/ Rebuild \/ ReplaceRows \/ AnnounceReset
    \/ CheckpointRows \/ Close \/ Crash \/ Restore

Spec == Init /\ [][Next]_vars

\* Timers fire, promises settle, sockets deliver, and a browser keeps trying to reconnect.
\* Nobody has to type, publish or lose a connection.
Progress ==
    /\ \A c \in Clients :
         /\ WF_vars(Connect(c)) /\ WF_vars(Pace(c)) /\ WF_vars(Resend(c)) /\ WF_vars(Receive(c))
         /\ WF_vars(Submit(c)) /\ WF_vars(Ask(c)) /\ WF_vars(\E a \in asks : a.client = c /\ Greet(a))
    /\ WF_vars(Apply) /\ WF_vars(CommitRows) /\ WF_vars(CommitState) /\ WF_vars(Acknowledge)
    /\ WF_vars(Rebuild) /\ WF_vars(ReplaceRows) /\ WF_vars(AnnounceReset)
    /\ WF_vars(Restore)

FairSpec == Spec /\ Progress

-----------------------------------------------------------------------------
TypeOK ==
    /\ deps \in Seq(SUBSET Edits) /\ Len(deps) <= MaxEdits /\ bad \subseteq Made
    /\ ch \in Channels(Made)
    /\ running \in BOOLEAN /\ epoch \in 1 .. load.epochs /\ due \in BOOLEAN
    /\ live \subseteq Made /\ known \subseteq live
    /\ queue \in Seq(Items(Made)) /\ batch \in Seq(Items(Made)) /\ extra \subseteq Made
    /\ phase \in Phases
    /\ asks \subseteq [client: Clients, gen: Nat]
    /\ online \in [Clients -> BOOLEAN]
    /\ prov \in [Clients -> Providers(Made)]
    /\ up \in [Clients -> Seq(Ups(Made))] /\ down \in [Clients -> Seq(Downs(Made))]
    /\ \A c \in Clients : ~online[c] => up[c] = <<>> /\ down[c] = <<>> /\ ~prov[c].opening
    /\ past \in [Clients -> [mine: SUBSET Made, lost: SUBSET Made]]
    /\ load \in LoadRecords

Current(c) == prov[c].epoch = ch.snapshot.epoch

\* An edit is in its author's outbox until it is durable, or until a discard tells the editor
\* that it is lost: no acknowledgement, merge, resend, lost socket or crash leaves an edit
\* that is neither kept nor reported, and a rejected batch no other than #discard reports.
NothingLost ==
    \A c \in Clients :
        past[c].mine \cup Accountable(prov[c])
            \subseteq Durable(ch) \cup Held(prov[c]) \cup past[c].lost

\* "The merged one is only settled by its own" acknowledgement (provider.ts:191): what an
\* acknowledgement takes out of an outbox is what it acknowledges.
SettledByOwn ==
    [][\A c \in Clients :
         Receive(c) /\ Head(down[c]).kind = "ack" =>
            \A x \in prov[c].outbox \ prov'[c].outbox : x.edits \subseteq Head(down[c]).edits]_vars

\* A tab sees only durable edits and its own: nothing is relayed, acknowledged or put in an
\* open's reply before its commit, so no crash can take back what a peer has built on.
SeenDurable ==
    \A c \in Clients : Current(c) => prov[c].doc \subseteq Durable(ch) \cup prov[c].mine

\* The rows always restore (restoreHosted throws nothing), and to a document that validates.
Recoverable ==
    Restorable(ch) /\ Valid(Durable(ch))

\* Between two operations of the chain the open plan is what its rows would restore, and
\* the next commit expects the revision the channel is at, so no write of its own is fatal.
InStep ==
    running /\ phase = "idle" =>
        /\ live = Durable(ch) /\ known = live /\ epoch = ch.snapshot.epoch
        /\ saved = Saved
        /\ MayCheckpoint(ch, saved.revision, saved.sequence)

\* The journal holds what was written after the checkpoint, and a known operation is in the
\* document, so answering a repeated one from its row loses nothing.
JournalInv ==
    /\ ch.snapshot.epoch \in 1 .. load.epochs
    /\ \A u \in ch.updates : u.sequence > ch.snapshot.through
    /\ \A op \in ch.operations : op[1] = "update" => op[3] \subseteq Durable(ch)

\* At each await of the chain: what is live beyond the rows is the operation under way, the
\* rebuild point is the rows, and the epoch is theirs except while they are being replaced.
ChainInv ==
    /\ epoch = IF phase = "replacing" THEN ch.snapshot.epoch + 1 ELSE ch.snapshot.epoch
    /\ phase = "idle" => batch = <<>> /\ extra = {}
    /\ phase = "replaced" => epoch > 1
    /\ ~running => phase = "idle" /\ queue = <<>>
    /\ running => live = Durable(ch) \cup (IF phase \in {"applied", "conflict"}
                                           THEN BatchEdits \cup extra ELSE {})
    /\ running /\ phase # "committed" => known = Durable(ch)
    /\ phase \in {"repeated", "committed"} => Durable(ch) = known \cup BatchEdits \cup extra

\* A provider without an epoch is new; an epoch was the channel's when it was told; what is
\* acknowledged, or relayed or replied under the channel's epoch, is durable.
FrameInv ==
    \A c \in Clients :
        /\ prov[c].epoch <= ch.snapshot.epoch
        /\ prov[c].epoch = NoEpoch => ~prov[c].synced /\ prov[c].doc = {} /\ prov[c].outbox = {}
        /\ \A i \in DOMAIN up[c] :
             up[c][i].kind = "update" => up[c][i].epoch \in 1 .. ch.snapshot.epoch
        /\ \A i \in DOMAIN down[c] :
             LET m == down[c][i]
             IN  /\ m.kind \in {"update", "reset", "open"} => m.epoch \in 1 .. ch.snapshot.epoch
                 /\ m.kind = "ack" => m.edits \subseteq Durable(ch)
                 /\ m.kind = "update" /\ m.epoch = ch.snapshot.epoch => m.edits \subseteq Durable(ch)
                 /\ m.kind = "open" /\ m.epoch = ch.snapshot.epoch => m.doc \subseteq Durable(ch)

\* y, on its way somewhere, is the provider's own: an entry under its id holds no more.
Covers(p, y, M) ==
    /\ y.edits \subseteq p.mine /\ Used(p, y.id, M)
    /\ \A x \in p.outbox : x.id = y.id => x.edits \subseteq y.edits

\* While a tab has its first provider an id has one meaning: what is on its way to the rows
\* or acknowledged covers the entry it will settle.
OwnInv(c) ==
    LET p == prov[c] IN
    p.gen = 1 =>
        /\ p.mine \subseteq Durable(ch) \cup Held(p)
        /\ \A x \in p.outbox : Covers(p, x, Made)
        /\ \A i \in DOMAIN up[c] : up[c][i].kind = "update" => Covers(p, up[c][i], Made)
        /\ \A i \in DOMAIN queue : queue[i].client = c => Covers(p, queue[i], Made)
        /\ \A i \in DOMAIN batch : batch[i].client = c => Covers(p, batch[i], Made)
        /\ \A i \in DOMAIN down[c] : down[c][i].kind = "ack" => Covers(p, down[c][i], Made)

\* y, if it is no merge, holds the one edit it was made for.
Plain(y) == y.id[1] = "edit" => y.edits = {y.id[2]}

\* Whichever provider made it, the id of an edit has one meaning; and a provider that has
\* merged nothing has only such ids.
PlainInv ==
    /\ \A c \in Clients :
         LET p == prov[c] IN
         /\ Cardinality(p.mine) <= p.counter
         /\ \A x \in p.outbox : Plain(x)
         /\ ~Merged(p) =>
              /\ \A x \in p.outbox : x.id[1] = "edit"
              /\ p.mine \subseteq Durable(ch) \cup Held(p)
         /\ \A i \in DOMAIN up[c] : up[c][i].kind = "update" => Plain(up[c][i])
         /\ \A i \in DOMAIN down[c] : down[c][i].kind = "ack" => Plain(down[c][i])
    /\ \A i \in DOMAIN queue : Plain(queue[i])
    /\ \A i \in DOMAIN batch : Plain(batch[i])

\* What a tab made through a provider it has discarded is durable, or was reported lost.
PastInv == \A c \in Clients : past[c].mine \subseteq Durable(ch) \cup past[c].lost

\* While the first history lasts a tab has one provider.
FirstTab(c) ==
    /\ prov[c].gen = 1
    /\ \A i \in DOMAIN up[c] :
         IF up[c][i].kind = "update" THEN prov[c].epoch = 1 ELSE up[c][i].gen = 1
    /\ \A a \in asks : a.gen = 1
    /\ \A i \in DOMAIN down[c] :
         LET m == down[c][i]
         IN  /\ m.kind = "reset" => prov[c].epoch = 1
             /\ m.kind = "open" => m.gen = 1

\* The updates on their way to a tab behind the k-th frame.
Relayed(c, k) ==
    UNION {down[c][i].edits : i \in {j \in DOMAIN down[c] : j > k /\ down[c][j].kind = "update"}}

\* The tab has the document and does not wait for it again.
Following(c) ==
    /\ online[c] /\ prov[c].synced
    /\ \A i \in DOMAIN up[c] : up[c][i].kind # "open"
    /\ \A a \in asks : a.client # c
    /\ \A i \in DOMAIN down[c] : down[c][i].kind # "open"

\* While the first history lasts, what was announced and a tab lacks is on its way: behind the
\* reply to its open, or behind nothing.
CatchUp(c) ==
    /\ ~running => down[c] = <<>> /\ ~Following(c)
    /\ \A i \in DOMAIN down[c] :
         down[c][i].kind = "open" =>
            known \subseteq down[c][i].doc \cup prov[c].mine \cup Relayed(c, i)
    /\ Following(c) => known \subseteq prov[c].doc \cup Relayed(c, 0)

FirstHistory == ch.snapshot.epoch = 1 => \A c \in Clients : FirstTab(c) /\ CatchUp(c)

\* The rows restore, the plan is in step with them, and so is what is under way.
PlanInv ==
    /\ TypeOK /\ Recoverable /\ InStep /\ JournalInv /\ ChainInv /\ FrameInv
    /\ \A c \in Clients : OwnInv(c)
    /\ PlainInv /\ PastInv /\ FirstHistory

\* As long as no batch was rejected: when nothing is under way, a tab that follows the channel's
\* history and has nothing left to send shows what every other such tab and the server show.
Quiet(c) ==
    /\ running /\ online[c] /\ phase = "idle" /\ queue = <<>> /\ asks = {}
    /\ up[c] = <<>> /\ down[c] = <<>> /\ prov[c].synced /\ prov[c].outbox = {}

Converged ==
    epoch = 1 => \A c \in Clients : Quiet(c) => prov[c].epoch = epoch /\ prov[c].doc = live

\* What was committed stays: not even a rejected batch, which starts a new history, takes a
\* committed edit out of the document.
CommittedStays == [][Durable(ch) \subseteq Durable(ch')]_vars

\* As long as no update is refused, every edit is acknowledged or its history replaced: across
\* lost sockets, crashes, merges and rejected batches the outbox keeps emptying (until the
\* load's histories are used up and a rejected batch has nowhere to go).
Settles ==
    \A c \in Clients :
        []<>(\/ prov[c].synced /\ prov[c].outbox = {}
             \/ c \notin load.tabs \/ load.refused
             \/ load.epochs > 1 /\ epoch = load.epochs)
=============================================================================
