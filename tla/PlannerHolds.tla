---------------------------- MODULE PlannerHolds ----------------------------
(***************************************************************************)
(* Which client is a document's remote Planner (harness/remote/            *)
(* attachments.ts): the hold that ties a link to the login that owns the   *)
(* document in storage, the work a dropped link leaves parked, the grace   *)
(* period, and everything that ends a hold: a login that ends, a reset,    *)
(* another machine, an archive. Attaching and ending run one at a time per *)
(* document but wait on storage and GitHub in between, while logins end,   *)
(* sockets close and owners are reset.                                     *)
(***************************************************************************)
EXTENDS Naturals, Sequences, FiniteSets

CONSTANTS
    Links, NoLink,   \* the links that clients open, each once
    Logins, NoLogin,
    UserOf,          \* the account of a login
    Machines,        \* the delegated logins of paired machines; the rest are browser logins
    Loads            \* bounds, one record per workload: the login each link's account would own
                     \* the document through, NoLogin for a link that is not in it; owner
                     \* resets; archives

ASSUME HoldsAssumption ==
    /\ NoLink \notin Links /\ NoLogin \notin Logins /\ Machines \subseteq Logins
    /\ Loads \subseteq [loginOf: [Links -> Logins \cup {NoLogin}], resets: Nat, archives: Nat]

VARIABLES
    doc,       \* the hold of the document and the state of each link
    live,      \* logins that are live in memory
    rows,      \* logins that have a row in storage
    owner, gen,     \* agent_state of the document
    queue,     \* #serialized: what waits its turn for the document
    op,        \* the one under way
    releasing, \* releases under way outside the queue
    met,       \* for a link that met an attached one: that link, and #endings then
    endings, archived, resetting,
    unheard,   \* generations whose owner a reset cleared without its caller knowing
    load       \* what is left of the bounds

vars == <<doc, live, rows, owner, gen, queue, op, releasing, met, endings, archived,
          resetting, unheard, load>>
storage == <<rows, owner, gen>>
ends    == <<endings, archived, resetting, unheard, load>>

LoginOf == load.loginOf

Attaching == {"login", "access", "other", "read", "check", "dead", "claim", "live", "undo"}
Answered  == {"landing", "bound", "suspended", "closed"}

NoHold == [id |-> NoLink, login |-> NoLogin, gen |-> 0, link |-> NoLink, parked |-> NoLink, timer |-> "off"]
Gens   == Nat
Holds  == [id: Links, login: Logins, gen: Gens, link: Links \cup {NoLink}, parked: Links \cup {NoLink},
           timer: {"off", "on", "fired"}]
NoOp   == [at |-> "none", link |-> NoLink, held |-> NoLink, ids |-> {}, inv |-> FALSE, same |-> FALSE,
           login |-> NoLogin, gen |-> 0]
Ops    == [at: {"none", "login", "access", "other", "read", "check", "dead", "claim", "live", "undo", "release"},
           link: Links \cup {NoLink}, held: Links \cup {NoLink}, ids: SUBSET Logins,
           inv: BOOLEAN, same: BOOLEAN, login: Logins \cup {NoLogin}, gen: Gens]
Jobs   == [do: {"attach", "takeover", "expire", "end", "stop"}, of: Links \cup Logins \cup {NoLink}]
States == {"new", "located", "asking", "landing", "met", "taking", "bound", "suspended", "closed"}
Docs   == [hold: Holds \cup {NoHold}, links: [Links -> States]]

TypeOK ==
    /\ doc \in Docs
    /\ live \subseteq rows /\ rows \subseteq Logins
    /\ owner \in Logins \cup {NoLogin} /\ gen \in Gens
    /\ queue \in Seq(Jobs)
    /\ op \in Ops
    /\ releasing \subseteq Logins \X Gens
    /\ met \in [Links -> [link: Links \cup {NoLink}, endings: Nat]]
    /\ endings \in Nat /\ archived \in BOOLEAN /\ resetting \in BOOLEAN
    /\ unheard \subseteq Gens
    /\ load \in [loginOf: [Links -> Logins \cup {NoLogin}], resets: Nat, archives: Nat]

Init ==
    /\ doc = [hold |-> NoHold, links |-> [k \in Links |-> "new"]]
    /\ load \in Loads
    /\ live = {LoginOf[k] : k \in Links} \ {NoLogin} /\ rows = live /\ owner = NoLogin /\ gen = 0
    /\ queue = <<>> /\ op = NoOp /\ releasing = {}
    /\ met = [k \in Links |-> [link |-> NoLink, endings |-> 0]]
    /\ endings = 0 /\ archived = FALSE /\ resetting = FALSE /\ unheard = {}

-----------------------------------------------------------------------------
(* The hold and its links.                                                 *)

Spend(b) == load[b] > 0 /\ load' = [load EXCEPT ![b] = @ - 1]

Put(d, k, s) == IF k = NoLink THEN d ELSE [d EXCEPT !.links[k] = s]

\* #drop: whatever a dropped link kept goes with the ownership it rested on.
Drop(d) == [Put(d, d.hold.parked, "closed") EXCEPT !.hold = NoHold]

\* #invalidate: forgotten first, so that closing the link starts no grace period.
Invalidate(d) == Put(Drop(d), d.hold.link, "closed")

StartGrace(d) == [d EXCEPT !.hold.timer = "on"]

\* Mutation: a link that was superseded starts the grace period of the hold.
DetachedLate(d, k, kept) ==
    LET e == [Put(d, k, IF kept THEN "suspended" ELSE "closed") EXCEPT !.hold.link = NoLink] IN
    IF d.hold = NoHold THEN Put(d, k, "closed")
    ELSE IF kept
    THEN [e EXCEPT !.hold.parked = k]
    ELSE IF e.hold.parked # NoLink THEN e ELSE StartGrace(e)

\* disconnected and #detached: the link drops, and keeps its sessions or not. Only one
\* earlier link's sessions can wait.
Detached(d, k, kept) ==
    LET e == [Put(d, k, IF kept THEN "suspended" ELSE "closed") EXCEPT !.hold.link = NoLink] IN
    IF d.hold.link # k THEN Put(d, k, "closed")
    ELSE IF kept
    THEN [Put(e, d.hold.parked, "closed") EXCEPT !.hold.parked = k]
    ELSE IF e.hold.parked # NoLink THEN e ELSE StartGrace(e)

\* Mutation: binding leaves the grace timer running.
BoundTimed(d, k) == [Put(d, k, "landing") EXCEPT !.hold.link = k]

\* #bind.
Bound(d, k) == [Put(d, k, "landing") EXCEPT !.hold.link = k, !.hold.timer = "off"]

\* Nothing runs between two steps of the server that have no wait in between: what is at
\* the head of the queue starts, and a grant lands, before anything else happens.
Ready   == queue # <<>> /\ op = NoOp
Settled == ~Ready /\ \A k \in Links : doc.links[k] # "landing"

-----------------------------------------------------------------------------
(* A link, until it is attached.                                           *)

\* locate: the document is there and not archived.
Locate(k) ==
    /\ Settled /\ doc.links[k] = "new" /\ LoginOf[k] # NoLogin /\ ~archived
    /\ doc' = Put(doc, k, "located")
    /\ UNCHANGED <<live, storage, queue, op, releasing, met, ends>>

\* Mutation: an attach goes before what waits and what runs for the document.
AskAtOnce(k) ==
    /\ Settled /\ doc.links[k] = "located"
    /\ doc' = Put(doc, k, "asking")
    /\ queue' = <<[do |-> "attach", of |-> k]>> \o queue
    /\ UNCHANGED <<live, storage, op, releasing, met, ends>>

\* attach.
Ask(k) ==
    /\ Settled /\ doc.links[k] = "located"
    /\ doc' = Put(doc, k, "asking")
    /\ queue' = Append(queue, [do |-> "attach", of |-> k])
    /\ UNCHANGED <<live, storage, op, releasing, met, ends>>

Finish == queue' = Tail(queue) /\ op' = NoOp
Refuse(d, k) == Finish /\ doc' = Put(d, k, "closed")

\* Whether the hold rests on a login of the other kind than the link's.
OtherKind(k, hold) ==
    IF LoginOf[k] \in Machines THEN hold.login # LoginOf[k] ELSE hold.login \in Machines

\* #attach, up to its first wait: the document is free or held by the same account with no
\* link, or the earlier link may be dead and the first message will tell.
Begin(d, k, again) ==
    LET h == d.hold
        mine == UserOf[h.login] = UserOf[LoginOf[k]] IN
    IF h = NoHold \/ (h.link = NoLink /\ mine)
    THEN /\ op' = [NoOp EXCEPT !.at = "login", !.link = k, !.held = h.id,
                               !.ids = IF h = NoHold THEN {} ELSE {h.login}]
         /\ doc' = d /\ UNCHANGED <<queue, met>>
    ELSE IF h.link # NoLink /\ mine /\ ~OtherKind(k, h) /\ ~again
    THEN /\ Finish /\ doc' = Put(d, k, "met")
         /\ met' = [met EXCEPT ![k] = [link |-> h.link, endings |-> endings]]
    ELSE Refuse(d, k) /\ UNCHANGED met

StartAttach(k) ==
    /\ Ready /\ Head(queue) = [do |-> "attach", of |-> k]
    /\ IF doc.links[k] = "closed" THEN Refuse(doc, k) /\ UNCHANGED met ELSE Begin(doc, k, FALSE)
    /\ UNCHANGED <<live, storage, releasing, ends>>

\* The first message of a link that met an attached one.
Confirm(k) ==
    /\ Settled /\ doc.links[k] = "met"
    /\ doc' = Put(doc, k, "taking")
    /\ queue' = Append(queue, [do |-> "takeover", of |-> k])
    /\ UNCHANGED <<live, storage, op, releasing, met, ends>>

\* Mutation: a takeover closes whatever link holds the document.
StartTakeoverAny(k) ==
    /\ Ready /\ Head(queue) = [do |-> "takeover", of |-> k]
    /\ IF met[k].endings # endings THEN Refuse(doc, k) /\ UNCHANGED met
       ELSE \E kept \in BOOLEAN : Begin([doc EXCEPT !.hold.link = NoLink], k, TRUE)
    /\ UNCHANGED <<live, storage, releasing, ends>>

\* #takeover: only a resume that names a session the earlier link holds shows that the
\* client left it; that link is closed as the drop it is.
StartTakeover(k) ==
    /\ Ready /\ Head(queue) = [do |-> "takeover", of |-> k]
    /\ \/ met[k].endings # endings /\ Refuse(doc, k) /\ UNCHANGED met
       \/ met[k].endings = endings /\ doc.hold.link # NoLink
          /\ Refuse(doc, k) /\ UNCHANGED met
       \/ /\ met[k].endings = endings /\ doc.hold.link = met[k].link /\ doc.hold.link # NoLink
          /\ \E kept \in BOOLEAN : Begin(Detached(doc, doc.hold.link, kept), k, TRUE)
       \/ /\ met[k].endings = endings /\ doc.hold.link = NoLink
          /\ Begin(doc, k, TRUE)
    /\ UNCHANGED <<live, storage, releasing, ends>>

-----------------------------------------------------------------------------
(* #attachPending: the login, its access, the hold or a claim.             *)

Here == doc.hold # NoHold /\ doc.hold.id = op.held
Step(at) == op' = [op EXCEPT !.at = at]

\* Mutation: a refused attach breaks the chain of what waits for the document.
LoginBlocks ==
    /\ Settled /\ op.at = "login"
    /\ IF LoginOf[op.link] \in live
       THEN op' = [op EXCEPT !.at = "access", !.ids = @ \cup {LoginOf[op.link]}] /\ UNCHANGED doc
       ELSE op' = [op EXCEPT !.at = "none"] /\ doc' = Put(doc, op.link, "closed")
    /\ UNCHANGED <<live, storage, queue, releasing, met, ends>>

\* #eligibleLogin, up to the check of its access.
Login ==
    /\ Settled /\ op.at = "login"
    /\ IF LoginOf[op.link] \in live
       THEN /\ op' = [op EXCEPT !.at = "access", !.ids = @ \cup {LoginOf[op.link]}]
            /\ UNCHANGED <<doc, queue>>
       ELSE Refuse(doc, op.link)
    /\ UNCHANGED <<live, storage, releasing, met, ends>>

\* A hold that rests on the other kind of login is given up.
Access ==
    /\ Settled /\ op.at = "access"
    /\ \/ Refuse(doc, op.link)
       \/ /\ ~op.inv
          /\ IF op.held # NoLink /\ Here /\ OtherKind(op.link, doc.hold)
             THEN /\ doc' = Drop(doc)
                  /\ op' = [op EXCEPT !.at = "other", !.held = NoLink,
                                      !.login = doc.hold.login, !.gen = doc.hold.gen]
             ELSE /\ UNCHANGED doc
                  /\ Step(IF op.held # NoLink /\ Here THEN "read" ELSE "claim")
          /\ UNCHANGED queue
    /\ UNCHANGED <<live, storage, releasing, met, ends>>

\* #release: clearAgentOwner, guarded by the login and the generation. A failure is logged,
\* and whether it committed is not known.
Clear(l, g) == owner' \in {owner, IF owner = l /\ gen = g THEN NoLogin ELSE owner}

\* #release, awaited by the attach.
Released ==
    /\ Settled /\ op.at \in {"other", "dead"}
    /\ Clear(op.login, op.gen) /\ Step("claim")
    /\ UNCHANGED <<doc, live, rows, gen, queue, releasing, met, ends>>

\* readAgent.
Read ==
    /\ Settled /\ op.at = "read"
    /\ op' = [op EXCEPT !.at = "check",
                        !.same = Here /\ owner = doc.hold.login /\ gen = doc.hold.gen]
    /\ UNCHANGED <<doc, live, storage, queue, releasing, met, ends>>

\* The account's own hold is taken back when its ownership still stands.
Check ==
    /\ Settled /\ op.at = "check"
    /\ IF op.inv THEN Refuse(doc, op.link)
       ELSE IF Here /\ doc.hold.login \in live /\ op.same
       THEN Finish /\ doc' = Bound(doc, op.link)
       ELSE /\ doc' = (IF Here THEN Drop(doc) ELSE doc)
            /\ IF Here /\ doc.hold.login \notin live
               THEN op' = [op EXCEPT !.at = "dead", !.login = doc.hold.login, !.gen = doc.hold.gen]
               ELSE Step("claim")
            /\ UNCHANGED queue
    /\ UNCHANGED <<live, storage, releasing, met, ends>>

\* #claim: an owner that no attachment holds is stale, and gives way.
Claim ==
    /\ Settled /\ op.at = "claim"
    /\ IF op.inv \/ LoginOf[op.link] \notin rows
       THEN Refuse(doc, op.link) /\ UNCHANGED <<owner, gen>>
       ELSE LET l == LoginOf[op.link]
                g == IF owner = l THEN gen ELSE gen + 1 IN
            /\ owner' = l /\ gen' = g
            /\ op' = [op EXCEPT !.at = "live", !.login = l, !.gen = g]
            /\ UNCHANGED <<doc, queue>>
    /\ UNCHANGED <<live, rows, releasing, met, ends>>

\* Mutation: what ended during the claim is not looked at.
HoldStale ==
    /\ Settled /\ op.at = "live"
    /\ Finish
    /\ doc' = Bound([doc EXCEPT !.hold = [NoHold EXCEPT !.id = op.link, !.login = op.login, !.gen = op.gen]],
                    op.link)
    /\ UNCHANGED <<live, storage, releasing, met, ends>>

\* A new hold, if nothing released its ownership in the meantime.
Hold ==
    /\ Settled /\ op.at = "live"
    /\ IF op.inv \/ op.login \notin live
       THEN Step("undo") /\ UNCHANGED <<doc, queue>>
       ELSE /\ Finish
            /\ doc' = Bound([doc EXCEPT !.hold = [NoHold EXCEPT !.id = op.link, !.login = op.login,
                                                                !.gen = op.gen]], op.link)
    /\ UNCHANGED <<live, storage, releasing, met, ends>>

Undo ==
    /\ Settled /\ op.at = "undo"
    /\ Clear(op.login, op.gen) /\ Refuse(doc, op.link)
    /\ UNCHANGED <<live, rows, gen, releasing, met, ends>>

\* The grant reaches the link.
Land(k) ==
    /\ ~Ready /\ doc.links[k] = "landing"
    /\ doc' = Put(doc, k, "bound")
    /\ UNCHANGED <<live, storage, queue, op, releasing, met, ends>>

-----------------------------------------------------------------------------
(* An attached link, and what it leaves.                                   *)

\* The client's first message: a resume takes what the earlier link kept, any other ends it.
FirstMessage(k) ==
    /\ Settled /\ doc.links[k] = "bound" /\ doc.hold.link = k /\ doc.hold.parked # NoLink
    /\ doc' = [Put(doc, doc.hold.parked, "closed") EXCEPT !.hold.parked = NoLink]
    /\ UNCHANGED <<live, storage, queue, op, releasing, met, ends>>

\* Its socket closes, unexpectedly or by choice.
Close(k) ==
    /\ Settled /\ doc.links[k] \in {"located", "met", "bound"}
    /\ IF doc.links[k] = "bound"
       THEN \E kept \in BOOLEAN : doc' = Detached(doc, k, kept)
       ELSE doc' = Put(doc, k, "closed")
    /\ UNCHANGED <<live, storage, queue, op, releasing, met, ends>>

\* Mutation: a hold whose kept work lapsed has no grace period.
LapseQuiet(k) ==
    /\ Settled /\ doc.links[k] = "suspended"
    /\ doc' = IF doc.hold.parked # k THEN Put(doc, k, "closed")
              ELSE [Put(doc, k, "closed") EXCEPT !.hold.parked = NoLink]
    /\ UNCHANGED <<live, storage, queue, op, releasing, met, ends>>

\* #lapsed: the last session a dropped link kept was let go.
Lapse(k) ==
    /\ Settled /\ doc.links[k] = "suspended"
    /\ doc' = IF doc.hold.parked # k THEN Put(doc, k, "closed")
              ELSE LET e == [Put(doc, k, "closed") EXCEPT !.hold.parked = NoLink] IN
                   IF e.hold.link # NoLink THEN e ELSE StartGrace(e)
    /\ UNCHANGED <<live, storage, queue, op, releasing, met, ends>>

\* The grace period runs out.
GraceEnds ==
    /\ Settled /\ doc.hold.timer = "on"
    /\ doc' = [doc EXCEPT !.hold.timer = "fired"]
    /\ queue' = Append(queue, [do |-> "expire", of |-> doc.hold.id])
    /\ UNCHANGED <<live, storage, op, releasing, met, ends>>

\* revalidate and verify: the login, the owner and the document are looked at again.
Recheck(k) ==
    /\ Settled /\ doc.links[k] = "bound" /\ doc.hold.link = k
    /\ \/ /\ doc.hold.login \notin live
          /\ doc' = Invalidate(doc) /\ releasing' = releasing \cup {<<doc.hold.login, doc.hold.gen>>}
       \/ /\ doc.hold.login \in live /\ ~(owner = doc.hold.login /\ gen = doc.hold.gen)
          /\ doc' = Invalidate(doc) /\ UNCHANGED releasing
       \/ /\ archived /\ doc' = Detached(doc, k, FALSE) /\ UNCHANGED releasing
    /\ UNCHANGED <<live, storage, queue, op, met, ends>>

-----------------------------------------------------------------------------
(* What ends a hold.                                                       *)

\* #expire, documentEnded and stopMachine, each followed by its release.
Ends(job) ==
    \/ /\ job.do = "expire" /\ doc.hold.id = job.of /\ doc.hold.link = NoLink
    \/ /\ job.do = "end" /\ doc.hold # NoHold
    \/ /\ job.do = "stop" /\ doc.hold.login = job.of /\ {doc.hold.link, doc.hold.parked} # {NoLink}

StartEnding ==
    /\ Ready /\ Head(queue).do \in {"expire", "end", "stop"}
    /\ IF Ends(Head(queue))
       THEN /\ doc' = Invalidate(doc)
            /\ op' = [NoOp EXCEPT !.at = "release", !.login = doc.hold.login, !.gen = doc.hold.gen]
            /\ UNCHANGED queue
       ELSE Finish /\ UNCHANGED doc
    /\ UNCHANGED <<live, storage, releasing, met, ends>>

EndingReleased ==
    /\ Settled /\ op.at = "release"
    /\ Clear(op.login, op.gen) /\ Finish
    /\ UNCHANGED <<doc, live, rows, gen, releasing, met, ends>>

\* sessionRevoked, as the login is blocked: its attach under way is refused, its hold ends.
Revoke(l) ==
    /\ Settled /\ l \in live
    /\ live' = live \ {l}
    /\ op' = [op EXCEPT !.inv = @ \/ l \in op.ids]
    /\ IF doc.hold.login = l
       THEN doc' = Invalidate(doc) /\ releasing' = releasing \cup {<<l, doc.hold.gen>>}
       ELSE UNCHANGED <<doc, releasing>>
    /\ UNCHANGED <<storage, queue, met, ends>>

\* Its row is deleted together with what it owns.
Delete(l) ==
    /\ Settled /\ l \in rows \ live
    /\ rows' = rows \ {l} /\ owner' = IF owner = l THEN NoLogin ELSE owner
    /\ UNCHANGED <<doc, live, gen, queue, op, releasing, met, ends>>

Release ==
    /\ Settled
    /\ \E x \in releasing : Clear(x[1], x[2]) /\ releasing' = releasing \ {x}
    /\ UNCHANGED <<doc, live, rows, gen, queue, op, met, ends>>

\* The reset route clears the owner it read, if it still is, then has the attachment end.
ResetClear ==
    /\ Settled /\ ~resetting /\ Spend("resets")
    /\ resetting' = TRUE /\ owner' \in {owner, NoLogin}
    /\ UNCHANGED <<doc, live, rows, gen, queue, op, releasing, met, endings, archived, unheard>>

\* The clear commits and its reply is lost: the route answers with a failure, and the
\* attachment is not told.
ResetLost ==
    /\ Settled /\ owner # NoLogin /\ Spend("resets")
    /\ owner' = NoLogin /\ unheard' = unheard \cup {gen}
    /\ UNCHANGED <<doc, live, rows, gen, queue, op, releasing, met, endings, archived, resetting>>

\* Mutation: a reset does not reach an attach that is under way.
ResetDoneLate ==
    /\ Settled /\ resetting /\ resetting' = FALSE
    /\ UNCHANGED op
    /\ doc' = IF doc.hold = NoHold THEN doc ELSE Invalidate(doc)
    /\ UNCHANGED <<live, storage, queue, releasing, met, endings, archived, unheard, load>>

\* ownerReset.
ResetDone ==
    /\ Settled /\ resetting /\ resetting' = FALSE
    /\ op' = [op EXCEPT !.inv = @ \/ op.link # NoLink]
    /\ doc' = IF doc.hold = NoHold THEN doc ELSE Invalidate(doc)
    /\ UNCHANGED <<live, storage, queue, releasing, met, endings, archived, unheard, load>>

\* The document is archived, and documentEnded called.
Archive ==
    /\ Settled /\ ~archived /\ Spend("archives")
    /\ archived' = TRUE /\ endings' = endings + 1
    /\ queue' = Append(queue, [do |-> "end", of |-> NoLink])
    /\ UNCHANGED <<doc, live, storage, op, releasing, met, resetting, unheard>>

\* Another machine is chosen for the document.
StopMachine(l) ==
    /\ Settled /\ l \in Machines /\ doc.hold.login = l
    /\ \A i \in 1 .. Len(queue) : queue[i].do # "stop"
    /\ queue' = Append(queue, [do |-> "stop", of |-> l])
    /\ UNCHANGED <<doc, live, storage, op, releasing, met, ends>>

-----------------------------------------------------------------------------
AttachStep ==
    \/ \E k \in Links : StartAttach(k) \/ StartTakeover(k) \/ Land(k)
    \/ Login \/ Access \/ Released \/ Read \/ Check \/ Claim \/ Hold \/ Undo
    \/ StartEnding \/ EndingReleased

Next ==
    \/ AttachStep
    \/ \E k \in Links : Locate(k) \/ Ask(k) \/ Confirm(k) \/ FirstMessage(k) \/ Close(k)
                        \/ Lapse(k) \/ Recheck(k)
    \/ \E l \in Logins : Revoke(l) \/ Delete(l) \/ StopMachine(l)
    \/ GraceEnds \/ Release \/ ResetClear \/ ResetLost \/ ResetDone \/ Archive

Spec == Init /\ [][Next]_vars

\* Storage and GitHub answer, attached links are rechecked, and a timer fires however often
\* something else has its turn first.
Fairness ==
    /\ WF_vars(AttachStep) /\ SF_vars(GraceEnds) /\ WF_vars(Release) /\ WF_vars(ResetDone)
    /\ \A k \in Links : WF_vars(Recheck(k))

LiveSpec == Spec /\ Fairness

-----------------------------------------------------------------------------
(* Properties.                                                             *)

\* One Planner per document, and no link that thinks it is one beside it: a link that is
\* attached is the hold's link, through every supersession, refusal and ended login.
BoundHolds == \A k \in Links : doc.links[k] = "bound" => doc.hold.link = k

\* The work of a link that dropped is parked with the hold it rests on, where the next link
\* finds it or the end of the hold ends it: no suspended link is left behind.
SuspendedIsParked == \A k \in Links : doc.links[k] = "suspended" => doc.hold.parked = k

\* A login that ended holds no document, an attach that was under way when it ended
\* included (pending.invalidated).
EndedLoginHoldsNothing == doc.hold = NoHold \/ doc.hold.login \in live

\* Generation g was the last claimed, and the login l that claimed it owns the document, or
\* a reset nobody here heard of cleared it.
Stands(l, g) == gen = g /\ (owner = l \/ (owner = NoLogin /\ g \in unheard))

\* A hold has its ownership in storage, except while a reset that cleared it is on its way to
\* the hold, or when the reset's caller took the clear for failed and nobody tells the hold:
\* until it is rechecked nobody owns the document then, and nobody but the hold's account can
\* attach (the generation guards every clear).
HoldOwns == doc.hold # NoHold /\ ~resetting => Stands(doc.hold.login, doc.hold.gen)

\* Kept work has no deadline: a grace period that runs out while an attach is under way
\* does not end what a link dropped since has kept.
KeptHasNoDeadline ==
    Ready /\ Head(queue).do = "expire" /\ Ends(Head(queue)) => doc.hold.parked = NoLink

\* The hold and its links agree both ways, a grace period runs only while nothing is
\* attached and nothing is kept, and the hold is named for a link that had its answer.
HoldLinks(d) ==
    /\ \A k \in Links : d.links[k] \in {"landing", "bound"} => d.hold.link = k
    /\ \A k \in Links : d.links[k] = "suspended" => d.hold.parked = k
    /\ d.hold.link # NoLink => d.links[d.hold.link] \in {"landing", "bound"}
    /\ d.hold.parked # NoLink => d.links[d.hold.parked] = "suspended"
    /\ d.hold.timer # "off" => d.hold.link = NoLink /\ d.hold.parked = NoLink
    /\ d.hold # NoHold => d.links[d.hold.id] \in Answered

\* What waits its turn: a link asks once, and a grace period or a choice of machine names
\* what it was about.
QueueInv ==
    /\ \A i \in 1 .. Len(queue) :
         /\ queue[i].do = "attach" => queue[i].of \in Links /\ doc.links[queue[i].of] = "asking"
         /\ queue[i].do = "takeover" => queue[i].of \in Links /\ doc.links[queue[i].of] = "taking"
         /\ queue[i].do = "expire" => queue[i].of \in Links /\ doc.links[queue[i].of] \in Answered
         /\ queue[i].do = "stop" => queue[i].of \in Logins
    /\ \A i, j \in 1 .. Len(queue) :
         queue[i] = queue[j] /\ queue[i].do \in {"attach", "takeover"} => i = j

\* The one under way is the head of the queue, and until it binds a link nothing else does:
\* the hold it looked at has no link, or is gone.
OpInv ==
    /\ op.at = "none" => op = NoOp
    /\ op.at # "none" => queue # <<>>
    /\ op.at \in Attaching => /\ op.link \in Links /\ queue[1].of = op.link
                              /\ queue[1].do \in {"attach", "takeover"}
    /\ op.at = "release" => op.link = NoLink /\ queue[1].do \in {"expire", "end", "stop"}
    /\ op.at \in {"login", "access", "read", "check"} =>
         doc.hold = NoHold \/ (doc.hold.id = op.held /\ doc.hold.link = NoLink)
    /\ op.at \in {"other", "dead", "claim", "live", "undo", "release"} => doc.hold = NoHold
    /\ op.at = "live" => op.login \in Logins

\* A link that met an attached one comes after it.
MetInv ==
    \A k \in Links :
       /\ doc.links[k] \in {"met", "taking"} =>
            met[k].link \in Links /\ doc.links[met[k].link] \in Answered
       /\ doc.links[k] = "taking" => doc.links[met[k].link] # "landing"

\* A grace period that ran out is still that of its hold, unless a link was bound while it
\* waited its turn: then its turn comes before anything can happen to that link.
ExpireInv ==
    \A i \in 1 .. Len(queue) :
       queue[i].do = "expire" /\ queue[i].of = doc.hold.id =>
          \/ doc.hold.timer = "fired"
          \/ op = NoOp /\ doc.hold.link # NoLink /\ doc.links[doc.hold.link] = "landing"

\* What is released belongs to logins that ended, and a claim that nothing invalidated since
\* is in storage, unless a reset cleared it and has yet to say so, or never will.
ClaimInv ==
    /\ \A x \in releasing : x[1] \notin live
    /\ op.at = "live" /\ ~op.inv /\ op.login \in live /\ ~resetting => Stands(op.login, op.gen)

\* One link is the Planner, what a dropped one kept is where the next one finds it, and it
\* is not ended by a deadline set before it was kept.
HoldsInv ==
    /\ TypeOK /\ BoundHolds /\ SuspendedIsParked /\ KeptHasNoDeadline
    /\ HoldLinks(doc) /\ QueueInv /\ OpInv /\ MetInv /\ ExpireInv /\ ClaimInv

\* A hold is backed by a login that is live and by its ownership in storage; a reset that
\* is answered leaves no hold of the owner it cleared, one whose reply was lost may.
HoldIsBacked == EndedLoginHoldsNothing /\ HoldOwns

\* A link that asks is answered, whatever ends while it waits, and a document that nothing
\* is attached to and nothing is kept for is free after the grace period, unless its
\* account is back. A link stays attached without the ownership only until its recheck.
HoldsSettle ==
    /\ \A k \in Links : []<>(doc.links[k] \notin {"asking", "taking"})
    /\ []<>(doc.hold = NoHold \/ doc.hold.link # NoLink \/ doc.hold.parked # NoLink)
    /\ []<>(doc.hold.link = NoLink \/ (owner = doc.hold.login /\ gen = doc.hold.gen))
=============================================================================
