---------------------------- MODULE PlannerLink ----------------------------
(***************************************************************************)
(* One Planner session whose turns run on a client's machine, and the      *)
(* links that carry it one after another: the server's end of a link       *)
(* (harness/remote/link.ts), the client's (packages/agent-link), and what  *)
(* a drop keeps for the next link: the Stops the client has not answered   *)
(* and the answers to its questions that it has not acknowledged.          *)
(*                                                                         *)
(* A network failure loses what is on its way in both directions; each end *)
(* notices it in its own time, so the client may be back on a new link     *)
(* while the server still counts the old one as attached.                  *)
(***************************************************************************)
EXTENDS Naturals, Sequences, FiniteSets, SequencesExt

CONSTANTS
    Runs,        \* workflow runs the client reports
    Asks,        \* questions the client may ask
    All,         \* a Stop or Resume that names no run
    Loads        \* bounds, one record per workload: the runs it starts with and those that
                 \* may end, the questions, the client's links (the first included), the Stops
                 \* and Resumes pressed, those whose wait runs out (timeouts), and whether the
                 \* document's ownership may be ended

ASSUME LinkAssumption ==
    /\ All \notin Runs /\ IsFiniteSet(Runs) /\ IsFiniteSet(Asks)
    /\ Loads \subseteq [runs: SUBSET Runs, finishing: SUBSET Runs, asks: SUBSET Asks, links: Nat \ {0},
                        presses: Nat, timeouts: Nat, endings: BOOLEAN]

VARIABLES
    srv,         \* the session and the link that carries it, at the server
    runs,        \* the runs as last reported to the server
    busy,        \* a turn is under way
    cl, up,      \* the client's latest link, and whether its network works
    toC, toS,    \* what is on its way on that link
    cst, has,    \* the client: "on", "resuming", "off" or "gone"; whether it holds the session
    crun,        \* the runs at the client
    doing,       \* Stops and Resumes the client has applied and not yet answered
    ask,         \* each question, to the caller that asked it at the client
    withdrawn,   \* questions whose caller withdrew them
    answered,    \* questions a member has answered
    stopped,     \* whether a person, or the end of the ownership, ended the session
    aim, told,   \* for each Stop and Resume pressed: its runs, what the person was told
    heardTo,     \* for each run, the latest press a Stop the client heard stands for
    resumedTo,   \* for each run, the presses made before a Resume of it was answered
    resumedBy,   \* for each run, the latest Resume of it that was answered
    load         \* the bounds of this behaviour; its timeouts are counted down

net     == <<cl, up, toC, toS>>
client  == <<cst, has, crun, doing, ask, withdrawn>>
ghosts  == <<stopped, aim, told, heardTo, resumedTo, resumedBy, load>>
vars    == <<srv, runs, busy, net, client, answered, ghosts>>

Targets == Runs \cup {All}
Presses == 1 .. load.presses
n       == Len(told)
Live    == {"running", "paused"}
\* A control request: unique on its link.
Requests == [act: {"stop", "resume"}, run: Targets, at: Nat]
OwedStops == [run: Targets, at: Nat, split: BOOLEAN]
Outcomes  == {"none", "waiting", "done", "refused", "held", "unconfirmed", "failed"}
RunStates == [Runs -> Live \cup {"ended"}]
Inputs    == {"none", "open", "answered", "aborted", "unacked", "outbox", "done"}
Sessions ==
    [home: Nat \ {0}, link: {"attached", "suspended", "closed"}, open: BOOLEAN,
     owed: SUBSET OwedStops, held: SUBSET Targets, waits: SUBSET Requests, late: SUBSET Requests,
     input: [Asks -> Inputs]]
ToClient ==
    [t: {"control"}, w: Requests] \cup [t: {"result"}, q: Asks, st: {"answered", "cancelled"}]
    \cup [t: {"resumed"}, has: BOOLEAN, asks: SUBSET Asks] \cup [t: {"destroy", "refused"}]
ToServer ==
    [t: {"resume"}, has: BOOLEAN, named: SUBSET Asks] \cup [t: {"answer"}, w: Requests, ok: BOOLEAN]
    \cup [t: {"ask", "cancel", "ack"}, q: Asks] \cup [t: {"runs"}, st: RunStates]

TypeOK ==
    /\ srv \in Sessions /\ runs \in RunStates /\ busy \in BOOLEAN
    /\ cl \in 1 .. load.links /\ up \in BOOLEAN /\ toC \in Seq(ToClient) /\ toS \in Seq(ToServer)
    /\ cst \in {"on", "resuming", "off", "gone"} /\ has \in BOOLEAN /\ crun \in RunStates
    /\ doing \subseteq [w: Requests, ok: BOOLEAN]
    /\ ask \in [Asks -> {"none", "pending", "answered", "cancelled"}]
    /\ withdrawn \subseteq Asks /\ answered \subseteq Asks /\ stopped \in BOOLEAN
    /\ aim \in Seq(SUBSET Runs) /\ Len(aim) = n /\ n <= load.presses
    /\ told \in Seq(Outcomes)
    /\ heardTo \in [Runs -> Nat] /\ resumedTo \in [Runs -> Nat] /\ resumedBy \in [Runs -> Nat]
    /\ load \in [runs: SUBSET Runs, finishing: SUBSET Runs, asks: SUBSET Asks, links: Nat \ {0},
                  presses: Nat, timeouts: Nat, endings: BOOLEAN]

\* The session started on its first link and its runs are reported, in the middle of a turn.
Init ==
    /\ load \in Loads
    /\ srv = [home |-> 1, link |-> "attached", open |-> TRUE, owed |-> {}, held |-> {},
              waits |-> {}, late |-> {}, input |-> [q \in Asks |-> "none"]]
    /\ runs = [r \in Runs |-> IF r \in load.runs THEN "running" ELSE "ended"] /\ crun = runs
    /\ busy = TRUE
    /\ cl = 1 /\ up = TRUE /\ toC = <<>> /\ toS = <<>>
    /\ cst = "on" /\ has = TRUE /\ doing = {}
    /\ ask = [q \in Asks |-> "none"] /\ withdrawn = {} /\ answered = {} /\ stopped = FALSE
    /\ aim = <<>> /\ told = <<>>
    /\ heardTo = [r \in Runs |-> 0] /\ resumedTo = heardTo /\ resumedBy = heardTo

-----------------------------------------------------------------------------
(* Stops that are owed to the client.                                      *)

Covers(t, r) == t \in {All, r}

\* #hold: a Stop of every run covers each one.
Hold(held, ts) == IF All \in held \cup ts THEN {All} ELSE held \cup ts

\* #answered: the Stop and those split from it are not owed any more.
Answered(owed, w) ==
    {o \in owed : ~(/\ o.at = w.at
                    /\ \/ o.run = w.run /\ ~o.split
                       \/ w.run = All /\ o.split)}

\* Mutation: a Stop of every run is dropped whole by the Resume of one.
UndoStopsWhole(owed, t) == {o \in owed : t # All /\ o.run \notin {All, t}}

\* Mutation: a Stop of every run is kept as one Stop that names all the others.
UndoStopsTogether(owed, t) ==
    {o \in owed : t # All /\ o.run \notin {All, t}}
    \cup {[run |-> Runs \ {t}, at |-> o.at, split |-> TRUE] : o \in {x \in owed : x.run = All}}

\* Mutation: a Resume does not undo the Stops that are owed.
UndoStopsNever(owed, t) == owed

\* The Stops of single runs that a Stop of every run leaves when t is resumed.
Split(o, t) ==
    {[run |-> r, at |-> o.at, split |-> TRUE] : r \in {x \in Runs \ {t} : runs[x] \in Live}}

\* #undoStops: an answered Resume undoes the Stops the client has not answered, for the
\* runs it covers; a Stop of every run is kept as one of each other live run.
UndoStops(owed, t) ==
    {o \in owed : t # All /\ o.run \notin {All, t}}
    \cup (IF t = All THEN {} ELSE UNION {Split(o, t) : o \in {x \in owed : x.run = All}})

-----------------------------------------------------------------------------
(* The link at the server.                                                 *)

Carried(s) == up /\ s.home = cl /\ s.link = "attached"
Deliver(s, msgs) == toC' = IF Carried(s) THEN toC \o msgs ELSE toC

Working == \E r \in Runs : runs[r] \in Live
InInputs(s) == {q \in Asks : s.input[q] \in {"open", "answered", "aborted"}}
Unacked(s)  == {q \in Asks : s.input[q] = "unacked"}

\* Questions that are open are withdrawn, and answers that are owed can never arrive.
Ended(i) ==
    CASE i \in {"open", "answered"}  -> "aborted"
      [] i \in {"unacked", "outbox"} -> "done"
      [] OTHER                       -> i

\* linkClosed and #teardown: open questions are withdrawn, answers owed can never arrive.
Closed(s) ==
    [s EXCEPT !.link = "closed", !.open = FALSE, !.owed = {}, !.held = {}, !.waits = {}, !.late = {},
              !.input = [q \in Asks |-> Ended(s.input[q])]]

\* #suspend: Stops not answered are held, and answers not acknowledged go to the outbox.
Suspended(s) ==
    [s EXCEPT !.link = "suspended", !.owed = {}, !.waits = {}, !.late = {},
              !.held = Hold(s.held, {o.run : o \in s.owed}),
              !.input = [q \in Asks |-> IF s.input[q] = "unacked" THEN "outbox" ELSE s.input[q]]]

\* Mutation: an answer the client has not acknowledged does not keep its session.
DroppedUnacked(s) ==
    IF s.open /\ (Working \/ InInputs(s) # {}) THEN Suspended(s) ELSE Closed(s)

\* disconnected, of a link that offered resumable-sessions and was not ended on purpose.
Dropped(s) ==
    IF s.open /\ (Working \/ InInputs(s) # {} \/ Unacked(s) # {})
    THEN Suspended(s) ELSE Closed(s)

\* What the persons waiting for an answer are told when the link drops: "held" when the
\* Stop, or a part of it, is kept.
ToldDropped(s) ==
    [p \in 1 .. n |-> IF told[p] # "waiting" THEN told[p]
                       ELSE IF Dropped(s).open /\ \E o \in s.owed : o.at = p THEN "held"
                       ELSE "failed"]

\* The server notices that the network failed.
ServerNotices ==
    /\ srv.link = "attached" /\ ~Carried(srv)
    /\ srv' = Dropped(srv) /\ told' = ToldDropped(srv) /\ busy' = FALSE
    /\ UNCHANGED <<runs, net, client, answered, stopped, aim, heardTo, resumedTo, resumedBy, load>>

\* revoke and terminate: the document's ownership was reset or ended.
End ==
    /\ load.endings /\ srv.link # "closed" /\ ~stopped
    /\ stopped' = TRUE /\ busy' = FALSE
    /\ srv' = Closed(srv)
    /\ told' = [p \in 1 .. n |-> IF told[p] = "waiting" THEN "failed" ELSE told[p]]
    /\ Deliver(srv, <<[t |-> "refused"]>>)
    /\ UNCHANGED <<runs, cl, up, toS, client, answered, aim, heardTo, resumedTo, resumedBy, load>>

\* close and forget; a suspended link with no session left lapses.
Forgotten(s) ==
    [s EXCEPT !.open = FALSE, !.owed = {}, !.held = {}, !.waits = {}, !.late = {},
              !.link = IF s.link = "suspended" THEN "closed" ELSE s.link,
              !.input = [q \in Asks |-> Ended(s.input[q])]]

LetGo(byPerson) ==
    /\ srv' = Forgotten(srv)
    /\ stopped' = (stopped \/ byPerson)
    /\ told' = [p \in 1 .. n |-> IF told[p] = "waiting" THEN "failed" ELSE told[p]]
    /\ Deliver(srv, <<[t |-> "destroy"]>>)
    /\ UNCHANGED <<runs, busy, cl, up, toS, client, answered, aim, heardTo, resumedTo, resumedBy, load>>

\* Mutation: the session is let go once its questions are answered.
ReleaseEarly ==
    /\ srv.open /\ ~busy /\ ~Working
    /\ \A q \in Asks : srv.input[q] \in {"none", "unacked", "outbox", "done"}
    /\ LetGo(FALSE)

\* releaseWhenIdle: no run live, no question open, every answer at its client.
Release ==
    /\ srv.open /\ ~busy /\ ~Working
    /\ \A q \in Asks : srv.input[q] \in {"none", "done"}
    /\ LetGo(FALSE)

\* abort, of a Planner that only waits on a question it asked.
StopQuestion ==
    /\ srv.open /\ ~busy /\ ~Working
    /\ \E q \in Asks : srv.input[q] \in {"open", "answered"}
    /\ LetGo(TRUE)

TurnEnds ==
    /\ busy /\ busy' = FALSE
    /\ UNCHANGED <<srv, runs, net, client, answered, ghosts>>

-----------------------------------------------------------------------------
(* Stop and Resume.                                                        *)

Waiting(act, t) == \E w \in srv.waits : w.act = act /\ w.run = t

\* abort, controlRun: of every run while one is active, or of one active run.
MayStop(t) ==
    IF t = All THEN (\E r \in Runs : runs[r] = "running") /\ ~Waiting("stop", All)
    ELSE runs[t] = "running"
MayResume(t) ==
    IF t = All THEN \E r \in Runs : runs[r] = "paused" ELSE runs[t] = "paused"

\* A press, and the runs it is about.
Press(t) ==
    /\ srv.open /\ n < load.presses
    /\ aim' = Append(aim, {r \in Runs : Covers(t, r) /\ runs[r] \in Live})

\* #command of a Stop: held while the link is down, sent and owed until it is answered.
Stop(t) ==
    /\ Press(t) /\ MayStop(t)
    /\ IF srv.link = "suspended"
       THEN /\ srv' = [srv EXCEPT !.held = Hold(srv.held, {t})]
            /\ told' = Append(told, "held")
            /\ UNCHANGED toC
       ELSE /\ srv' = [srv EXCEPT !.owed = @ \cup {[run |-> t, at |-> n + 1, split |-> FALSE]},
                                  !.waits = @ \cup {[act |-> "stop", run |-> t, at |-> n + 1]}]
            /\ told' = Append(told, "waiting")
            /\ Deliver(srv, <<[t |-> "control", w |-> [act |-> "stop", run |-> t, at |-> n + 1]]>>)
    /\ UNCHANGED <<runs, busy, cl, up, toS, client, answered, stopped, heardTo, resumedTo, resumedBy, load>>

\* #command of a Resume: refused while the link is down.
Resume(t) ==
    /\ Press(t) /\ MayResume(t) /\ srv.link = "attached"
    /\ told' = Append(told, "none")
    /\ srv' = [srv EXCEPT !.waits = @ \cup {[act |-> "resume", run |-> t, at |-> n + 1]}]
    /\ Deliver(srv, <<[t |-> "control", w |-> [act |-> "resume", run |-> t, at |-> n + 1]]>>)
    /\ UNCHANGED <<runs, busy, cl, up, toS, client, answered, stopped, heardTo, resumedTo, resumedBy, load>>

\* Mutation: a Stop the client did not answer in time is not owed any more.
TimeOutForgets(w) ==
    /\ w \in srv.waits /\ load.timeouts > 0 /\ load' = [load EXCEPT !.timeouts = @ - 1]
    /\ srv' = [srv EXCEPT !.waits = @ \ {w}, !.late = @ \cup {w}, !.owed = Answered(@, w)]
    /\ told' = [p \in 1 .. n |-> IF w.act = "stop" /\ p = w.at /\ told[p] = "waiting"
                                  THEN "unconfirmed" ELSE told[p]]
    /\ UNCHANGED <<runs, busy, net, client, answered, stopped, aim, heardTo, resumedTo, resumedBy>>

\* #control: the wait runs out. The Stop stays owed.
TimeOut(w) ==
    /\ w \in srv.waits /\ load.timeouts > 0 /\ load' = [load EXCEPT !.timeouts = @ - 1]
    /\ srv' = [srv EXCEPT !.waits = @ \ {w}, !.late = @ \cup {w}]
    /\ told' = [p \in 1 .. n |-> IF w.act = "stop" /\ p = w.at /\ told[p] = "waiting"
                                  THEN "unconfirmed" ELSE told[p]]
    /\ UNCHANGED <<runs, busy, net, client, answered, stopped, aim, heardTo, resumedTo, resumedBy>>

\* control-result, in time or late.
HearControl(m) ==
    LET w == m.w
        inTime == w \in srv.waits
        resumed == inTime /\ w.act = "resume" /\ m.ok IN
    /\ srv' = [srv EXCEPT !.waits = @ \ {w}, !.late = @ \ {w},
                          !.owed = IF resumed THEN UndoStops(srv.owed, w.run)
                                   ELSE IF w.act = "stop" /\ w \in srv.waits \cup srv.late
                                   THEN Answered(srv.owed, w) ELSE srv.owed]
    /\ told' = [p \in 1 .. n |-> IF inTime /\ w.act = "stop" /\ p = w.at /\ told[p] = "waiting"
                                  THEN (IF m.ok THEN "done" ELSE "refused") ELSE told[p]]
    /\ resumedTo' = [r \in Runs |-> IF resumed /\ Covers(w.run, r) THEN n ELSE resumedTo[r]]
    /\ resumedBy' = [r \in Runs |-> IF resumed /\ Covers(w.run, r) /\ w.at > resumedBy[r]
                                    THEN w.at ELSE resumedBy[r]]
    /\ UNCHANGED <<runs, busy, answered, stopped, aim, heardTo, load, toC>>

-----------------------------------------------------------------------------
(* Questions, and the messages the server hears.                           *)

\* Where the server is with a question.
Turned(s, q, i) == [s EXCEPT !.input = [s.input EXCEPT ![q] = i]]

\* Mutation: a question of a session that has ended gets no reply.
HearAskSilent(m) ==
    /\ srv' = IF srv.open THEN Turned(srv, m.q, "open") ELSE srv
    /\ UNCHANGED <<runs, busy, answered, ghosts, toC>>

\* #input. The question of a session that has ended gets a result without an answer:
\* "cancelled" stands for the code's "cancelled" and "failed" alike.
HearAsk(m) ==
    /\ srv' = IF srv.open THEN Turned(srv, m.q, "open") ELSE srv
    /\ Deliver(srv, IF srv.open THEN <<>>
                    ELSE <<[t |-> "result", q |-> m.q, st |-> "cancelled"]>>)
    /\ UNCHANGED <<runs, busy, answered, ghosts>>

\* A member answers the Decision.
MemberAnswers(q) ==
    /\ srv.input[q] = "open"
    /\ srv' = Turned(srv, q, "answered") /\ answered' = answered \cup {q}
    /\ UNCHANGED <<runs, busy, net, client, ghosts>>

\* #answer: sent and kept until it is acknowledged, or kept for the next link.
Reply(q) ==
    /\ srv.input[q] \in {"answered", "aborted"}
    /\ srv' = Turned(srv, q, CASE srv.link = "attached"  -> "unacked"
                                [] srv.link = "suspended" -> "outbox"
                                [] srv.link = "closed"    -> "done")
    /\ Deliver(srv, <<[t |-> "result", q |-> q,
                       st |-> IF srv.input[q] = "answered" THEN "answered" ELSE "cancelled"]>>)
    /\ UNCHANGED <<runs, busy, cl, up, toS, client, answered, ghosts>>

\* input-cancel.
HearCancel(m) ==
    /\ srv' = IF srv.input[m.q] \in {"open", "answered"} THEN Turned(srv, m.q, "aborted") ELSE srv
    /\ UNCHANGED <<runs, busy, answered, ghosts, toC>>

\* input-received.
HearAck(m) ==
    /\ srv' = IF srv.input[m.q] = "unacked" THEN Turned(srv, m.q, "done") ELSE srv
    /\ UNCHANGED <<runs, busy, answered, ghosts, toC>>

\* reportRuns.
HearRuns(m) ==
    /\ runs' = IF srv.open THEN m.st ELSE runs
    /\ UNCHANGED <<srv, busy, answered, ghosts, toC>>

\* #hand and deliverHeldStops: the session moves to the new link; questions the client
\* does not name are withdrawn, Stops held are sent and owed again, and so are answers.
Handed(s, named) ==
    [s EXCEPT !.home = cl, !.link = "attached",
              !.owed = {[run |-> r, at |-> n, split |-> FALSE] : r \in s.held},
              !.waits = {[act |-> "stop", run |-> r, at |-> n] : r \in s.held}, !.held = {},
              !.input = [q \in Asks |->
                  CASE s.input[q] = "outbox" -> IF q \in named THEN "unacked" ELSE "done"
                    [] q \notin named /\ s.input[q] \in {"open", "answered"} -> "aborted"
                    [] OTHER -> s.input[q]]]

\* The answers that were kept and the client still waits on.
Again(s, named) == {q \in named : s.input[q] = "outbox"}

\* Mutation: the answers kept are not sent to the new link.
SentAgainNone(s, named) == <<>>

\* What the client hears first: the Stops held, then the answers.
SentAgain(s, named) ==
    SetToSeq({[t |-> "control", w |-> [act |-> "stop", run |-> r, at |-> n]] : r \in s.held})
    \o SetToSeq({[t |-> "result", q |-> q,
                  st |-> IF q \in answered THEN "answered" ELSE "cancelled"] : q \in Again(s, named)})

\* #resume, and #takeover where the server still counts the earlier link as attached.
HearResume(m) ==
    LET s == IF srv.link = "attached" THEN Dropped(srv) ELSE srv IN
    /\ told' = IF srv.link = "attached" THEN ToldDropped(srv) ELSE told
    /\ busy' = FALSE
    /\ IF srv.link = "attached" /\ ~(srv.open /\ m.has)
       THEN /\ toC' = toC \o <<[t |-> "refused"]>>
            /\ UNCHANGED srv
       ELSE IF s.link = "suspended" /\ m.has
       THEN /\ srv' = Handed(s, m.named)
            /\ toC' = toC
                  \o <<[t |-> "resumed", has |-> TRUE,
                        asks |-> m.named \cap (InInputs(s) \cup Again(s, m.named))]>>
                  \o SentAgain(s, m.named)
       ELSE /\ srv' = [Closed(s) EXCEPT !.home = cl, !.link = "attached"]
            /\ toC' = toC \o <<[t |-> "resumed", has |-> FALSE, asks |-> {}]>>
    /\ UNCHANGED <<runs, answered, stopped, aim, heardTo, resumedTo, resumedBy, load>>

\* The server hears the next message of the client's link.
ServerHears ==
    /\ toS # <<>> /\ toS' = Tail(toS)
    /\ LET m == Head(toS) IN
       \/ m.t = "resume" /\ HearResume(m)
       \/ /\ srv.link = "attached" /\ srv.home = cl
          /\ \/ m.t = "answer" /\ HearControl(m)
             \/ m.t = "ask"    /\ HearAsk(m)
             \/ m.t = "cancel" /\ HearCancel(m)
             \/ m.t = "ack"    /\ HearAck(m)
             \/ m.t = "runs"   /\ HearRuns(m)
       \* A link that was ended drops what it still receives.
       \/ /\ m.t # "resume" /\ ~(srv.link = "attached" /\ srv.home = cl)
          /\ UNCHANGED <<srv, runs, busy, answered, ghosts, toC>>
    /\ UNCHANGED <<cl, up, client>>

-----------------------------------------------------------------------------
(* The client.                                                             *)

Say(msgs) == toS' = IF up /\ cst = "on" THEN toS \o msgs ELSE toS
Report(c) == <<[t |-> "runs", st |-> c]>>

\* A Stop or Resume is applied and reported; its answer follows later (Answers).
HearPress(m) ==
    LET w == m.w
        from == IF w.act = "stop" THEN "running" ELSE "paused"
        to   == IF w.act = "stop" THEN "paused" ELSE "running"
        next == [r \in Runs |-> IF Covers(w.run, r) /\ crun[r] = from THEN to ELSE crun[r]] IN
    /\ crun' = next
    /\ doing' = doing \cup {[w |-> w, ok |-> \E r \in Runs : Covers(w.run, r) /\ crun[r] \in Live]}
    /\ heardTo' = [r \in Runs |-> IF w.act = "stop" /\ Covers(w.run, r) THEN w.at ELSE heardTo[r]]
    /\ Say(IF next # crun THEN Report(next) ELSE <<>>)
    /\ UNCHANGED <<cst, has, ask, withdrawn>>

\* control-result; the handlers of two requests may end in either order.
Answers(d) ==
    /\ d \in doing /\ doing' = doing \ {d}
    /\ Say(<<[t |-> "answer", w |-> d.w, ok |-> d.ok]>>)
    /\ UNCHANGED <<srv, runs, busy, cl, up, toC, cst, has, crun, ask, withdrawn, answered, ghosts>>

\* input-result: the caller's wait ends, and the result is acknowledged, known or not.
HearResult(m) ==
    /\ ask' = IF ask[m.q] = "pending" THEN [ask EXCEPT ![m.q] = m.st] ELSE ask
    /\ Say(<<[t |-> "ack", q |-> m.q]>>)
    /\ UNCHANGED <<cst, has, crun, doing, withdrawn, heardTo>>

\* resumed: what the server gave back goes on here, the rest has ended; the client reports
\* its runs again.
HearResumed(m) ==
    /\ cst' = "on" /\ has' = m.has
    /\ ask' = [q \in Asks |-> IF ask[q] = "pending" /\ q \notin m.asks THEN "cancelled" ELSE ask[q]]
    /\ crun' = IF m.has THEN crun ELSE [r \in Runs |-> "ended"]
    /\ toS' = toS \o SetToSeq({[t |-> "cancel", q |-> q] : q \in m.asks \cap withdrawn})
                  \o (IF m.has THEN Report(crun) ELSE <<>>)
    /\ UNCHANGED <<doing, withdrawn, heardTo>>

\* destroy.
HearDestroy ==
    /\ has' = FALSE /\ crun' = [r \in Runs |-> "ended"]
    /\ UNCHANGED <<cst, doing, ask, withdrawn, heardTo, toS>>

\* refused: nothing resumes, and every question ends.
HearRefused ==
    /\ cst' = "gone" /\ has' = FALSE /\ crun' = [r \in Runs |-> "ended"] /\ doing' = {}
    /\ ask' = [q \in Asks |-> IF ask[q] = "pending" THEN "cancelled" ELSE ask[q]]
    /\ UNCHANGED <<withdrawn, heardTo, toS>>

ClientHears ==
    /\ toC # <<>> /\ cst \in {"on", "resuming"} /\ toC' = Tail(toC)
    /\ LET m == Head(toC) IN
       \/ m.t = "control" /\ HearPress(m)
       \/ m.t = "result"  /\ HearResult(m)
       \/ m.t = "resumed" /\ HearResumed(m)
       \/ m.t = "destroy" /\ HearDestroy
       \/ m.t = "refused" /\ HearRefused
    /\ UNCHANGED <<srv, runs, busy, cl, up, answered, stopped, aim, told, resumedTo, resumedBy, load>>

\* client.ask.
ClientAsks(q) ==
    /\ cst = "on" /\ has /\ ask[q] = "none" /\ q \in load.asks
    /\ ask' = [ask EXCEPT ![q] = "pending"]
    /\ Say(<<[t |-> "ask", q |-> q]>>)
    /\ UNCHANGED <<srv, runs, busy, cl, up, toC, cst, has, crun, doing, withdrawn, answered, ghosts>>

\* The caller withdraws its question: with the link down its wait ends at once.
Withdraws(q) ==
    /\ ask[q] = "pending" /\ q \notin withdrawn
    /\ withdrawn' = withdrawn \cup {q}
    /\ ask' = IF cst = "on" THEN ask ELSE [ask EXCEPT ![q] = "cancelled"]
    /\ Say(<<[t |-> "cancel", q |-> q]>>)
    /\ UNCHANGED <<srv, runs, busy, cl, up, toC, cst, has, crun, doing, answered, ghosts>>

RunEnds(r) ==
    /\ r \in load.finishing /\ crun[r] # "ended"
    /\ crun' = [crun EXCEPT ![r] = "ended"]
    /\ Say(Report(crun'))
    /\ UNCHANGED <<srv, runs, busy, cl, up, toC, cst, has, doing, ask, withdrawn, answered, ghosts>>

\* The network fails: what is on its way, in both directions, is lost.
Break ==
    /\ up /\ cl < load.links /\ cst \in {"on", "resuming"}
    /\ up' = FALSE /\ toC' = <<>> /\ toS' = <<>>
    /\ UNCHANGED <<srv, runs, busy, cl, client, answered, ghosts>>

\* release: a question withdrawn on the link that dropped ends with it.
ClientNotices ==
    /\ ~up /\ cst \in {"on", "resuming"}
    /\ cst' = "off" /\ doing' = {}
    /\ ask' = [q \in Asks |-> IF ask[q] = "pending" /\ q \in withdrawn THEN "cancelled" ELSE ask[q]]
    /\ UNCHANGED <<srv, runs, busy, net, has, crun, withdrawn, answered, ghosts>>

\* connectAgent with the resumption: the first message of the new link names the session
\* and the questions it still waits on.
Reconnect ==
    /\ cst = "off" /\ cl < load.links
    /\ cst' = "resuming" /\ cl' = cl + 1 /\ up' = TRUE /\ toC' = <<>>
    /\ toS' = <<[t |-> "resume", has |-> has, named |-> {q \in Asks : has /\ ask[q] = "pending"}]>>
    /\ UNCHANGED <<srv, runs, busy, has, crun, doing, ask, withdrawn, answered, ghosts>>

-----------------------------------------------------------------------------
Next ==
    \/ ServerNotices \/ End \/ Release \/ StopQuestion \/ TurnEnds
    \/ \E t \in Targets : Stop(t) \/ Resume(t)
    \/ \E w \in srv.waits : TimeOut(w)
    \/ \E q \in Asks : MemberAnswers(q) \/ Reply(q) \/ ClientAsks(q) \/ Withdraws(q)
    \/ ServerHears \/ ClientHears
    \/ \E d \in doing : Answers(d)
    \/ \E r \in Runs : RunEnds(r)
    \/ Break \/ ClientNotices \/ Reconnect

Spec == Init /\ [][Next]_vars

\* Both ends keep reading, notice a dead network, and the client comes back. Nothing
\* makes a person press, a member answer, or the client's handlers end.
Fairness ==
    /\ WF_vars(ServerNotices) /\ WF_vars(ServerHears) /\ WF_vars(ClientHears)
    /\ WF_vars(ClientNotices) /\ WF_vars(Reconnect)
    /\ \A q \in Asks : WF_vars(Reply(q))

LiveSpec == Spec /\ Fairness

-----------------------------------------------------------------------------
(* Properties.                                                             *)

Pending(p) == told[p] \in {"waiting", "held", "unconfirmed"}
Owed(r)    == (\E o \in srv.owed : Covers(o.run, r)) \/ (\E t \in srv.held : Covers(t, r))

\* A Stop is never lost to a network failure (link.ts, #held and #unanswered): while the
\* session lasts, a Stop a person was not told had failed has been heard by the client, was
\* undone by a Resume answered since, or is still owed to it.
StopNotLost ==
    srv.open => \A p \in 1 .. n : Pending(p) =>
        \A r \in aim[p] : \/ crun[r] = "ended" \/ p <= heardTo[r] \/ p <= resumedTo[r] \/ Owed(r)

\* Sending a Stop again does not pause a run a person has resumed since (#undoStops): no
\* Stop is owed for a run whose answered Resume was pressed after it.
ResumedStaysResumed ==
    \A o \in srv.owed : \A r \in Runs : Covers(o.run, r) /\ runs[r] \in Live => resumedBy[r] <= o.at

\* An answer a member gave is not turned into a cancellation by a drop, a resume or the
\* release of the session (#answer, owesInput): only a withdrawal or an end of the session
\* that somebody chose cancels an answered question.
AnswerNotCancelled ==
    \A q \in answered : ask[q] = "cancelled" => q \in withdrawn \/ stopped

\* A client that waits on a question is owed something: the question or its result is on
\* its way, open, or kept for its next link, until the client is told that all has ended.
WaitIsAnswered ==
    \A q \in Asks : ask[q] = "pending" /\ cst = "on" /\ up /\ srv.home = cl =>
        \/ srv.input[q] \in {"open", "answered", "aborted", "unacked", "outbox"}
        \/ \E i \in 1 .. Len(toS) : toS[i].t = "ask" /\ toS[i].q = q
        \/ \E i \in 1 .. Len(toC) : \/ toC[i].t = "refused"
                                    \/ toC[i].t = "result" /\ toC[i].q = q

-----------------------------------------------------------------------------
(* Why they hold.                                                          *)

OnWay(c, t) == {m \in Range(c) : m.t = t}

\* Nothing is on its way on a network that failed. A resume and its reply are the first
\* messages of a link; the session's link is the client's once the reply is there.
LineInv ==
    /\ ~up => toC = <<>> /\ toS = <<>>
    /\ cst = "off" => ~up
    /\ srv.home <= cl
    /\ cst = "on" => srv.home = cl
    /\ \A i \in DOMAIN toC : toC[i].t = "resumed" =>
          i = 1 /\ cst = "resuming" /\ srv.home = cl /\ toS = <<>>
    /\ \A m \in OnWay(toS, "resume") :
          /\ Len(toS) = 1 /\ toC = <<>> /\ srv.home # cl /\ cst = "resuming"
          /\ m.has = has /\ \A q \in Asks : has /\ ask[q] = "pending" => q \in m.named
    /\ up /\ srv.home = cl /\ srv.link # "attached" =>
          srv.link = "closed" /\ (cst = "gone" \/ OnWay(toC, "refused") # {})

\* The session ends at the server first. Only a link that is attached owes Stops: others
\* hold them.
OpenInv ==
    /\ srv.open => srv.link # "closed"
    /\ srv.link = "suspended" => srv.open
    /\ srv.link # "attached" => srv.owed = {}
    /\ srv.open => /\ has /\ OnWay(toC, "destroy") = {} /\ OnWay(toC, "refused") = {}
                   /\ \A m \in OnWay(toC, "resumed") : m.has
    /\ ~srv.open => \A q \in Asks : srv.input[q] \notin {"open", "answered"}

\* Stops are heard in the order they were sent, and an answer follows what it answers.
HeardInv ==
    /\ \A r \in Runs : heardTo[r] <= n /\ resumedTo[r] <= n /\ resumedBy[r] <= n
    /\ \A w \in srv.owed \cup srv.waits \cup srv.late : w.at <= n
    /\ \A m \in OnWay(toC, "control") :
          /\ m.w.at <= n
          /\ m.w.act = "stop" => \A r \in Runs : heardTo[r] <= m.w.at
    /\ \A i, j \in DOMAIN toC :
          i < j /\ toC[i].t = "control" /\ toC[j].t = "control"
                /\ toC[i].w.act = "stop" /\ toC[j].w.act = "stop" => toC[i].w.at <= toC[j].w.at
    /\ \A d \in doing \cup OnWay(toS, "answer") :
          /\ d.w.at <= n
          /\ d.w.act = "stop" => \A r \in Runs : Covers(d.w.run, r) => d.w.at <= heardTo[r]

\* The server knows of no run's end that the client does not.
EndInv ==
    \A r \in Runs : (runs[r] = "ended" \/ \E m \in OnWay(toS, "runs") : m.st[r] = "ended")
                     => crun[r] = "ended"

\* What is still owed was pressed no earlier.
StopKept ==
    srv.open => \A p \in 1 .. n : Pending(p) =>
        \A r \in aim[p] :
            \/ crun[r] = "ended" \/ p <= heardTo[r] \/ p <= resumedTo[r]
            \/ \E o \in srv.owed : Covers(o.run, r) /\ p <= o.at
            \/ \E t \in srv.held : Covers(t, r)

\* What is owed was pressed no earlier than the Resumes its runs have had.
ResumedKept == \A o \in srv.owed : \A r \in Runs : Covers(o.run, r) => resumedBy[r] <= o.at

\* A question is asked once, and a result ends it.
AskInv ==
    /\ \A q \in Asks :
          /\ srv.input[q] # "none" => ask[q] # "none"
          /\ srv.input[q] = "none" => q \notin answered
          /\ srv.input[q] = "unacked" => srv.link = "attached"
          /\ srv.input[q] = "outbox" => srv.link = "suspended"
    /\ \A i \in DOMAIN toS : toS[i].t = "ask" =>
          /\ ask[toS[i].q] # "none" /\ srv.input[toS[i].q] = "none"
          /\ \A j \in DOMAIN toS : toS[j].t = "ask" /\ toS[j].q = toS[i].q => j = i
          /\ \A m \in OnWay(toC, "result") : m.q # toS[i].q
    /\ \A m \in OnWay(toC, "result") :
          ask[m.q] # "none" /\ srv.input[m.q] \notin {"open", "answered"}
    /\ \A m \in OnWay(toS, "ack") : ask[m.q] \in {"answered", "cancelled"}
    /\ \A m \in OnWay(toS, "cancel") : m.q \in withdrawn

\* What the client waits for, or will wait for when it hears that its session goes on.
Waits(q) ==
    /\ ask[q] = "pending" /\ up /\ srv.home = cl
    /\ cst = "on" \/ \E m \in OnWay(toC, "resumed") : q \in m.asks
WaitKept ==
    \A q \in Asks : Waits(q) =>
        \/ srv.input[q] \in {"open", "answered", "aborted"}
        \/ \E m \in OnWay(toS, "ask") : m.q = q
        \/ \E m \in OnWay(toC, "result") : m.q = q
        \/ OnWay(toC, "refused") # {}

\* Nobody withdrew the question or chose to end the session.
Wanted(q) == q \notin withdrawn /\ ~stopped
AnswerKept ==
    \A q \in Asks : Wanted(q) =>
        /\ srv.input[q] \in {"open", "answered"} => ask[q] = "pending"
        /\ srv.open => \A m \in OnWay(toS, "ask") : m.q = q => ask[q] = "pending"
        /\ q \in answered =>
              /\ srv.input[q] \in {"answered", "unacked", "outbox", "done"}
              /\ ask[q] \in {"pending", "answered"}
              /\ srv.input[q] = "done" => ask[q] = "answered"
              /\ ~srv.open => srv.input[q] = "done"
              /\ \A m \in OnWay(toC, "result") : m.q = q => m.st = "answered"
        /\ \A m \in OnWay(toC, "resumed") :
              ask[q] = "pending" /\ (q \in answered \/ srv.input[q] \in {"open", "answered"})
              => q \in m.asks

\* What the two ends of a link owe each other: Stops to the client, replies to its questions.
LinkInv ==
    /\ TypeOK /\ StopNotLost /\ WaitIsAnswered
    /\ LineInv /\ OpenInv /\ HeardInv /\ EndInv /\ StopKept /\ ResumedKept /\ AskInv /\ WaitKept /\ AnswerKept

\* An answered question ends for the client that asked it, however often its link drops; a
\* Stop is heard once the client is back, or is undone, or its session or run ends.
Arrives ==
    /\ \A q \in Asks : []<>(q \notin answered \/ ask[q] # "pending")
    /\ []<>(\A p \in 1 .. n : srv.open /\ Pending(p) =>
              \A r \in aim[p] : crun[r] = "ended" \/ p <= heardTo[r] \/ p <= resumedTo[r])
=============================================================================
