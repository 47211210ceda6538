------------------------------ MODULE ChatTurns ------------------------------
(***************************************************************************)
(* A document's Chat: how messages, MCP invocations, comment instructions, *)
(* background jobs and task drafts become Planner turns.  One turn runs at *)
(* a time; the rest wait in a queue the turn drains when it ends.          *)
(*                                                                         *)
(* Sends, invocations and drafts are processed one after the other (the    *)
(* promise chat.sending); instructions and jobs are not.  Everything is    *)
(* saved through the document's queue of commits, so saves end in the      *)
(* order they were asked for (`saves'), and what runs when one ends is its *)
(* continuation.  A save that fails also stops the server (`fatal').  The  *)
(* transcript keeps only what members said.                                *)
(***************************************************************************)
EXTENDS Integers, Sequences, FiniteSets, SequencesExt

CONSTANTS
    Messages, Invokes, Notes, Jobs, Drafts, NoItem,
    Thread,         \* the comment thread of a note
    MaxQueue,       \* MAX_QUEUE
    MaxPending,     \* MAX_PENDING_SENDS
    Loads           \* the loads a behaviour may start with: how often each item is asked for
                    \* (a message again when it is retried), and how many saves fail or
                    \* sessions do not close

Items == Messages \cup Invokes \cup Notes \cup Jobs \cup Drafts

ASSUME ItemAssumption ==
    /\ NoItem \notin Items /\ DOMAIN Thread = Notes
    /\ Messages \cap (Invokes \cup Notes \cup Jobs \cup Drafts) = {}
    /\ Invokes \cap (Notes \cup Jobs \cup Drafts) = {}
    /\ Notes \cap (Jobs \cup Drafts) = {} /\ Jobs \cap Drafts = {}
ASSUME LoadAssumption ==
    /\ {MaxQueue, MaxPending} \subseteq Nat
    /\ Loads \subseteq [asks: [Items -> Nat], faults: Nat]
    /\ \A l \in Loads : \A i \in Items \ Messages : l.asks[i] <= 1

VARIABLES
    entries, saved,     \* the transcript, and what of it is stored
    waiting,            \* chat.waiting
    sending,            \* sends, invocations and drafts; the first one is in progress
    saves,              \* saves in the order asked for, with their continuation
    busy, run, chain,   \* chat.busy; where each turn is; invocations settled with the whole run
    closed, fatal,
    live, output,       \* chat.job, chat.jobOutput
    stop,               \* the running turn was stopped or interrupted
    draft,              \* chat.draft
    asked, spent, cancelled,    \* what people did
    started, told, folded,      \* turns begun, outcomes reported, instructions folded into another
    load                        \* what is left of the load

transcript == <<entries, saved>>
turns  == <<busy, run, chain, started>>
job    == <<live, output, stop>>
ends   == <<closed, fatal, load>>
people == <<asked, spent, cancelled>>
words  == <<told, folded>>
chatVars   == <<transcript, waiting, sending, saves, turns, ends, job, draft, people, words>>

Idle    == [at |-> "none", out |-> "none", err |-> FALSE]
NoDraft == [id |-> NoItem, at |-> "none"]
Outs    == {"done", "failed", "stopped", "skipped"}
Fors    == {"send", "invoke", "followup", "notice", "draft", "end", "handoff"}

ChatTypeOK ==
    /\ entries \in Seq(Messages \cup Invokes) /\ saved \subseteq Messages \cup Invokes
    /\ waiting \in Seq(Items)
    /\ sending \in Seq([item: Messages \cup Invokes \cup Drafts, at: {"new", "checked", "saving"}])
    /\ Len(sending) <= MaxPending
    /\ saves \in Seq([for: Fors, item: Items])
    /\ busy \in BOOLEAN /\ chain \subseteq Invokes /\ started \in [Items -> Nat]
    /\ run \in [Items -> [at: {"none", "handoff", "working", "saving", "reporting"},
                          out: Outs \cup {"none"}, err: BOOLEAN]]
    /\ closed \in {"open", "stopped", "closing", "closed"} /\ fatal \in BOOLEAN
    /\ live \in Jobs \cup {NoItem} /\ output \in BOOLEAN
    /\ stop \in {"none", "stopped", "interrupted"}
    /\ draft \in [id: Drafts \cup {NoItem}, at: {"none", "queued", "running"}]
    /\ asked \in [Items -> Nat] /\ spent \subseteq Notes /\ cancelled \subseteq Jobs
    /\ told \in [Items -> Seq(Outs)] /\ folded \subseteq Notes
    /\ load \in [asks: [Items -> Nat], faults: Nat]

ChatInit ==
    /\ entries = <<>> /\ saved = {} /\ waiting = <<>> /\ sending = <<>> /\ saves = <<>>
    /\ busy = FALSE /\ run = [i \in Items |-> Idle] /\ chain = {}
    /\ started = [i \in Items |-> 0]
    /\ closed = "open" /\ fatal = FALSE /\ load \in Loads
    /\ live = NoItem /\ output = FALSE /\ stop = "none" /\ draft = NoDraft
    /\ asked = [i \in Items |-> 0] /\ spent = {} /\ cancelled = {}
    /\ told = [i \in Items |-> <<>>] /\ folded = {}

Open == closed = "open"
Full == Len(waiting) >= MaxQueue

\* Nothing is twice in the queue, in the transcript or among the requests.
Place(q, x) == CHOOSE k \in DOMAIN q : q[k] = x
Without(q, x) == IF x \in Range(q) THEN RemoveAt(q, Place(q, x)) ELSE q

\* Mutation: a job's outcome is reported whatever was reported before.
TellAgain(t, I, out) == [i \in Items |-> IF i \in I THEN Append(t[i], out) ELSE t[i]]

\* report and finishJob: a job is told once; others have told nothing before.
Tell(t, I, out) ==
    [i \in Items |-> IF i \in I /\ (i \in Jobs => t[i] = <<>>) THEN Append(t[i], out) ELSE t[i]]

\* Those with somebody to report to: `ended', or a job's promise.
Hearing(I) == I \cap (Invokes \cup Notes \cup Jobs)
Heard(q) == Hearing(Range(q))

\* run, up to its first await.
Starts(i) ==
    /\ busy' = TRUE
    /\ started' = [started EXCEPT ![i] = @ + 1]
    /\ run' = [run EXCEPT ![i] = [Idle EXCEPT !.at = "working"]]
    /\ live' = IF i \in Jobs THEN i ELSE NoItem
    /\ output' = FALSE /\ stop' = "none"

\* A thread that has a turn waiting folds the newer note into it.
Folds(n) == \E i \in Range(waiting) \cap (Notes \ spent) : n \in Notes /\ Thread[i] = Thread[n]

-----------------------------------------------------------------------------
(* Instructions and jobs.                                                  *)

\* instruct, once its notice is saved.
Proceed(n) ==
    \/ /\ ~Open \/ n \in spent
       /\ told' = Tell(told, {n}, "skipped")
       /\ UNCHANGED <<waiting, turns, job, folded>>
    \/ /\ Open /\ n \notin spent /\ Folds(n)
       /\ folded' = folded \cup {n}
       /\ UNCHANGED <<waiting, turns, job, told>>
    \/ /\ Open /\ n \notin spent /\ ~Folds(n) /\ busy
       /\ IF Full THEN told' = Tell(told, {n}, "failed") /\ UNCHANGED waiting
                  ELSE waiting' = Append(waiting, n) /\ UNCHANGED told
       /\ UNCHANGED <<turns, job, folded>>
    \/ /\ Open /\ n \notin spent /\ ~Folds(n) /\ ~busy
       /\ Starts(n)
       /\ UNCHANGED <<waiting, chain, told, folded>>

Instruct(n) ==
    /\ asked[n] < load.asks[n] /\ asked' = [asked EXCEPT ![n] = 1]
    /\ \/ /\ n \notin spent
          /\ saves' = Append(saves, [for |-> "notice", item |-> n])
          /\ UNCHANGED <<waiting, turns, job, words>>
       \/ Proceed(n) /\ UNCHANGED saves        \* automatic participation says nothing
    /\ UNCHANGED <<transcript, sending, ends, draft, spent, cancelled>>

\* The thread is resolved, so a turn for it is no longer worth running.
Resolve(n) ==
    /\ load.asks[n] > 0 /\ n \notin spent /\ spent' = spent \cup {n}
    /\ UNCHANGED <<transcript, waiting, sending, saves, turns, ends, job, draft, asked, cancelled,
                   words>>

AskJob(j) ==
    /\ asked[j] < load.asks[j] /\ asked' = [asked EXCEPT ![j] = 1]
    /\ \/ /\ ~Open /\ told' = Tell(told, {j}, "failed")
          /\ UNCHANGED <<waiting, turns, job>>
       \/ /\ Open /\ busy
          /\ IF Full THEN told' = Tell(told, {j}, "skipped") /\ UNCHANGED waiting
                     ELSE waiting' = Append(waiting, j) /\ UNCHANGED told
          /\ UNCHANGED <<turns, job>>
       \/ /\ Open /\ ~busy /\ Starts(j)
          /\ UNCHANGED <<waiting, chain, told>>
    /\ UNCHANGED <<transcript, sending, saves, ends, draft, spent, cancelled, folded>>

\* Mutation: the running job keeps its identity until the turn is over.
CancelJobLate(j) ==
    /\ asked[j] = 1 /\ told[j] = <<>> /\ j \notin cancelled
    /\ cancelled' = cancelled \cup {j}
    /\ IF live = j
       THEN /\ stop' = "interrupted"
            /\ UNCHANGED <<waiting, told, live, output>>
       ELSE /\ waiting' = Without(waiting, j)
            /\ told' = Tell(told, {j}, "failed")
            /\ UNCHANGED job
    /\ UNCHANGED <<transcript, sending, saves, turns, ends, draft, asked, spent, folded>>

\* The signal of a job: the running one loses its identity and is interrupted;
\* one that waits, is handed over or is being saved settles at once.
CancelJob(j) ==
    /\ asked[j] = 1 /\ told[j] = <<>> /\ j \notin cancelled
    /\ cancelled' = cancelled \cup {j}
    /\ IF live = j
       THEN /\ live' = NoItem /\ output' = FALSE /\ stop' = "interrupted"
            /\ UNCHANGED <<waiting, told>>
       ELSE /\ waiting' = Without(waiting, j)
            /\ told' = Tell(told, {j}, "failed")
            /\ UNCHANGED job
    /\ UNCHANGED <<transcript, sending, saves, turns, ends, draft, asked, spent, folded>>

\* A job's tool reports through chat.job.
JobSubmits ==
    /\ live # NoItem /\ run[live].at = "working" /\ ~output
    /\ output' = TRUE
    /\ UNCHANGED <<transcript, waiting, sending, saves, turns, ends, live, stop, draft, people,
                   words>>

-----------------------------------------------------------------------------
(* Sends, invocations and drafts.                                          *)

\* Mutation: nothing bounds the sends that wait.
AskAny(i) ==
    /\ asked[i] < load.asks[i]
    /\ asked' = [asked EXCEPT ![i] = @ + 1]
    /\ sending' = Append(sending, [item |-> i, at |-> "new"])
    /\ UNCHANGED <<transcript, waiting, saves, turns, ends, job, draft, spent, cancelled, words>>

Ask(i) ==
    /\ Len(sending) < MaxPending
    /\ asked[i] < load.asks[i]
    /\ asked' = [asked EXCEPT ![i] = @ + 1]
    /\ sending' = Append(sending, [item |-> i, at |-> "new"])
    /\ UNCHANGED <<transcript, waiting, saves, turns, ends, job, draft, spent, cancelled, words>>

\* Mutation: sends do not wait for the ones before them.
InTurnAny(k) == k \in 1 .. Len(sending)

\* chat.sending: one request is processed at a time.
InTurn(k) == k = 1 /\ sending # <<>>

At(k, at) == [sending EXCEPT ![k].at = at]
Answered(k) == sending' = RemoveAt(sending, k)

\* replay: a retry is answered from what its first send left.
Replayed(m) == m \in Range(entries) \cup Range(waiting)

\* Mutation: a request to a Chat that closed is not answered.
CheckWaits(k) ==
    /\ InTurn(k) /\ sending[k].at = "new" /\ Open
    /\ LET i == sending[k].item IN
       IF i \in Messages /\ Replayed(i)
       THEN Answered(k) ELSE sending' = At(k, "checked")
    /\ UNCHANGED <<transcript, waiting, saves, turns, ends, job, draft, people, words>>

\* The checks before the first await: a retry, a Chat that is closed.
Check(k) ==
    /\ InTurn(k) /\ sending[k].at = "new"
    /\ LET i == sending[k].item IN
       IF (i \in Messages /\ Replayed(i)) \/ ~Open
       THEN Answered(k) ELSE sending' = At(k, "checked")
    /\ UNCHANGED <<transcript, waiting, saves, turns, ends, job, draft, people, words>>

\* References, the focus, the owner or an unattached Planner refuse the request.
Refuse(k) ==
    /\ InTurn(k) /\ sending[k].at = "checked"
    /\ Answered(k)
    /\ UNCHANGED <<transcript, waiting, saves, turns, ends, job, draft, people, words>>

Saving(k, for) ==
    /\ sending' = At(k, "saving")
    /\ saves' = Append(saves, [for |-> for, item |-> sending[k].item])

\* Mutation: the turn is not reserved while its message is saved.
SendMessageLate(k) ==
    LET m == sending[k].item IN
    /\ InTurn(k) /\ sending[k].at = "checked" /\ m \in Messages
    /\ \/ /\ ~Open \/ (busy /\ Full)
          /\ Answered(k)
          /\ UNCHANGED <<entries, waiting, saves, busy>>
       \/ /\ Open /\ busy /\ ~Full
          /\ waiting' = Append(waiting, m) /\ Answered(k)
          /\ UNCHANGED <<entries, saves, busy>>
       \/ /\ Open /\ ~busy
          /\ entries' = Append(entries, m) /\ Saving(k, "send")
          /\ UNCHANGED <<waiting, busy>>
    /\ UNCHANGED <<saved, run, chain, started, ends, job, draft, people, words>>

\* Mutation: a message is queued however long the queue is.
SendMessageAlways(k) ==
    LET m == sending[k].item IN
    /\ InTurn(k) /\ sending[k].at = "checked" /\ m \in Messages
    /\ \/ /\ ~Open
          /\ Answered(k)
          /\ UNCHANGED <<entries, waiting, saves, busy>>
       \/ /\ Open /\ busy
          /\ waiting' = Append(waiting, m) /\ Answered(k)
          /\ UNCHANGED <<entries, saves, busy>>
       \/ /\ Open /\ ~busy
          /\ busy' = TRUE /\ entries' = Append(entries, m) /\ Saving(k, "send")
          /\ UNCHANGED waiting
    /\ UNCHANGED <<saved, run, chain, started, ends, job, draft, people, words>>

\* processSend: queue the message, or reserve the turn and save it.
SendMessage(k) ==
    LET m == sending[k].item IN
    /\ InTurn(k) /\ sending[k].at = "checked" /\ m \in Messages
    /\ \/ /\ ~Open \/ (busy /\ Full)
          /\ Answered(k)
          /\ UNCHANGED <<entries, waiting, saves, busy>>
       \/ /\ Open /\ busy /\ ~Full
          /\ waiting' = Append(waiting, m) /\ Answered(k)
          /\ UNCHANGED <<entries, saves, busy>>
       \/ /\ Open /\ ~busy
          /\ busy' = TRUE /\ entries' = Append(entries, m) /\ Saving(k, "send")
          /\ UNCHANGED waiting
    /\ UNCHANGED <<saved, run, chain, started, ends, job, draft, people, words>>

InvokeRefused == ~Open \/ (busy /\ Full)

\* invoke: a message that is saved before it is queued or started, or an
\* automatic follow-up, which is an instruction.
SendInvoke(k) ==
    LET i == sending[k].item IN
    /\ InTurn(k) /\ sending[k].at = "checked" /\ i \in Invokes
    /\ \/ InvokeRefused /\ Answered(k) /\ UNCHANGED <<entries, saves>>
       \/ ~InvokeRefused /\ Saving(k, "followup") /\ UNCHANGED entries
       \/ ~InvokeRefused /\ Saving(k, "invoke") /\ entries' = Append(entries, i)
    /\ UNCHANGED <<saved, waiting, turns, ends, job, draft, people, words>>

\* liveDraft: the draft is in the queue, or its turn runs.
LiveDraft ==
    \/ draft.at = "queued" /\ draft.id \in Range(waiting)
    \/ draft.at = "running" /\ run[draft.id].at # "none"

\* postDraft: one that is live is returned; a new one is queued while its notice is saved.
SendDraft(k) ==
    LET d == sending[k].item IN
    /\ InTurn(k) /\ sending[k].at = "checked" /\ d \in Drafts
    /\ draft' = IF LiveDraft THEN draft
                ELSE IF Full THEN NoDraft ELSE [id |-> d, at |-> "queued"]
    /\ IF LiveDraft \/ Full THEN Answered(k) /\ UNCHANGED <<waiting, saves>>
       ELSE waiting' = Append(waiting, d) /\ Saving(k, "draft")
    /\ UNCHANGED <<transcript, turns, ends, job, people, words>>

\* unqueue: whoever wrote it withdraws what waits.
Unqueue(i) ==
    /\ i \in Range(waiting) \ Jobs
    /\ waiting' = Without(waiting, i)
    /\ told' = Tell(told, Hearing({i}), "skipped")
    /\ UNCHANGED <<transcript, sending, saves, turns, ends, job, draft, people, folded>>

-----------------------------------------------------------------------------
(* Turns.                                                                  *)

\* abort and resetAgent: the turn is stopped or interrupted and a job loses its identity.
StopTurn(how) ==
    /\ stop = "none" /\ \E i \in Items : run[i].at = "working"
    /\ stop' = how /\ live' = NoItem /\ output' = FALSE
    /\ UNCHANGED <<transcript, waiting, sending, saves, turns, ends, draft, people, words>>

\* The run is over: direct invocations hear of it.
Over(i, t) ==
    /\ run' = [run EXCEPT ![i] = Idle]
    /\ told' = Tell(t, chain, "done") /\ chain' = {}

\* pending: turns already spent are skipped, the next message moves into the transcript.
Drain(i, t, s) ==
    \/ /\ ~Open /\ Over(i, t)
       /\ saves' = s /\ UNCHANGED <<entries, waiting, busy>>
    \/ /\ Open /\ Range(waiting) \subseteq spent
       /\ Over(i, Tell(t, Range(waiting), "skipped"))
       /\ busy' = FALSE /\ waiting' = <<>>
       /\ saves' = s /\ UNCHANGED entries
    \/ /\ Open
       /\ \E n \in DOMAIN waiting :
            LET next == waiting[n]
                skip == {waiting[k] : k \in 1 .. n - 1} IN
            /\ next \notin spent /\ skip \subseteq spent
            /\ told' = Tell(t, skip, "skipped")
            /\ waiting' = SubSeq(waiting, n + 1, Len(waiting))
            /\ entries' = IF next \in Messages THEN Append(entries, next) ELSE entries
            /\ run' = [run EXCEPT ![i] = Idle, ![next] = [Idle EXCEPT !.at = "handoff"]]
            /\ saves' = Append(s, [for |-> "handoff", item |-> next])
       /\ UNCHANGED <<busy, chain>>

\* stopAfterPersistenceFailure: nothing that waits will run.
StopAll(i, t) ==
    /\ closed' = IF Open THEN "stopped" ELSE closed
    /\ busy' = FALSE /\ waiting' = <<>>
    /\ Over(i, Tell(t, Heard(waiting), "failed"))
    /\ UNCHANGED entries

\* The end of a turn after its save, or without one in a Chat that closed.
Settle(i, out, err, s) ==
    LET ended == i \in Notes \cup (Invokes \ chain)
        t     == IF i \in Jobs THEN Tell(told, {i}, IF Open /\ ~err THEN out ELSE "failed")
                 ELSE IF ended /\ (Open \/ err)
                 THEN Tell(told, {i}, IF err THEN "failed" ELSE out) ELSE told
    IN /\ draft' = IF draft.id = i THEN NoDraft ELSE draft
       /\ \/ err /\ StopAll(i, t) /\ saves' = s
          \/ /\ ~err /\ ended /\ Open          \* `ended' is awaited before the drain
             /\ told' = t /\ run' = [run EXCEPT ![i].at = "reporting"] /\ saves' = s
             /\ UNCHANGED <<entries, waiting, busy, chain, closed>>
          \/ ~err /\ ~(ended /\ Open) /\ Drain(i, t, s) /\ UNCHANGED closed

JobOut == IF output /\ stop = "none" /\ Open THEN "done" ELSE "failed"

\* The session answered, failed or was stopped, and is closed.
TurnOver(i) ==
    /\ run[i].at = "working"
    /\ \E out \in (IF i \in Jobs THEN {JobOut}
                   ELSE IF stop = "stopped" THEN {"stopped"}
                   ELSE IF stop = "interrupted" THEN {"failed"} ELSE {"done", "failed"}),
          err \in BOOLEAN :
         /\ err => i \in Jobs /\ load.faults > 0
         /\ load' = IF err THEN [load EXCEPT !.faults = @ - 1] ELSE load   \* a job's session does not close
         /\ IF Open
            THEN /\ run' = [run EXCEPT ![i] = [at |-> "saving", out |-> out, err |-> err]]
                 /\ saves' = Append(saves, [for |-> "end", item |-> i])
                 /\ UNCHANGED <<entries, waiting, busy, chain, closed, draft, told>>
            ELSE Settle(i, out, err, saves)
    /\ live' = NoItem /\ output' = FALSE /\ stop' = "none"
    /\ UNCHANGED <<saved, sending, started, fatal, people, folded>>

\* Mutation: what queued up behind an instruction is not drained.
ReportedIdle(i) ==
    /\ run[i].at = "reporting"
    /\ Over(i, told) /\ busy' = FALSE
    /\ UNCHANGED <<entries, waiting, saves, saved, sending, started, ends, job, draft, people, folded>>

Reported(i) ==
    /\ run[i].at = "reporting"
    /\ Drain(i, told, saves)
    /\ UNCHANGED <<saved, sending, started, ends, job, draft, people, folded>>

-----------------------------------------------------------------------------
(* Continuations of a save.                                                *)

SaveEnds(for, ok) ==
    /\ saves # <<>> /\ Head(saves).for = for
    /\ saved' = IF ok THEN Range(entries) ELSE saved
    /\ IF ok THEN UNCHANGED <<fatal, load>>
       ELSE load.faults > 0 /\ load' = [load EXCEPT !.faults = @ - 1] /\ fatal' = TRUE

Item == Head(saves).item

\* The request whose save it was is answered.
Served == Answered(Place(sending, [item |-> Item, at |-> "saving"]))

NoticeSaved(ok) ==
    /\ SaveEnds("notice", ok) /\ saves' = Tail(saves)
    /\ IF ok THEN Proceed(Item)
       ELSE UNCHANGED <<waiting, turns, job, words>>       \* the caller hears the error
    /\ UNCHANGED <<entries, sending, closed, draft, people>>

FollowupSaved(ok) ==
    /\ SaveEnds("followup", ok) /\ saves' = Tail(saves) /\ Served
    /\ IF ok THEN Proceed(Item) ELSE UNCHANGED <<waiting, turns, job, words>>
    /\ UNCHANGED <<entries, closed, draft, people>>

\* Mutation: a message that could not be saved starts its turn.
MessageSavedAnyway(ok) ==
    /\ SaveEnds("send", ok) /\ saves' = Tail(saves) /\ Served
    /\ \/ Open /\ Starts(Item) /\ UNCHANGED entries
       \/ ~Open /\ UNCHANGED <<entries, busy, run, started, job>>
    /\ UNCHANGED <<waiting, chain, closed, draft, people, words>>

MessageSaved(ok) ==
    /\ SaveEnds("send", ok) /\ saves' = Tail(saves) /\ Served
    /\ \/ ok /\ Open /\ Starts(Item) /\ UNCHANGED entries
       \/ ok /\ ~Open /\ UNCHANGED <<entries, busy, run, started, job>>
       \/ /\ ~ok /\ entries' = Without(entries, Item) /\ busy' = FALSE
          /\ UNCHANGED <<run, started, job>>
    /\ UNCHANGED <<waiting, chain, closed, draft, people, words>>

InvokeSaved(ok) ==
    /\ SaveEnds("invoke", ok) /\ saves' = Tail(saves) /\ Served
    /\ \/ /\ ok /\ Open /\ busy /\ waiting' = Append(waiting, Item)
          /\ UNCHANGED <<entries, turns, job>>
       \/ /\ ok /\ Open /\ ~busy /\ Starts(Item) /\ chain' = chain \cup {Item}
          /\ UNCHANGED <<entries, waiting>>
       \/ ok /\ ~Open /\ UNCHANGED <<entries, waiting, turns, job>>
       \/ ~ok /\ entries' = Without(entries, Item) /\ UNCHANGED <<waiting, turns, job>>
    /\ UNCHANGED <<closed, draft, people, words>>

\* The draft is abandoned, was started by a turn that drained it, or starts now.
DraftSaved(ok) ==
    LET gone == ~ok \/ ~Open
        here == Item \in Range(waiting) IN
    /\ SaveEnds("draft", ok) /\ saves' = Tail(saves) /\ Served
    /\ waiting' = IF gone \/ (here /\ ~busy) THEN Without(waiting, Item) ELSE waiting
    /\ IF ~gone /\ here /\ ~busy
       THEN Starts(Item) /\ UNCHANGED chain ELSE UNCHANGED <<turns, job>>
    /\ draft' = IF draft.id # Item THEN draft
                ELSE IF gone THEN NoDraft
                ELSE IF here /\ ~busy THEN [draft EXCEPT !.at = "running"] ELSE draft
    /\ UNCHANGED <<entries, closed, people, words>>

EndSaved(ok) ==
    /\ SaveEnds("end", ok)
    /\ Settle(Item, run[Item].out, run[Item].err \/ ~ok, Tail(saves))
    /\ UNCHANGED <<sending, started, job, people, folded>>

\* The queued turn is saved: it starts, unless the Chat closed or its job settled.
HandoffSaved(ok) ==
    LET i == Item IN
    /\ SaveEnds("handoff", ok)
    /\ \/ /\ ~ok /\ StopAll(i, Tell(told, {i} \cap Jobs, "failed"))
          /\ saves' = Tail(saves) /\ UNCHANGED <<started, job, draft>>
       \/ /\ ok /\ ~Open
          /\ Over(i, Tell(told, {i} \cap Jobs, "failed"))
          /\ saves' = Tail(saves)
          /\ UNCHANGED <<entries, waiting, busy, started, job, draft, closed>>
       \/ /\ ok /\ Open /\ i \in Jobs /\ told[i] # <<>>
          /\ Drain(i, told, Tail(saves))
          /\ UNCHANGED <<started, job, draft, closed>>
       \/ /\ ok /\ Open /\ ~(i \in Jobs /\ told[i] # <<>>)
          /\ Starts(i) /\ saves' = Tail(saves)
          /\ draft' = IF draft.id = i THEN [draft EXCEPT !.at = "running"] ELSE draft
          /\ UNCHANGED <<entries, waiting, chain, closed, told>>
    /\ UNCHANGED <<sending, people, folded>>

-----------------------------------------------------------------------------
\* Mutation: jobs that wait are dropped without a word.
CloseQuiet ==
    /\ closed \in {"open", "stopped"} /\ closed' = "closing"
    /\ told' = Tell(told, Heard(waiting) \ Jobs, "skipped")
    /\ waiting' = <<>> /\ live' = NoItem /\ output' = FALSE
    /\ stop' = IF \E i \in Items : run[i].at = "working" THEN "stopped" ELSE stop
    /\ UNCHANGED <<transcript, sending, saves, turns, fatal, load, draft, people, folded>>

\* close: what waits hears it will not run, the turn is aborted.
Close ==
    /\ closed \in {"open", "stopped"} /\ closed' = "closing"
    /\ LET handed == {i \in Jobs : run[i].at = "handoff"}
       IN told' = Tell(Tell(told, (Heard(waiting) \cap Jobs) \cup handed, "failed"),
                       Heard(waiting) \ Jobs, "skipped")
    /\ waiting' = <<>> /\ live' = NoItem /\ output' = FALSE
    /\ stop' = IF \E i \in Items : run[i].at = "working" THEN "stopped" ELSE stop
    /\ UNCHANGED <<transcript, sending, saves, turns, fatal, load, draft, people, folded>>

\* It waits for chat.sending and chat.running.
Closed ==
    /\ closed = "closing" /\ sending = <<>> /\ \A i \in Items : run[i].at = "none"
    /\ closed' = "closed"
    /\ UNCHANGED <<transcript, waiting, sending, saves, turns, fatal, load, job, draft, people,
                   words>>

-----------------------------------------------------------------------------
Saved ==
    \E ok \in BOOLEAN :
        \/ NoticeSaved(ok) \/ FollowupSaved(ok) \/ MessageSaved(ok) \/ InvokeSaved(ok)
        \/ DraftSaved(ok) \/ EndSaved(ok) \/ HandoffSaved(ok)

Process ==
    \E k \in 1 .. Len(sending) :
        Check(k) \/ Refuse(k) \/ SendMessage(k) \/ SendInvoke(k) \/ SendDraft(k)

Turn == \E i \in Items : TurnOver(i) \/ Reported(i)

ChatNext ==
    \/ Saved \/ Process \/ Turn \/ JobSubmits \/ Close \/ Closed
    \/ \E i \in Messages \cup Invokes \cup Drafts : Ask(i)
    \/ \E i \in Items : Unqueue(i)
    \/ \E n \in Notes : Instruct(n) \/ Resolve(n)
    \/ \E j \in Jobs : AskJob(j) \/ CancelJob(j)
    \/ \E how \in {"stopped", "interrupted"} : StopTurn(how)

ChatSpec == ChatInit /\ [][ChatNext]_chatVars

(* Saves end, requests are processed and turns end (sessions time out);    *)
(* a server that could not save shuts down and closes its documents.       *)
Fairness ==
    /\ WF_chatVars(Saved) /\ WF_chatVars(Process) /\ WF_chatVars(Turn)
    /\ WF_chatVars(Closed) /\ WF_chatVars(fatal /\ Close)

LiveSpec == ChatSpec /\ Fairness

-----------------------------------------------------------------------------
(* Properties.                                                             *)

Active == {i \in Items : run[i].at # "none"}

(* chat.busy is the only thing that keeps two Planner turns apart, and is  *)
(* set and cleared around awaits by five entry points: at most one turn is *)
(* being handed over, run, saved or reported, and then nobody finds Chat   *)
(* idle.                                                                   *)
OneTurn == Cardinality(Active) <= 1 /\ (Active # {} /\ Open => busy)

Occurs(q, i) == Cardinality({k \in 1 .. Len(q) : q[k] = i})

(* The comment on send: a message queued behind another turn moves into    *)
(* the transcript exactly once.  However often it is retried, a message is *)
(* in the transcript or in the queue once, and gets at most one turn.      *)
ExactlyOnce ==
    \A m \in Messages :
        Occurs(entries, m) + Occurs(waiting, m) <= 1 /\ started[m] <= 1

(* processSend, invoke and the drain save a message before its turn: the   *)
(* Planner never works on a message a restart would forget.                *)
DurableBeforeTurn == \A m \in Messages : started[m] > 0 => m \in saved

(* Instruction.ended, JobTurn.done and watchJobAbort: whoever waits for a  *)
(* turn is told at most once, also when a cancel, a close and the turn's   *)
(* own end meet; a job its owner cancelled is never done, and chat.job     *)
(* never names a job that was cancelled or told how it ended.              *)
OutcomesHold ==
    /\ \A i \in Items : Len(told[i]) <= 1
    /\ \A j \in cancelled : told[j] # <<"done">>
    /\ live # NoItem => live \notin cancelled /\ told[live] = <<>>

(* MAX_QUEUE: however requests interleave with saves, at most one          *)
(* invocation, which looks at the queue before it is saved, exceeds it.    *)
QueueBound ==
    Len(waiting) <= MaxQueue + 1 /\ Cardinality(Range(waiting) \ Invokes) <= MaxQueue

(* The transcript, the queue and the turns agree.                          *)
ChatInv == ChatTypeOK /\ OneTurn /\ DurableBeforeTurn /\ QueueBound

(* The comments on run and close: a turn drains whatever queued up behind  *)
(* it, and close awaits chat.sending and chat.running.  Nothing stays in   *)
(* the queue for ever, every job is told how it ended, and a close ends,   *)
(* through stops, cancellations and failed saves.                          *)
NothingWaits ==
    /\ \A i \in Items : []<>(i \notin Range(waiting))
    /\ \A j \in Jobs : []<>(asked[j] = 0 \/ told[j] # <<>>)
    /\ []<>(closed # "closing")
=============================================================================
