-------------------------- MODULE ResearchRequests --------------------------
(***************************************************************************)
(* One research request of a document (research/service.ts): its row, the  *)
(* evidence and answer jobs it links, the report it publishes, the notices *)
(* it leaves in the Chat, and the finding of a decision that follows it    *)
(* (questions/explore.ts).                                                 *)
(*                                                                         *)
(* What the service does to a request runs under #exclusive, one at a time *)
(* in order of arrival.  A step runs to the next write: reads in between   *)
(* are of rows only the holder changes, or of states that are final.  Jobs *)
(* run outside: pending, paused and running are one state here, `active'.  *)
(***************************************************************************)
EXTENDS Naturals, Sequences, FiniteSets

CONSTANT Loads    \* bounds, one record per workload: whether the Planner started the request
                  \* (inline), and how often it is started, retried, cancelled, followed,
                  \* its document edited, archived and its placement deferred, storage calls
                  \* fail and the server dies; whether its workspace is read

LoadRecords ==
    [inline: BOOLEAN, starts: Nat, retries: Nat, cancels: Nat, follows: Nat, edits: Nat,
     archives: Nat, defers: Nat, faults: Nat, crashes: Nat, reads: BOOLEAN,
     cut: BOOLEAN, failed: BOOLEAN]

ASSUME LoadsAssumption == Loads \subseteq {l \in LoadRecords : ~l.cut /\ ~l.failed}

VARIABLES
    ws,        \* research_workspaces and its initial turn
    jobs,      \* background_jobs of the request, in order of their enqueueing
    doc,       \* the document's revision
    archived,
    finding,   \* the decision's finding that follows the request
    notices,   \* Chat notices: the stage and the job they name
    lock,      \* #tails: what waits for the request; the head runs
    calls,     \* jobs whose change has not been looked up yet
    seen,      \* the stage a finding about to be stored was asked with
    told,      \* snapshots on their way to settleResearch
    boot,      \* what startup has still to do before the runner starts
    timer,     \* researchRecoveryTimer
    load       \* what is left of the bounds; whether a job's end was lost or was not for
               \* the Chat yet (cut), or a call of the service failed (failed)

durable == <<ws, jobs, notices>>
outside == <<doc, archived>>
people  == <<finding, seen, told>>
server  == <<calls, boot, timer>>
vars    == <<ws, jobs, doc, archived, finding, notices, lock, calls, seen, told, boot, timer, load>>

Roles   == {"evidence", "answer"}
States  == {"active", "completed", "failed", "cancelled"}
Final   == {"ready", "failed", "cancelled"}
NoStage == "none"
Stages  == Final \cup {"active", NoStage}
Ops     == [do: {"start", "recover", "changed", "cancel", "retry", "read", "view"},
            at: {"place", "evidence", "link", "pass", "act", "end"}, then: {"act", "end"},
            job: Nat, new: Nat, role: Roles, why: {"none", "settle", "sweep", "follow", "stop", "refused"}]

\* What a row, a job and a snapshot may be.
RowRecords == [made: BOOLEAN, ref: {"none", "pending", "placed"}, rev: Nat,
               evidence: Nat, answer: Nat, pub: BOOLEAN]
JobRecords == [role: Roles, rev: Nat, doc: Nat, state: States]
Snapshots  == [stage: Stages, stop: BOOLEAN]

TypeOK ==
    /\ ws \in RowRecords /\ {ws.evidence, ws.answer} \subseteq 0 .. Len(jobs)
    /\ jobs \in Seq(JobRecords)
    /\ doc \in Nat /\ {archived, timer} \subseteq BOOLEAN
    /\ finding \in {"none", "running", "ready", "failed", "stopped"}
    /\ notices \subseteq [stage: {"ready", "failed"}, job: 1 .. Len(jobs)]
    /\ lock \in Seq(Ops) /\ calls \subseteq 1 .. Len(jobs)
    /\ seen \in Stages /\ told \subseteq Snapshots
    /\ boot \in {"none", "pending", "terminal"}
    /\ load \in LoadRecords

Init ==
    /\ ws = [made |-> FALSE, ref |-> "none", rev |-> 0, evidence |-> 0, answer |-> 0, pub |-> FALSE]
    /\ jobs = <<>> /\ doc = 0 /\ archived = FALSE /\ finding = "none" /\ notices = {}
    /\ lock = <<>> /\ calls = {} /\ seen = NoStage /\ told = {} /\ boot = "none" /\ timer = FALSE
    /\ load \in Loads

Spend(k) == load[k] > 0 /\ load' = [load EXCEPT ![k] = @ - 1]

-----------------------------------------------------------------------------
(* The jobs of the request and what they make of it.                       *)

Of(role) == {j \in 1 .. Len(jobs) : jobs[j].role = role}

\* The target's current generation: every enqueueing counts it up.
Current(j) == \A k \in Of(jobs[j].role) : k <= j

\* #targetJob, when it is still active.
ActiveJobs(role) == {j \in Of(role) : Current(j) /\ jobs[j].state = "active"}

State(j) == IF j = 0 THEN "none" ELSE jobs[j].state

\* projectRequestView.
Stage ==
    LET s == IF ws.answer # 0 THEN State(ws.answer) ELSE State(ws.evidence) IN
    CASE ws.evidence = 0 /\ ws.answer = 0 -> "failed"
      [] s \in {"failed", "cancelled"}    -> s
      [] ws.pub                           -> "ready"
      [] OTHER                            -> "active"

\* researchAttemptDisposition.
Retryable ==
    LET S == {State(j) : j \in {ws.evidence, ws.answer} \ {0}} IN
    "active" \notin S /\ (S = {} \/ S \cap {"failed", "cancelled"} # {})

NeedsAnswer  == ws.answer = 0 /\ State(ws.evidence) = "completed"
NeedsPublish == State(ws.answer) = "completed" /\ ~ws.pub

-----------------------------------------------------------------------------
(* #exclusive.                                                             *)

Op(do, at, then, j, why) ==
    [do |-> do, at |-> at, then |-> then, job |-> j, new |-> 0, role |-> "evidence",
     why |-> why]

View(why) == Op("view", "end", "end", 0, why)

Runs(do, at) == lock # <<>> /\ Head(lock).do = do /\ Head(lock).at = at

Goes(at)  == lock' = <<[Head(lock) EXCEPT !.at = at]>> \o Tail(lock)
Holds(op) == lock' = <<op>> \o Tail(lock)

\* An error: who stops a finding asks how the request ended instead.
Throws ==
    LET h == Head(lock) IN
    lock' = Tail(lock) \o IF h.why = "stop" THEN <<View("refused")>> ELSE <<>>

Lost == load' = [load EXCEPT !.cut = TRUE, !.failed = TRUE]

\* A storage call of the running operation fails (in a recovery that ends the process).
Breaks ==
    /\ load.faults > 0 /\ Head(lock).do # "recover"
    /\ Throws
    /\ load' = [load EXCEPT !.faults = @ - 1, !.cut = TRUE, !.failed = TRUE]

\* Nothing was written.
Fails ==
    /\ lock # <<>> /\ Head(lock).do # "view" /\ Breaks
    /\ UNCHANGED <<durable, outside, people, server>>

\* The write of a step is done; its reply may be lost.
Heard(at) ==
    \/ Goes(at) /\ UNCHANGED load
    \/ Breaks

-----------------------------------------------------------------------------
(* Starting: the row, the document's reference, the evidence job.          *)

\* #start, again when the Planner's call is replayed.
Start ==
    /\ ~archived /\ Spend("starts")
    /\ ws' = IF ws.made THEN ws
             ELSE [ws EXCEPT !.made = TRUE, !.ref = IF load.inline THEN "pending" ELSE "none"]
    /\ lock' = Append(lock, Op("start", IF load.inline THEN "place" ELSE "evidence", "end", 0, "none"))
    /\ UNCHANGED <<jobs, notices, outside, people, server>>

\* Mutation: a request is recovered until it is placed, not until it has its evidence job.
ListedPending == ws.ref = "pending"

\* listReferenceRecovery: placed is not enough, the evidence job must be there too.
Listed == ws.ref = "pending" \/ (ws.ref = "placed" /\ ws.evidence = 0)

Recovering == IF Listed THEN <<Op("recover", "place", "end", 0, "none")>> ELSE <<>>

Place ==
    /\ Runs("start", "place") \/ Runs("recover", "place")
    /\ \/ /\ Head(lock).do = "recover" /\ archived
          /\ lock' = Tail(lock) /\ UNCHANGED <<ws, timer, load>>
       \/ /\ Head(lock).do = "start" \/ ~archived
          /\ ws' = [ws EXCEPT !.ref = "placed"] /\ Goes("evidence") /\ UNCHANGED <<timer, load>>
       \/ /\ load.defers > 0 /\ lock' = Tail(lock) /\ UNCHANGED ws
          /\ load' = [load EXCEPT !.defers = @ - 1, !.failed = @ \/ Head(lock).do = "start"]
          /\ timer' = (timer \/ Head(lock).do = "recover")
    /\ UNCHANGED <<jobs, notices, outside, people, calls, boot>>

\* JobService.#enqueue and storage.jobs.enqueue: the key is the role and the row's revision,
\* the fingerprint the document the input quotes.
Keyed(role) == {j \in Of(role) : jobs[j].rev = ws.rev}
Quoted(role) == IF role = "answer" THEN doc ELSE 0

\* Mutation: a job that was enqueued before and not linked is not found again.
EnqueueAlways(role) ==
    /\ jobs' = Append(jobs, [role |-> role, rev |-> ws.rev, doc |-> Quoted(role), state |-> "active"])
    /\ Holds([Head(lock) EXCEPT !.at = "link", !.role = role, !.new = Len(jobs) + 1]) /\ UNCHANGED load

Enqueue(role) ==
    LET h == [Head(lock) EXCEPT !.at = "link", !.role = role]
        new == [role |-> role, rev |-> ws.rev, doc |-> Quoted(role), state |-> "active"] IN
    \/ \E j \in ActiveJobs(role) : Holds([h EXCEPT !.new = j]) /\ UNCHANGED <<jobs, load>>
    \/ /\ ActiveJobs(role) = {}
       /\ \/ \E j \in Keyed(role) :
                 /\ UNCHANGED jobs
                 /\ \/ jobs[j].doc = Quoted(role) /\ Holds([h EXCEPT !.new = j]) /\ UNCHANGED load
                    \/ jobs[j].doc # Quoted(role) /\ Throws /\ Lost
          \/ /\ Keyed(role) = {} /\ jobs' = Append(jobs, new)
             /\ \/ Holds([h EXCEPT !.new = Len(jobs) + 1]) /\ UNCHANGED load
                \/ Breaks

\* #ensureEvidence.
Evidence ==
    /\ \E do \in {"start", "recover", "retry"} : Runs(do, "evidence")
    /\ \/ ws.evidence = 0 /\ Enqueue("evidence")
       \/ /\ ws.evidence # 0 /\ UNCHANGED <<jobs, load>>
          /\ Goes(IF Head(lock).do = "retry" THEN "pass" ELSE "end")
    /\ UNCHANGED <<ws, notices, outside, people, server>>

\* linkJob; after the evidence of a retry, and after an answer, the request is looked at again.
Link ==
    /\ lock # <<>> /\ Head(lock).at = "link"
    /\ LET h == Head(lock) IN
       /\ Current(h.new)
       /\ ws' = [ws EXCEPT ![h.role] = h.new, !.rev = @ + 1]
       /\ Heard(IF h.role = "answer" \/ h.do = "retry" THEN "pass" ELSE "end")
    /\ UNCHANGED <<jobs, notices, outside, people, server>>

-----------------------------------------------------------------------------
(* #reconciled: until nothing is left to do.                               *)

Passing == lock # <<>> /\ Head(lock).at = "pass"

EnsureAnswer ==
    /\ Passing /\ NeedsAnswer
    /\ Enqueue("answer")
    /\ UNCHANGED <<ws, notices, outside, people, server>>

\* #publishInitialReport: a database that is not there leaves the report for later.
Publish ==
    /\ Passing /\ NeedsPublish
    /\ \/ archived /\ Throws /\ Lost /\ UNCHANGED ws
       \/ /\ ~archived /\ Current(ws.answer)
          /\ ws' = [ws EXCEPT !.pub = TRUE, !.rev = @ + 1]
          /\ Heard("pass")
       \/ /\ load.faults > 0 /\ load' = [load EXCEPT !.faults = @ - 1, !.cut = TRUE]
          /\ Goes(Head(lock).then) /\ UNCHANGED ws
    /\ UNCHANGED <<jobs, notices, outside, people, server>>

Reconciled ==
    /\ Passing /\ ~NeedsAnswer /\ ~NeedsPublish
    /\ Goes(Head(lock).then)
    /\ UNCHANGED <<durable, outside, people, server, load>>

\* An operation that only leaves the lock.
Leaves ==
    /\ lock # <<>> /\ Head(lock).at = "end" /\ Head(lock).do \in {"start", "recover", "retry", "read"}
    /\ lock' = Tail(lock)
    /\ UNCHANGED <<durable, outside, people, server, load>>

-----------------------------------------------------------------------------
(* jobChanged.                                                             *)

\* The runner settles a job, or a member cancels it in the list of jobs.
JobEnds(j, s) ==
    /\ boot = "none" /\ j \in 1 .. Len(jobs) /\ jobs[j].state = "active"
    /\ \/ s \in {"completed", "failed"} /\ calls' = calls \cup {j} /\ UNCHANGED load
       \/ s = "cancelled" /\ ~archived /\ Current(j) /\ Spend("cancels") /\ UNCHANGED calls
    /\ jobs' = [jobs EXCEPT ![j].state = s]
    /\ UNCHANGED <<ws, notices, outside, people, lock, boot, timer>>

\* findTurnByJob: a job that is not linked yet is nobody's.
JobChanged(j) ==
    /\ j \in calls /\ calls' = calls \ {j}
    /\ \/ /\ j \in {ws.evidence, ws.answer}
          /\ lock' = Append(lock, Op("changed", "pass", "act", j, "none")) /\ UNCHANGED load
       \/ /\ j \notin {ws.evidence, ws.answer}
          /\ load' = [load EXCEPT !.cut = TRUE] /\ UNCHANGED lock
    /\ UNCHANGED <<durable, outside, people, boot, timer>>

\* Mutation: a notice is posted for whatever the request has come to.
NotedAny(j) == Stage \in {"ready", "failed"}

\* Whether the request's stage is this job's doing, and gets a notice.
Noted(j) ==
    \/ Stage = "ready" /\ State(j) = "completed" /\ j = ws.answer /\ ws.ref = "placed"
    \/ Stage = "failed" /\ State(j) = "failed" /\ j \in {ws.answer, ws.evidence} /\ finding = "none"

\* A report whose card is not placed, deferred or never asked for, gets none.
Unplaced(j) == Stage = "ready" /\ j = ws.answer /\ ws.ref # "placed"

Announce ==
    /\ Runs("changed", "act")
    /\ LET j == Head(lock).job IN
       /\ notices' = IF Noted(j) THEN notices \cup {[stage |-> Stage, job |-> j]} ELSE notices
       /\ load' = IF Unplaced(j) THEN [load EXCEPT !.cut = TRUE] ELSE load
    /\ lock' = Append(Tail(lock), View("settle"))
    /\ UNCHANGED <<ws, jobs, outside, people, server>>

-----------------------------------------------------------------------------
(* cancelRequest and retryRequest.                                         *)

\* From the request's card, or to stop the finding that follows it.
Cancel ==
    /\ ws.made /\ Spend("cancels")
    /\ \E why \in {"none"} \cup (IF finding = "running" THEN {"stop"} ELSE {}) :
          lock' = Append(lock, Op("cancel", "pass", "act", 0, why))
    /\ UNCHANGED <<durable, outside, people, server>>

\* #cancelActiveTurn: the answer before the evidence.  A job that ends between the look and
\* the write, or an archived document, makes it an error.
CancelActive ==
    /\ Runs("cancel", "act")
    /\ LET A == {j \in {ws.answer, ws.evidence} : State(j) = "active"}
           again == [Head(lock) EXCEPT !.at = "pass", !.then = "end"] IN
       \/ /\ A # {} /\ ~archived
          /\ jobs' = [jobs EXCEPT ![IF ws.answer \in A THEN ws.answer ELSE ws.evidence].state = "cancelled"]
          /\ Holds(again)
       \/ /\ A = {} /\ "cancelled" \in {State(ws.answer), State(ws.evidence)}
          /\ Holds(again) /\ UNCHANGED jobs
       \/ /\ A = {} /\ "cancelled" \notin {State(ws.answer), State(ws.evidence)} /\ UNCHANGED jobs
          /\ lock' = Tail(lock) \o IF Head(lock).why = "stop" THEN <<View("stop")>> ELSE <<>>
       \/ (A # {} => archived) /\ {ws.answer, ws.evidence} # {0} /\ Throws /\ UNCHANGED jobs
    /\ UNCHANGED <<ws, notices, outside, people, server, load>>

Cancelled ==
    /\ Runs("cancel", "end")
    /\ lock' = Tail(lock)
    /\ LET stop == Head(lock).why = "stop" IN
       told' = IF Stage = "cancelled" \/ stop THEN told \cup {[stage |-> Stage, stop |-> stop]} ELSE told
    /\ UNCHANGED <<durable, outside, finding, seen, server, load>>

Retry ==
    /\ ws.made /\ ~archived /\ Spend("retries")
    /\ lock' = Append(lock, Op("retry", "pass", "act", 0, "none"))
    /\ UNCHANGED <<durable, outside, people, server>>

\* Mutation: a published request is reset like any other.
MayResetPublished == ~archived /\ {State(ws.evidence), State(ws.answer)} \cap {"active"} = {}

\* resetInitialAttempt's guards.
MayReset == ~archived /\ ~ws.pub /\ Retryable

Reset ==
    /\ Runs("retry", "act")
    /\ LET fresh == [Head(lock) EXCEPT !.at = "evidence", !.then = "end"] IN
       \/ /\ ~MayReset /\ lock' = Tail(lock) /\ UNCHANGED <<ws, load>>
       \/ /\ MayReset /\ ws.evidence = 0 /\ ws.answer = 0 /\ Holds(fresh) /\ UNCHANGED <<ws, load>>
       \/ /\ MayReset /\ (ws.evidence # 0 \/ ws.answer # 0)
          /\ ws' = [ws EXCEPT !.evidence = 0, !.answer = 0, !.rev = @ + 1]
          /\ \/ Holds(fresh) /\ UNCHANGED load
             \/ Breaks
    /\ UNCHANGED <<jobs, notices, outside, people, server>>

\* The workspace is read (GET research-workspaces): `reconcile'.
Read ==
    /\ load.reads /\ (NeedsAnswer \/ NeedsPublish) /\ \A i \in DOMAIN lock : lock[i].do # "read"
    /\ lock' = Append(lock, Op("read", "pass", "end", 0, "none"))
    /\ UNCHANGED <<durable, outside, people, server, load>>

-----------------------------------------------------------------------------
(* The finding that follows the request.                                   *)

\* A member explores a decision with the request: its stage first.
Follow ==
    /\ ws.made /\ finding = "none" /\ Spend("follows")
    /\ lock' = Append(lock, View("follow"))
    /\ UNCHANGED <<durable, outside, people, server>>

\* `sweep', when the document is opened.
Sweep ==
    /\ finding \in {"running", "failed"} /\ \A i \in DOMAIN lock : lock[i].why # "sweep"
    /\ lock' = Append(lock, View("sweep"))
    /\ UNCHANGED <<durable, outside, people, server, load>>

\* `request', and what each reader does with the stage.
Viewed ==
    /\ Runs("view", "end") /\ lock' = Tail(lock)
    /\ LET why == Head(lock).why
           snap == [stage |-> Stage, stop |-> why \in {"stop", "refused"}] IN
       \/ why = "follow" /\ seen' = Stage /\ UNCHANGED told
       \/ /\ why # "follow" /\ UNCHANGED seen
          /\ told' = IF \/ why = "settle" /\ Stage \notin {"ready", "failed"}
                        \/ why = "refused" /\ Stage \notin Final
                     THEN told ELSE told \cup {snap}
    /\ UNCHANGED <<durable, outside, finding, server, load>>

\* changeFindings, then settleResearch with the stage read before.
Store ==
    /\ seen # NoStage
    /\ finding' = "running" /\ seen' = NoStage
    /\ told' = told \cup {[stage |-> seen, stop |-> FALSE]}
    /\ UNCHANGED <<durable, outside, lock, server, load>>

\* Mutation: a finding that failed does not follow a retry.
SettledOnce(f, stage) ==
    IF f # "running" \/ stage \notin Final THEN f ELSE IF stage = "cancelled" THEN "stopped" ELSE stage

\* settleResearch.
Settled(f, stage) ==
    CASE f \in {"running", "failed"} /\ stage = "ready" -> "ready"
      [] f = "running" /\ stage = "failed"              -> "failed"
      [] f = "running" /\ stage = "cancelled"           -> "stopped"
      [] OTHER                                          -> f

\* settleResearch with a snapshot; `stop' then ends what is still running.
Deliver(s) ==
    /\ s \in told /\ told' = told \ {s}
    /\ LET f == Settled(finding, s.stage) IN
       finding' = IF s.stop /\ f = "running" THEN "stopped" ELSE f
    /\ UNCHANGED <<durable, outside, seen, lock, server, load>>

-----------------------------------------------------------------------------
(* The document, the process.                                              *)

Edit    == Spend("edits") /\ doc' = doc + 1 /\ UNCHANGED <<durable, archived, people, lock, server>>
Archive == /\ ~archived /\ Spend("archives") /\ archived' = TRUE
           /\ UNCHANGED <<durable, doc, people, lock, server>>

\* restoreChannelLocked.
Restore ==
    /\ archived /\ archived' = FALSE
    /\ lock' = lock \o Recovering
    /\ UNCHANGED <<durable, doc, people, server, load>>

\* scheduleResearchRecovery.
Timer ==
    /\ timer /\ timer' = FALSE
    /\ lock' = lock \o Recovering
    /\ UNCHANGED <<durable, outside, people, calls, boot, load>>

Crash ==
    /\ load.crashes > 0 /\ load' = [load EXCEPT !.crashes = @ - 1, !.cut = TRUE]
    /\ lock' = <<>> /\ calls' = {} /\ seen' = NoStage /\ told' = {} /\ timer' = FALSE
    /\ boot' = "pending"
    /\ UNCHANGED <<durable, outside, finding>>

\* recoverPendingPlannerInline at startup.
BootPending ==
    /\ boot = "pending" /\ boot' = "terminal"
    /\ lock' = lock \o Recovering
    /\ UNCHANGED <<durable, outside, people, calls, timer, load>>

\* listTerminalRecovery: the job that ended a placed request.
TerminalJob ==
    CASE ws.ref # "placed"                                   -> {}
      [] State(ws.answer) = "failed"                         -> {ws.answer}
      [] State(ws.answer) = "completed" /\ ws.pub            -> {ws.answer}
      [] State(ws.evidence) = "failed"                       -> {ws.evidence}
      [] OTHER                                               -> {}

\* recoverTerminalPlannerInline; then the runner starts.
BootTerminal ==
    /\ boot = "terminal" /\ \A i \in DOMAIN lock : lock[i].do # "recover"
    /\ boot' = "none"
    /\ calls' = calls \cup IF archived THEN {} ELSE TerminalJob
    /\ UNCHANGED <<durable, outside, people, lock, timer, load>>

-----------------------------------------------------------------------------
\* What the holder of the lock does next.
Step ==
    \/ Place \/ Evidence \/ Link \/ EnsureAnswer \/ Publish \/ Reconciled \/ Leaves
    \/ Announce \/ CancelActive \/ Cancelled \/ Reset \/ Viewed

Next ==
    \/ Step \/ Fails
    \/ Start \/ Cancel \/ Retry \/ Read \/ Follow \/ Sweep \/ Store
    \/ \E j \in 1 .. Len(jobs) : JobChanged(j) \/ \E s \in States : JobEnds(j, s)
    \/ \E s \in told : Deliver(s)
    \/ Edit \/ Archive \/ Restore \/ Timer \/ Crash \/ BootPending \/ BootTerminal

Spec == Init /\ [][Next]_vars

\* The process goes on, its jobs end, and documents are opened again; nobody need read a
\* workspace, retry or cancel.
Fairness ==
    /\ WF_vars(Step) /\ WF_vars(Store) /\ WF_vars(Timer)
    /\ WF_vars(BootPending) /\ WF_vars(BootTerminal)
    /\ WF_vars(\E j \in 1 .. Len(jobs) : JobChanged(j))
    /\ WF_vars(\E j \in 1 .. Len(jobs) : JobEnds(j, "completed") \/ JobEnds(j, "failed"))
    /\ WF_vars(\E s \in told : Deliver(s))
    /\ WF_vars(Sweep)

LiveSpec == Spec /\ Fairness

\* The same, and somebody reads the workspace while there is something left to do.
ReadSpec == LiveSpec /\ WF_vars(Read)

-----------------------------------------------------------------------------
\* A request has one attempt at a time: retries, replays, recoveries and the reconciliations
\* that find work half done never have two of its jobs running.
OneAttempt == Cardinality({j \in 1 .. Len(jobs) : jobs[j].state = "active"}) <= 1

\* What is published is the linked answer, completed and of the current generation, to the
\* linked evidence; and no retry takes it back.
PublishedIsAnswered ==
    ws.pub => /\ State(ws.answer) = "completed" /\ Current(ws.answer)
              /\ State(ws.evidence) = "completed" /\ Current(ws.evidence)

\* The link of a job is the head's next write, and what it found still holds: nobody linked
\* another, or the answer's evidence is complete.
LinkInv ==
    \A i \in DOMAIN lock : lock[i].at = "link" =>
        /\ i = 1 /\ lock[i].new \in Of(lock[i].role) /\ Current(lock[i].new)
        /\ lock[i].role = "evidence" => ws.evidence = 0
        /\ lock[i].role = "answer" => NeedsAnswer

\* A role's jobs are enqueued at growing revisions of the row.
KeysInv ==
    /\ \A j \in 1 .. Len(jobs) : jobs[j].rev <= ws.rev
    /\ \A j, k \in 1 .. Len(jobs) : jobs[j].role = jobs[k].role /\ j < k => jobs[j].rev < jobs[k].rev

\* Linked jobs are the newest of their role, and an answer has its evidence.
LinkedInv ==
    /\ ws.evidence # 0 => ws.evidence \in Of("evidence") /\ Current(ws.evidence)
    /\ ws.answer # 0 => /\ ws.answer \in Of("answer") /\ Current(ws.answer)
                        /\ State(ws.evidence) = "completed"

\* A running job is the newest of its role and the one that is linked, or will be.
ActiveInv ==
    \A j \in 1 .. Len(jobs) : jobs[j].state = "active" =>
        /\ Current(j)
        /\ jobs[j].role = "evidence" => ws.answer = 0 /\ ws.evidence \in {0, j}
        /\ jobs[j].role = "answer" => ws.answer \in {0, j} /\ State(ws.evidence) = "completed"

\* What a job's change leads to is about a job that ended, and only the head acts on it: on
\* what it has reconciled.
ChangedInv ==
    /\ \A j \in calls : State(j) # "active"
    /\ \A i \in DOMAIN lock :
          /\ lock[i].at = "act" => i = 1
          /\ lock[i].do = "changed" =>
                /\ lock[i].job \in 1 .. Len(jobs) /\ State(lock[i].job) # "active"
                /\ lock[i].at = "act" /\ ~load.cut => ~NeedsPublish \/ lock[i].job # ws.answer

\* A finished answer's notice is posted, or on its way.
DueInv ==
    ~load.cut => \A j \in Of("answer") : State(j) = "completed" =>
        \/ j \in calls
        \/ [stage |-> "ready", job |-> j] \in notices
        \/ j = ws.answer /\ \E i \in DOMAIN lock : lock[i].do = "changed" /\ lock[i].job = j

\* Whoever heard of a report heard of one that is there.
HeardInv == seen = "ready" \/ (\E s \in told : s.stage = "ready") => ws.pub

\* One attempt at a time, whose answer is what is published.
ResearchInv ==
    /\ TypeOK /\ OneAttempt /\ PublishedIsAnswered
    /\ LinkInv /\ KeysInv /\ LinkedInv /\ ActiveInv /\ ChangedInv /\ DueInv /\ HeardInv

\* The Chat and the decision are told the truth and at last: a notice names the job that
\* ended the request that way, a ready finding has a report, and once everything that was
\* under way is over, the report of a request that nothing cut short has its notice (one that
\* ended before its card was placed waits for the next start of the server).
ToldTruly ==
    /\ \A n \in notices : /\ n.stage = "ready" => ws.pub /\ n.job = ws.answer
                          /\ n.stage = "failed" => State(n.job) = "failed"
    /\ finding = "ready" => ws.pub
    /\ lock = <<>> /\ calls = {} /\ ~load.cut /\ ws.pub /\ ws.ref = "placed"
       => [stage |-> "ready", job |-> ws.answer] \in notices

\* A request ends: ready, failed or cancelled.  What a crash or a failed call cut short is
\* started again when the Planner placed it (unless a call failed), and otherwise waits only
\* for an answer or a publication that the next read or retry makes good.  A finding does not
\* stay behind its request.
RequestEnds ==
    /\ []<>(\/ ~ws.made \/ archived
            \/ Stage \in Final /\ (ws.evidence # 0 \/ ws.ref = "none" \/ load.failed)
            \/ load.cut /\ (NeedsAnswer \/ NeedsPublish))
    /\ []<>(/\ finding = "running" => Stage \notin Final
            /\ finding = "failed" => Stage # "ready")

\* docs/background-jobs.md: "Reconciliation runs after completion and on a later request
\* read, so interruption cannot require a second child or a manual repair."  With somebody
\* reading it, a request comes to an end.
NoManualRepair == []<>(~ws.made \/ Stage # "active")
=============================================================================
