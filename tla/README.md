# Chopin: a TLA+ verification project

Chopin is a collaborative planning service: people and an AI Planner write a document
together, ask and answer questions, launch research and builds, and keep everything in
PostgreSQL. One server process writes at a time; browsers hold optimistic copies of the
document; long work runs as durable background jobs under the credential of a channel's
Planner owner. The project models the parts of that system whose correctness depends on the
order in which several actors act. Source paths are relative to `src/`.

## 1. Inventory

| component | state | operations | interacts with | what makes it correct |
|---|---|---|---|---|
| writer lease (`apps/server/src/storage/writer-lease.ts`, `#acquire`, `#renew`, `#assertLease` of `storage/postgres/adapter.ts`, startup and `drain` of `main.ts`) | the row of `storage_leases` (owner, fencing, expiry); in the process `held`, the watchdog, one renewal in flight | acquire, renew, release, fenced write, session reset, watchdog, signal, crash | every durable write | no write of an earlier holder after a later one's; a holder never believes in a lease longer than it has it |
| channel rows (`#load`, `#commit`, `#checkpoint`, `#replace`) | revision, next sequence, checkpoint, update journal, operation ids | load, commit, checkpoint, replace | lease (fence), plan service | the rows always restore; a repeated operation is not written twice |
| collaborative document service (`plan/service.ts`, `plan/room.ts`) | the open document, epoch, queue of updates, the promise chain `flushing`, rebuild point, persistence counters | submit, apply, commit, acknowledge, reject and rebuild, publish, correct the title, checkpoint, close, open, greet | rooms, channel rows, providers | nothing acknowledged is lost, nothing uncommitted is shown, all converge |
| browser provider (`packages/editor/src/provider.ts`) | outbox, epoch, merge counter, opening, timers | local edit, flush, merge, resend, park, settle, open, replay, reset, discard | browser connection, service | an edit leaves the outbox only when it is durable |
| browser connection (`apps/web/src/wire.ts`, `wire.ts`) | sockets | connect, send, receive, relay, broadcast, lose | everything interactive | order per socket |
| background jobs (`jobs/*.ts`, `storage/postgres/jobs.ts`) | job rows, target generations, artifacts; in the process attempts, pump, owner slots | enqueue, claim, renew, settle, requeue, pause, resume, fail, cancel, shutdown | active owner, research, document deletion | one claim at a time decides a job; budgets and limits hold; work is neither lost nor stuck |
| rooms and sockets (`rooms.ts`, `main.ts`) | room objects, members, the attached document, opening and closing promises, holds, eviction timers, the document lock | join, leave, open, evict, hold, archive, restore, delete, detached work, Planner tools | document service, Chat | one open document per channel; nobody is in a forgotten room; nothing waits for ever |
| chat turns (`chat/service.ts`, `job-queue.ts`, `job-fence.ts`) | transcript, queue, the running turn, drafts, the job in Chat | send, invoke, instruct, draft, hand over, stop, cancel, close | rooms, jobs, comments | one turn at a time, in order; a retried message is heard once; everyone who waits is told one true outcome |
| authentication and sessions (`auth/session.ts`) | logins in memory, their rows, shared restores and refreshes, pending deletions | issue, restore, refresh, use, reject, sign out, clean up | active owner, holds | a refresh token is used once; a signed-out login does not come back |
| active owner (`agent/active-owner.ts`) | the owner row, bindings, revoked logins and credentials | claim, reset, resolve, revoke, rotate | sessions, jobs, chat | no work continues on a revoked or foreign credential |
| remote Planner link (`harness/remote/`, `packages/agent-link`) | the hold, the attached link, kept work, owed Stops, open questions | attach, take over, drop, resume, stop, resume a run, ask, answer, acknowledge | sessions, rooms | one link is the Planner; nothing a person pressed or answered is lost or undone by a drop |
| research (`research/service.ts`) | requests, their evidence and answer jobs, the published report, notices | start, place, enqueue and link, publish, cancel, retry, recover | jobs, document, Chat, findings | one attempt at a time; its answer is what is published; a request ends |
| questions, decisions, comments (`questions/`, `comments/`) | questionnaires, findings, threads, answer turns | ask, answer, explore, stop, settle | chat, research, document anchors | an answer reaches the turn that asked, once; a finding does not stay behind its work |
| conversation plan (`conversation-plan/`) | effect outbox, follow-ups | record, deliver, recover | chat, document, research | every recorded effect takes place once |
| tasks, builds, experiments (`tasks/`, `experiments/`) | implementation lifecycle, machines | start, report, stop, recover | document gate, connector | one active implementation; edits blocked exactly while it runs |
| connector (`apps/connector/src/`) | connection state, process supervision | connect, reconnect | remote Planner link | the client's side of the link, see there |
| MCP surface, dialect, editor, web interface | request-scoped or rendering state | - | - | outside this project, see section 8 |

Hard behaviours: two server processes during a deployment, with statements that outlive their
process; replies lost with their socket; renewals, timers and pauses that act on state read
before an await; batches rejected while other updates wait; crashes between a commit and its
acknowledgement; claims that expire under a stalled attempt; rooms that close while somebody
joins; turns, drafts and cancellations that meet around a save; requests that share one
refresh of a credential; presses and answers that cross a drop of the link; a job that is
enqueued and not yet linked when the process dies. `PROJECT.json` lists each under
`hazards` with its line and the properties aimed at it.

## 2. Plan

Order in which the system is modelled: the lease (everything durable rests on it), the
collaborative document over its rows, background jobs, rooms, Chat, logins with the bindings
of the Planner's owner, the remote Planner's holds and link, research requests with the
findings that follow them. What is left, in order:

1. `Questions`: the questionnaire's lifecycle and its answer turns, on the queue of
   `ChatTurns`; then comment threads, which follow it.
2. `EffectOutbox`: the conversation plan's recorded effects and their recovery.
3. `TaskLifecycle`: the implementation and its gate of the document service; experiments.

Composition. `OwnerBindings` EXTENDS `LoginSessions` and adds to each of its steps what the
hooks in `main.ts` do. `PlanSync` composes the rows, the provider and the service.
`ResearchRequests` takes from `BackgroundJobs` that a job ends and changes once, and that a
key names one job. `BackgroundJobs` takes from `WriterLease` that processes do not overlap.

Abstract specifications: `FencedLog`, implemented by `WriterLease` (checked and proved). Worth
stating next: `JobBoard` (a job is taken, dropped or decided once), implemented by `BackgroundJobs`.

Theorems: the safety properties of `WriterLease`, `BackgroundJobs`, `PlannerHolds`, `PlannerLink`,
`PlanSync`, `ResearchRequests`, `OwnerBindings`, `Rooms` and `ChatTurns`, and the refinement of
`FencedLog`, are proved (section 6). What is left to TLC is in section 7.

## 3. Modules

`MC*` modules give the constants their values, and the *loads*: each behaviour starts with one
record of a small set that says how often each kind of event may happen in it (`load`, counted
down). So one run checks several small workloads, each around one group of hazards, instead of
their product, which TLC could not finish.

### WriterLease, FencedLog, LeaseAndChatProofs

The database: `owner, fencing, expires` are the row; `locker`, `takers`, `writer`, `requests`
and `backends` are the row locks and the statements that wait for them. `LockForUpdate`/`Take`
are `#acquire`, `AssertLease`/`CommitWrite`/`AbortWrite` a fenced transaction (KEY SHARE lock,
check, commit), `RenewLock`/`RenewCommit`/`RenewAbort` a renewal as the database runs it, which
may be after its process has given up on it. The process: `RenewSend`, `Renewed`,
`RenewFailed`, `Watchdog` are `writer-lease.ts`. `pc` is how far startup has come (`Acquire`,
`Hold`, the reset, the drop of child conversations, `Start`), `down` how far `drain` has (`Stop`,
`Release`, `ReleaseCommit`): a signal begins `drain` beside a startup that still runs, and neither
looks at the other, but that `drain` waits for the session reset.

Notes. One variable `now` stands for both clocks, because each is only used for durations; a
statement reads the clock at any moment between getting its lock and committing. Timers can be
arbitrarily late. A reply that arrives after the watchdog fired sets `held` again, as in the
code, but the process is already draining. Startup's two fenced writes, the reset and the drop
(`kind` of a request), are sent by startup and awaited; if one fails, startup releases and exits.
A release is sent in one step and takes effect in another, also after its process has ended.

`FencedLog` is what the lease promises to everything that is stored: terms are granted one
after the other, and an entry is appended in the current term by its holder. Under
`ImplementsFencedLog` the row's owner and fencing number are the holder and the term, and the
committed writes the log; a statement that waits, a renewal and a reply are stutters.

### ChannelJournal, PlanProvider, PlanSync, PlanSyncProofs

`ChannelJournal` is the channel's transactions as operators on one record; `PlanProvider` is
the provider as operators on one record; `PlanSync` composes them with the service and the
sockets. A document is the set of edits it has received. An edit names what it builds on, and
is shown only once that is there (Yjs's pending structs); some edits do not validate. Every
mutation of a plan runs in the chain `flushing`, so `phase` is where the one operation in the
chain stands, and each await is a point where another action may come in: `Apply` (validate
and stage), `CommitRows`, `CommitState` (a repeated operation), `Acknowledge`; after a
rejection `Rebuild`, `ReplaceRows`, `AnnounceReset`; `Publish` and `CorrectTitle` are the
server's own edits, `CheckpointRows` the timer, `Close` the eviction, `Restore` the opening.

Notes. Updates are far below `MERGE_BYTES`, so one merge gives one entry, and the order of the
outbox (a Map by id) decides nothing: it is a set of entries. The journal is a set of rows.
`mine` and `gen` are ghosts of a provider: what was made through it, and which one of its tab
it is; `past` is what was made through a tab's discarded ones, and what `onReset` reported lost of
it. Presence, anchors, archive and the title's initial replacement are left out; the implementation gate appears as a
refusal. A provider that is reset discards its document and remounts in one step. The group
timer is untimed. The epoch of a queued item and the edits named by an ack are ghosts.

### BackgroundJobs, BackgroundJobsProofs

`rows`, `target`, `artifact` are the tables. `LockClaim` and `LockControl` are the two checks
every transition makes. `claimed` is what the pump has claimed and not yet started
(`#drain`, `#start`, `#requeueClaim`). An attempt goes through `resolve` (credential), `bind`
(renewal and owner slot), `run`, `settle`, or `stopping` when `#execute` itself waits for a
stop to be written, then `done`. `stop` is the write still to be made for it: a pause, a
requeue, a counted retry, a failure, or the recovery of a lost heartbeat. A stop asked for
from outside can outlive its attempt (`#start`'s `finally` awaits the writes queued at that
moment only): `late` holds those. `notices` are commits whose reply has not reached
`notify` yet. `ownerAvailable` is `OwnerAvailable`, `List` and `Resume`.

Notes. Delays before a retry are dropped: a pending job may be claimed at any time. A
revision is identified by the row's state and claim generation, since only the claim's own
attempt writes a running row without changing its state; so a renewal that succeeds is a
stutter. Revalidation agrees with `owner`. A crash or shutdown is followed by a process with
a new claim owner and no channel owner, as `sessions.reset` leaves it; that processes do not
overlap is what `WriterLease` establishes.

### Rooms, RoomsProofs

One document's room. Room objects are numbered, because an operation may keep one that the map
has forgotten (`current` is the one in the map). `lock` is `withDocumentLock`'s queue, whose
head runs; `trans` is the one transition in progress (server work with a hold, archive,
restore, delete). `Join` and `Leave` are the sockets, `Ask`/`Greet` a `plan:open`, `Evict` and
`Fire` the timer, `OpenStart`/`OpenEnd` and `CloseStart`/`CloseEnd` `plan` and `closeRoom`,
`Detach`... the openings without a socket, `TurnStart`, `ToolCall`, `ToolRun` the Planner's
turn and its tools, which wait for the same lock. Continuations of a promise that settled run
before any other event (`Pending`).

### ChatTurns, LeaseAndChatProofs

One document's Chat. `sending` is the promise chain of sends, invocations and drafts, `saves`
the commits in the order they were asked for, with what runs when each ends; `run` says where
the turn of an item is (handed over, working, being saved, being reported). A failed save is
`fatal` and stops the server, as in the code. The Planner's own work is one step with four
outcomes. Notes of one comment thread fold into one instruction.

### LoginSessions, OwnerBindings, OwnerBindingsProofs

`LoginSessions` is `auth/session.ts` for a few logins and requests: `mem` and `row` are an
entry and its row, `restore`, `refresh`, `revoking`, `pending` the shared promises and the
deletions to be repeated, `github` the refresh token GitHub would accept. An access token ages
in three steps. A request goes through finding the login, rotating, its call to GitHub, and a
retry after a 401. `signedOut` says of each sign-out that was answered whether its request had seen
the row go or took another's revocation for it. `OwnerBindings` adds the channel's owner, its generation and the bindings;
`Hooks` is what `beforeRefresh` and `onRevoked` do in the same step as the login's. A reset clears
the owner and then tells the bindings (`ResetClear`, `ResetDone`); it may also fail, or commit and
lose its reply, and the attachments clear an owner without telling them (`ResetFails`,
`AttachmentClears`): `unheard` holds the generations that ended so.

### PlannerHolds, PlannerHoldsProofs, PlannerLink, PlannerLinkProofs

`PlannerHolds` is `attachments.ts` with the endpoint's checks: `doc` has the hold and the state
of each link, `queue` and `op` are `#serialized` and the operation under way with what it has
read, step by step (`Login`, `Access`, `Read`, `Check`, `Claim`, `Hold`, `Undo`). `ResetLost` is the
reset route whose clear commits and whose reply is lost, so that the hold is not told (`unheard`).
`PlannerLink` is what the successive links of one session carry: `srv` the server's end (owed
and held Stops, requests that wait or are late, questions), `toC`/`toS` the messages of the
client's latest link, `crun`, `doing`, `ask` the client. `Break` loses what is on its way; each
end notices in its own time. `aim`, `told`, `heardTo`, `resumedTo`, `resumedBy` are ghosts.

### ResearchRequests, ResearchRequestsProofs

One request. `ws` is its row and its initial turn, `jobs` its evidence and answer jobs in order
of their generations, each with the row's revision and the document it quotes: the idempotency
key and the fingerprint. `lock` is `#exclusive`: an operation, and how far it is. `Enqueue` and
`Link` are two transactions, as in `#ensureEvidence` and `#ensureAnswer`; `EnsureAnswer`,
`Publish`, `Reconciled` are the passes of `#reconciled`; `JobEnds` and `JobChanged` the runner
and the look-up that follows; `Crash`, `BootPending`, `BootTerminal`, `Timer`, `Restore` the
recoveries. `Follow`, `Store`, `Viewed`, `Deliver`, `Sweep` are the decision's finding. The
states pending, paused and running of a job are one, `active`; only the initial turn is there.
`load.cut` is a ghost: a crash, a failed call or a report that was not for the Chat yet
(`Unplaced`) has cut the request's way short.

## 4. Runs

| run | what it checks | loads |
|---|---|---|
| `writer_lease` | `WritesFenced`: committed writes carry non-decreasing fencing numbers. `NoLateWrite`: a write commits only under the number the row has now. `OwnedUntilDeadline`: an armed holder owns an unexpired row until `Safety` after its deadline, or its own release. `LeaseInv`: the invariant the proofs use, with `ReleasedStaysFree`: what a process still has on its way does not take its released row again. `ImplementsFencedLog`: the refinement. | 2 processes, TTL 2, margin 1, time to 3, 3 writes (startup's two among them), 1 renewal at a time in the database |
| `jobs` | `JobsInv`: one active job per target, of its current generation; the failure budget; both concurrency limits. `ArtifactOfLastClaim`: only the last claim publishes. `WaitingJobsAreIdle`: a late stop never hits a newer claim. `TerminalIsFinal`. `JobsSettle`: a runnable job is decided or paused. | one job with 2 failed calls and a restart; with a stall and an owner change and a fault or restart; two jobs of one target with a stall or an owner change; two jobs of two targets |
| `plan_sync` | `PlanInv`: the rows restore to a valid document, the open plan is in step with them between operations, and the inductive parts of section 6. `SeenDurable`: a tab shows only durable edits and its own. `Converged`: idle tabs and server show the same. `NothingLost`: an edit is in its author's outbox, in the rows, or was reported lost when its document was discarded. `CommittedStays`: no rejection takes a committed edit out. `Settles`: the outbox keeps emptying. | 2 edits, outbox 2, 2 sends: 2 tabs; 1 tab with a lost socket, a refusal, a crash, or rejections through 3 epochs |
| `rooms` | `RoomsInv`: a document belongs to one room or task, one is open, nobody is in a forgotten room; with what makes that inductive (section 6). `GivenPlanStays`: who was given the document keeps it. `MemberStays`: a reload stays a member. `WaitsEnd`: every `plan:open` and closing ends. `UnusedIsForgotten`. | 3 sockets of 2 tabs; 2 sockets with a transition and a turn or a failure; 1 socket with 2 transitions, a turn, a detached opening and a failure |
| `chat` | `ChatInv`: one turn, saved before it runs, the queue's bound. `ExactlyOnce`: a retried message is in transcript and queue once. `OutcomesHold`: one outcome each, and a cancelled job is never done. `NothingWaits`. | 3 to 4 of 2 messages (one sent twice), an invocation, 2 instructions, a job, a draft, with at most one failed save; queue 2 |
| `owner` | `OwnerInv`: no refresh token twice, memory and row in step, a login being revoked is in nobody's hands. `SignedOutStaysOut`: a sign-out that saw the row go is final; one that took another's word leaves the login gone or blocked, while the process lives. `BoundIsCurrent`, `BoundIsOwner`: what is bound has the login's current credential and the row's owner. `RequestsEnd`. | 2 or 3 requests on one login with one or two sign-outs, a fault or a 401; a login refused twice; a binder beside a sign-out with claims and a reset that may fail; a machine's login; a handover |
| `link` | `LinkInv`: a Stop stays owed, a waiting client is owed its answer; with what makes that inductive (section 6). `ResumedStaysResumed`. `AnswerNotCancelled`. `Arrives`. | 2 runs with 2 or 3 presses over 2 or 3 links, 2 time-outs; 2 questions with an end; one of each |
| `holds` | `HoldsInv`: one bound link, which is the hold's; what a drop kept is with the hold and has no deadline. `HoldIsBacked`: by a live login and the row. `HoldsSettle`: every attach is answered, an abandoned hold ends, and none stays attached without the row. | 3 links of one browser login; a browser, a machine and a rival; 2 links of a machine, or a browser and a machine, with a reset (also one whose reply is lost) and an archive |
| `research` | `ResearchInv`: one attempt at a time; what is published is the completed, current, linked answer, and stays. `ToldTruly`: notices and findings tell the truth, and a ready request that nothing cut short has its notice. `RequestEnds`: the request ends and its finding follows. | a retry with a failed call, with a finding, with a cancellation, with a crash and reads; a finding that is stopped; two cancellations and an archive; a replay, a deferral, an archive and a crash; a deferral, a replay and a retry; an edit and a failed call |

The loads are the smallest in which the hazards happen: two processes for a takeover, two tabs
for a relay, two edits for one to build on or be merged with another, two epochs for a rejected
batch, two claims for a stale attempt, three sockets for a reload beside another tab, a message
sent twice, three requests for two that share a refresh beside a sign-out, three links for a
drop of the link that resumed another. Every bound that could hide a step is either out of
reach or excused: a job alone is claimed at most 13 times, below its bound of 14, and
`JobsSettle` excuses a job of the other loads that has used its claims up; the rooms of a load
are at most its sockets and transitions, so three suffice; `Settles` excuses a tab of which an
update was refused (the code parks it until the next open) and the last epoch of a load.
Deadlock is not checked: a bounded run, or a system with nothing to do, stops.

Other exceptions the properties make. `UnusedIsForgotten` leaves out a closing that failed, and
sockets that were superseded and are still connected. `Converged` is about the first epoch: a
rejected batch leaves queued updates that their sender no longer has (below). `NothingLost` is
about what a tab made through its first provider, and through a later one up to its first merge,
also after the provider was discarded; `plan_sync_rejected` shows what can happen after that merge.
What a discard reports lost is all that is still in the outbox, durable or not, as `#discard` does
(`lost` is one flag). `OwnedUntilDeadline` ends where the process sends its own release, because
startup may start the timers after it (below). `BoundIsOwner` and `HoldIsBacked` leave out a generation whose owner was
cleared where nobody tells them: by a reset that took its clear for failed and, for the bindings,
by an attachment; `HoldsSettle` shows that a link does not stay attached so. `SignedOutStaysOut`
leaves out a sign-out that took another's word for a deletion that the process did not live to
repeat (below). `RequestEnds` allows a
request that a crash or a failed call left between its evidence and its answer, or between its
answer and its publication: only a read or a retry takes it up. `ToldTruly` does not demand the
notice of a request whose service call failed or whose publication found no database: the code
publishes it later without one, until a restart. Nor does it demand the notice of a report that
was ready before its card was placed (below).

Each property has a mutant in `PROJECT.json`: an operator changed the way a slip in the code
would change it (a bare UPDATE instead of FOR UPDATE, a merged entry that keeps an old id, a
claim check without the generation, a room forgotten under a member, a failed finding that
does not follow a retry), on which TLC finds the property violated.

### Disagreements between code, comments and docs

Three runs are expected to fail, each stating what the repository says.

- `rooms_forgotten` (`OneDocumentEver`): `plan` waits for `room.closing` and goes on with its
  room object although the closing has forgotten it; the next join opens a second document.
  `main.ts:526`: two clients "must not build two documents".
- `research_stuck` (`NoManualRepair`): an answer job is enqueued and, before it is linked, the
  process dies; the job ends and the document is edited. Every later reconciliation enqueues
  under the same idempotency key with another document in its input, and storage refuses it;
  reads, retries and cancellations all reconcile first, so the request stays active.
  `docs/background-jobs.md:629`: "interruption cannot require a second child or a manual repair".
- `plan_sync_rejected` (`SettledByOwn`; one tab, four edits, two epochs): `rejectBatch` leaves
  queued updates in the queue; they are committed in the next history and acknowledged on the
  same socket, where the tab has a new provider by now. Merged ids (`merged-<counter>`) start
  again with every provider and `#settle` looks at the id alone, so the acknowledgement takes the
  new provider's entry out of its outbox, edits that were never sent. It takes an open that
  enters the chain before that commit, that is within `GROUP_MS` (5 ms) of the queued update,
  and edits made while the commit is being written. `provider.ts:190`: a merged entry "is only
  settled by its own" acknowledgement.

Others that the models show and that have no run of their own:

- A signal during startup begins `drain`, which stops the lease and, once the session reset is over,
  releases it. Startup goes on (`main.ts:2926`), drops the child conversations if the release has
  not committed yet, and calls `writerLease.start()` (`main.ts:2947`) without looking at `draining`:
  the watchdog and the renewals are armed after they were stopped, over a row that is being
  released or is released, although `writer-lease.ts:69` says a stopped owner "has cleared the
  deadline for good". The process exits soon after, and the released row refuses its renewals
  (`ReleasedStaysFree`), so what it can cost is a "lost the lease" on the way out. The model has
  these steps, and `OwnedUntilDeadline` its exception because of them.
- Two sign-outs of one cookie right after a restart share a restore and get the same entry; the
  second finds that the first took it out of memory (`auth/session.ts:807`) and is answered 204
  while the first's deletion may still fail. If it does and the process dies before the clean-up,
  the row restores the login. `docs/authentication.md:403`: logout "deletes the durable row before
  reporting success". A load of `owner` has these steps; `SignedOutStaysOut` says what remains true.
- `liveDraft` (`chat/service.ts:1188`) sees neither a queued nor a running draft while its
  hand-over is being saved, so a second request starts a second draft turn, although
  `chat/service.ts:1212` says collaborators opening Build together start one.
- When a hand-over's save fails or the Chat closes meanwhile, an instruction's `ended` is never
  called (`chat/service.ts:2668`), although `chat/service.ts:167` promises `skipped`.
- The answer to an older Resume deletes a newer, unanswered Stop of the run (`#undoStops`,
  `link.ts:426`); if the link then drops, the person was told it "stays owed" and nothing is
  kept. `StopNotLost` therefore allows what an answered Resume has undone.
- A reset of the Planner owner whose clear commits and whose reply is lost answers with a failure and
  tells neither the bindings nor the attachment (`channels/routes.ts:798`); the attachment ends at
  its next recheck, a binding when it is released or revalidated or its credential ends. An attachment
  that clears an owner (`attachments.ts:588`, `:672`) does not tell the bindings either.
- An attach that passed the endpoint's archive check (`endpoint.ts:235`) binds after
  `documentEnded` has run, although `attachments.ts:328` says nothing may attach; the periodic
  recheck ends it.
- `rejectBatch` leaves `plan.queue` as it is, so an update admitted under one epoch is
  committed under the next (`plan/room.ts:113` says it is rejected), and acknowledged to a tab
  whose new document never had it (`wire.ts:105`).
- `ownerAvailable` lists once; a pause written after the list leaves the job paused with an
  owner present until it is called again (`main.ts:428`).
- The request route (`research/routes.ts:469`) reads a request without reconciling it, unlike
  the workspace route; a start whose placement is deferred schedules no recovery, so it waits
  for a restart, a restore or another deferral's timer.
- A start whose placement is deferred may be retried by hand, and its report be ready, before
  the card is placed. `jobChanged` posts no notice then (`research/service.ts:1072`) and the
  placement that follows posts none either, so the notice waits for the next restart
  (`recoverTerminalPlannerInline`). No comment promises more.
- The comment on the rebuild point in `room.ts` says it is refreshed at snapshots; the code
  refreshes it at every commit, and `CommittedStays` depends on that. `docs/channels.md` says
  closing is not serialised against reopening; the code does serialise it.

## 5. Fairness

Safety properties need none. Where a run has a liveness property, weak fairness is assumed of
what the process does by itself, each as one action or as the alternatives of one await:

- storage and GitHub calls return or fail, promises settle, microtasks run, timers fire, a
  socket that is up delivers, and a browser or client keeps trying to reconnect;
- the job pump polls while it runs, executors are cut off at their time limit (`#execute`
  races them with a timer), an unrenewed claim runs out, a process that ended is started again;
- Planner turns end (`chat`, `rooms`: sessions time out); a server that could not save shuts
  down and closes its documents;
- a research job ends (what `JobsSettle` shows of a job with an owner), and a document with an
  open finding is opened again from time to time, which is when the findings are swept;
- in `holds`, the grace timer is strongly fair: links come and go while it is armed and
  cancelled, and it is enabled again each time.

Nothing is assumed of people (typing, joining, pressing, answering, reading, retrying),
of owners, or of faults; `NoManualRepair` alone adds that somebody reads the request.

## 6. Proofs

Every theorem is about the module's `Spec`, for all values of its constants that satisfy the
module's assumptions; no bound of a run enters. The assumptions are named in the modules and
evaluated by TLC on every run: natural numbers and finite sets, that `NoProc`, `NoClient` and
the like are nobody, `Safety < Ttl` (`LEASE_SAFETY_MS` is smaller than `LEASE_TTL_MS`),
`MaxSends > 0` and `MaxOutbox > 1`, that there is a login, and the shape of a load (that a login
may have a revision, for one). The inductive invariants are themselves among the invariants TLC
checks (`LeaseInv`, `JobsInv`, `HoldsInv`, `PlanInv`, `ResearchInv` with `ToldTruly`,
`OwnerInv` with `BoundIsCurrent` and `BoundIsOwner`, `RoomsInv` with `GivenPlanStays`,
`LinkInv`), or, like `TurnInv` of the Chat, were checked by TLC on the same loads before they
were proved.
Each has the same proof: one step per action, and under it one per conjunct the action can
disturb; properties that no action but a few can touch are first reduced to what the others
leave alone.

### LeaseAndChatProofs, the lease

The module has the proofs of both parts a document's writes go through, `WriterLease` and
`ChatTurns`; the two share no state, and neither proof uses the other.

`LeaseInvariant` (`LeaseInv`) and its consequences `LeaseTypes`, `Fencing` (`WritesFenced`),
`WatchdogSafe` (`OwnedUntilDeadline`), `ReleaseHolds` (`ReleasedStaysFree`); `TakeoverWaits` (`NoLateWrite`, an action property, from
`LockInv`); `Refinement`: `Spec` implements `FencedLog`, step by step.

`OwnedUntilDeadline` is not inductive. The deadline is armed from when a renewal was *sent*,
so one needs what a reply in flight promises (`FreshInv`: the lease lasts until
`sent + Ttl`, or that time has passed), that the promise is kept by everything the database
may still run (`LockInv`: a fenced write and a renewal keep the row's owner and number; only
one of FOR UPDATE and FOR NO KEY UPDATE is held), that clocks are read in order (`ClockInv`:
an expiry is never beyond `Ttl` after the last lock, so a late renewal never shortens one),
and the lifecycle that keeps a startup's reset and a drained process's replies apart from the
timers (`TakerInv`, `ResetInv`, `TimerInv`). A signal may begin `drain` at any point of the startup
and `start()` may follow it, so the lifecycle cannot say that a stopping process has no timers; it
says when it has none (between `stop()` and the release), that a reset in flight has nobody who
has released, and that a release is sent by a process that failed or is draining. From the last
two follows `ReleasedStaysFree`: of what is left in the database only an unexpired row can be
renewed, and only a reset extends one without looking at its expiry. `FreshInv` is about
processes that have not sent their release (`Keeps`).

For the refinement, `Take` is a new term, `CommitWrite` and `CommitReset` an append by the holder
of the current term (that is `NoLateWrite` and `LockInv`), `ReleaseCommit` leaves the log alone,
and the rest stutters.

### BackgroundJobsProofs

`JobsCorrect` (`JobsInv`), `LastClaimPublishes` (`ArtifactOfLastClaim`), `WaitingIsIdle`
(`WaitingJobsAreIdle`) and `TerminalStays` (`TerminalIsFinal`). The three invariants are
inductive only together (`JobsInvariant`) and with what ties the runner's memory to the rows:
an attempt, a claim not started yet and a stop written late each carry a claim generation, and
those of one job come in the order late < attempt < claim <= row (`AttemptInv`, `ClaimInv`,
`LateInv`); while a generation is the row's, the count of failures carried from the claim is the
row's (the budget is compared with that copy); and an attempt that is to be stopped has left
the accepting ones in the same step. With that, each check of `#lockClaim` refuses every write
of an older claim.

### PlannerHoldsProofs

`OnePlanner` (`HoldsInv`) and `HoldsBacked` (`HoldIsBacked`), inductive together
(`HoldsInvariant`). An attach reads the login, its access and the hold before it claims, and any
link may drop, park or end in between, so the argument is about what the operation under way
may still rely on (`OpInv`: it is the head of the queue and until it binds a link nothing else
does), which links the two ends of a hold name (`HoldLinks`), who waits behind whom (`MetInv`),
a grace period that has run out while its hold was taken again (`ExpireInv`), and a claim that
nothing has invalidated since being in storage (`ClaimInv`). What both the hold and the claim keep
is that their generation was the last claimed, and that only a reset nobody here was told of can
have left it without an owner (`Stands`).

### PlanSyncProofs

`PlanCorrect` (`PlanInv`), `SeenIsDurable` (`SeenDurable`), `CommittedNeverLost`
(`CommittedStays`), `EditsKept` (`NothingLost`), `TabsConverge` (`Converged`), for any tabs,
edits, rejected batches, losses, stops and refusals. Three arguments, one per group of conjuncts:

- *The chain and the rows* (`Recoverable`, `InStep`, `JournalInv`, `ChainInv`). At each await
  of an operation the document is what is durable plus the operation under way, and the rebuild
  point is what is durable; so a rejection falls back to the rows, a repeated operation has
  nothing to add, and `CommittedStays` follows. Each action's effect on the rows is first shown
  to be one of a few forms of transaction.
- *What a frame tells* (`FrameInv`, `OwnInv`, `PlainInv`). An epoch was the channel's when it was
  told; what is relayed, replied or acknowledged is durable, and remains so. Of a discarded provider
  nothing is left but what was durable or in its outbox (`PastInv`), so `NothingLost` carries over
  from the step in which it is discarded, where it is about the old provider. `NothingLost` needs
  in addition that an acknowledgement settles no more than it acknowledges: all along an
  update's way (outbox, socket, queue, batch, acknowledgement) it *covers* the entry that has its
  id. That holds of a tab's first provider, whose ids are never given twice because a merge
  takes a number from a counter that only grows (`Covers`), and of a provider that has
  merged nothing, whose ids name one edit each (`Plain`). It is false of any other, which is how
  `plan_sync_rejected` was found: the proof of an unconditional `NothingLost` fails there, and
  TLC confirmed the failure with four edits, while two show nothing.
- *What a tab has missed* (`FirstHistory`). `Converged` is about idle tabs; the invariant behind it
  about all: what the service has announced and a tab lacks is on its way to it, behind the
  reply to its open or, once it follows, behind nothing (`CatchUp`), which survives a lost
  socket because the next open is answered inside the chain.

The operators of the provider have lemmas of their own (what `Merge`, `Flush`, `Local`, `Settle`
and `Opened` keep of the edits held, the ids given and the counter), as does the greatest element
of a finite set, which community modules define by CHOOSE.

### ResearchRequestsProofs

`OneAttemptPublished` (`ResearchInv`) and `TellsTheTruth` (`ToldTruly`), inductive together
(`Invariant`), for any number of starts, retries, cancellations, edits, archives, deferrals,
faults and crashes. A step does one of six things to the row and its jobs (`RowStep`: nothing,
a job ends, is enqueued or linked, the answer is published, the attempt is reset) and one of a
few to the queue of operations (`LockStep`); each part of the invariant is shown from these two,
and each action only has to be one of each.

What makes it inductive is what `#exclusive` lets an operation rely on between two of its
transactions. The job it enqueued, or found again by its key, is still the newest of its role and
nobody linked another (`LinkInv`), which rests on keys: the row's revision grows with every
link and reset, so a key names one job (`KeysInv`). An active job is therefore the newest of
its role and the linked one or the one about to be (`ActiveInv`), which gives `OneAttempt`; an
answer has complete evidence, and a published attempt is never reset (`LinkedInv`). For the
notices, a completed answer's is posted, or its change is still to be looked up, or the
operation it queued has not announced it yet (`DueInv`); by then the operation has published
(`ChangedInv`). A finding heard of a report only after there was one (`HeardInv`).

The first attempt at this proof failed on the notice: the case that would not go through, a
report ready before its card is placed, is the one listed in section 4, and no load had
reached it. The model now marks it (`Unplaced`) and a load reaches it.

### OwnerBindingsProofs

`LoginsInStep` (`OwnerInv`), `BindingsCurrent` (`BoundIsCurrent`) and `BindingsOwned`
(`BoundIsOwner`), inductive together (`Always`), and `SignOutLasts` (`SignedOutStaysOut`), for any
logins, machines, requests and loads, any number of sign-outs at a time too. Some forty actions change a login in one of eleven ways
(`Move`: it is signed in, ages, is revoked, its row is deleted, a refresh starts, goes on, stops
or is installed, a restore looks or returns, or nothing), and a request in one (`TaskStep`). Each
action is shown to be of that form once, and each part of the invariant is shown of the form.

- *A login.* A refresh under way holds the entry that is in memory, or the login is gone for good
  (`RefreshInv`, `Gone`): that is what lets an answer that comes late be dropped, and why
  a restore and a refresh never both put an entry back (`RestoreInv`). `NoConsumedToken` is about
  memory between refreshes; the invariant says at each point where the token GitHub accepts is
  kept: in memory, in the row, in a restore that has read it, in a refresh that was granted it
  (`TokenInv`, `RowInv`).
- *Its bindings.* What the hooks hear of a way is a lemma of it (`Hooked`): a login that starts to
  be blocked, or whose credentials start to be replaced, is heard of in the same step, so the
  agents know of every one under way (`HookInv`) and no binding has such credentials. A
  resolve that has read the owner twice still has the owner, or one of the four things it looks
  at last has changed (`ReadInv`: revoked, rotated or expired, the epoch, a reset that is going to
  change it), or the generation it read has ended where nobody tells the bindings: each is needed,
  since the reply to the second read may be late.
- *A sign-out* (`SignOutInv`). One that has seen the row go leaves its login away (`Away`): not in
  memory, with no row but an expired one, and with no restore that has read its row; no move
  changes that (`AwayKept`). One that took another's word leaves it away or owed (`Owed`): not in
  memory, and blocked by a deletion that is pending, which a move can only turn into the former
  (`OwedKept`), unless the process dies. The word is good because the entry a restore found for a
  sign-out is still in memory when the sign-out goes on, or its login is already left in one of the
  two ways (`Finds`): the requests a restore resumes run before anything else (`Quiet`), and of
  those only a sign-out revokes a login that has not expired.

### RoomsProofs

`RoomsConsistent` (`RoomsInv`), `PlansStay` (`GivenPlanStays`) and `MembersStay` (`MemberStays`), for
any sockets, tabs, numbers of room objects and loads. `PlansOwned`, `OneDocument` and
`MembersReachable` say what a reader wants to know and are not inductive; they follow from
(`Ind`):

- *The queue* (`QueueInv`). A room that opens has its task in the document lock, and one that has a
  task of its own closes after it opens; a transition waits for at most one task. So nothing
  attaches a document to a room behind the back of its closing, and no transition meets another.
  An action appends one task, takes the first one away, starts it, or leaves the queue alone, and
  each of the four has a lemma.
- *Owners* (`PlanInv`). A document has one room or the running task, and while a task has one the
  room in the map has none: `plan` leaves an opening before it attaches, `closeRoom` and the
  deletion take the document out of its room in the step in which they start. What is open
  and not of a forgotten room is therefore one document, whichever of the two has it.
- *Rooms outside the map* (`StaleInv`, `TransInv`). Nobody is in one, unless a deletion dropped it;
  nothing holds it, no timer will fire for it, and it has no document while it closes. A
  deletion forgets the room it began with, which may have left the map before.
- *Holds* (`HoldInv`). Work counts once, and what is held does not close.

`Pending`, that what waited for a closing goes on before anything else happens, is used in one
place: a join never makes a new room while server work is about to hold the one that has just
closed. `GivenPlanStays` adds who was greeted with what (`Given`); `MemberStays` needs only that no
action but `Join` and `Leave` touches the members.

### PlannerLinkProofs

`LinkHolds` (`LinkInv`), `ResumedStays` (`ResumedStaysResumed`) and `AnswersStay`
(`AnswerNotCancelled`), for any runs, questions, links, presses and time-outs. Two lines of
messages, three kinds of ending and six of message make the cases; what keeps them apart is
(`LinkInd`, the last section of `PlannerLink`):

- *The line* (`LineInv`). A resume is alone on its line until it is answered, and its answer is the
  first message back; between the two the session still belongs to an earlier link. So nothing
  a client says on its new link is heard before the session has moved there, and nothing of
  the old link is heard after.
- *Ends* (`OpenInv`, `EndInv`). The session ends at the server first: while it is open there, the
  client holds it and nothing on its way says otherwise. The same of a run, the other way round:
  what the server takes for ended has ended at the client. A Stop is excused only by the latter.
- *Stops* (`HeardInv`, `StopKept`, `ResumedKept`). `StopNotLost` is not inductive: an answer in
  time takes a Stop off what is owed, so it must be known that the client has heard it when its
  answer is on its way; and a Resume undoes only Stops pressed before it was answered, so
  what is owed for a run has to be of a later press than the one that waits (`p <= o.at`),
  and no earlier than the Resumes of that run. `ResumedKept` is `ResumedStaysResumed` without its
  exception for runs that have ended. The Stops that are held have no such number: what a
  hold sends counts as pressed when it is sent.
- *Questions* (`AskInv`, `WaitKept`, `AnswerKept`). A question is on its way at most once, and never
  beside its own result. `WaitIsAnswered` is about a client that is on its link; before that,
  what it will wait for is what the answer to its resume names (`Waits`). `AnswerKept` follows a
  question that nobody withdrew from the ask to the acknowledgement: while it is open its
  caller waits, a resume names it, and an answered one is let go only when the caller has it.

### LeaseAndChatProofs, the Chat

`ChatHolds` (`ChatInv`), `OnceHolds` (`ExactlyOnce`) and `OutcomesOnce` (`OutcomesHold`), for any
messages, retries, invocations, notes, jobs and drafts, any number of failed saves, and any
`MaxQueue` and `MaxPending`. The assumptions are that the kinds of item are apart and that only
a message is asked for again (a retry has its id; everything else is a request of its own).
None of the three is inductive; they follow from `TurnInv`:

- *Saves* (`SavesInv`). What waits for its save is where its continuation will look for it: a turn
  that ended is being saved, one that is handed over waits, and a request that waits for its
  save is the first of `sending`. So there is at most one such request, and `Served` answers that one.
- *Turns* (`RunInv`). One item has a turn, and while Chat is open `busy` says so. A message that is
  being saved has reserved the turn and has none: this is what `SendMessageLate` breaks.
  `chat.job` is the job whose turn works, and only then is there an output.
- *Requests* (`SendInv`). Only the first one is past its checks, and what it checked still holds when
  it goes on, though turns end and begin in between: a message that is not a retry is in
  neither the transcript nor the queue, and a draft that is not saved is not in the queue.
- *Messages* (`MessageInv`). A message is in the transcript or in the queue, and its turn follows its
  entry and the save of it. A failed save takes the entry back only before a turn.
- *The queue* (`WaitInv`). Everything that is queued looks at its length in the same step, but an
  invocation, which is saved in between. There is one such save at a time, and while the queue
  is longer than `MaxQueue` no message and no invocation is being saved; so it exceeds its
  bound by one, and then an invocation is in it.
- *Outcomes* (`PlaceInv`, `ToldInv`, `AskedInv`, `JobInv`). Who hears of a turn is asked for, waits,
  is in the chain of a run, or has its turn, and not two of these; while it is, it was told
  nothing. A job is different: a cancel or a close tells it before its turn is over, so a cancelled job was
  told, or its turn works under no identity, or is saved with an outcome other than `done`.

The steps at the end of a turn go through two lemmas, one for everything `Drain` and `StopAll` may do
(`EndKeeps`) and one for what was said when they begin (`Settled`); those that only queue or
answer go through `GoesKeeps`, those that begin a turn through `StartKeeps`.

## 7. Only model-checked

All liveness (`JobsSettle`, `Settles`, `HoldsSettle`,
`WaitsEnd`, `UnusedIsForgotten`, `NothingWaits`, and that of the other runs): liveness under
fairness is out of the prover's reach, as is ENABLED. The counterexamples of the three runs
that fail are TLC's.

Caveats. While a detached attempt lingers, the pump may claim and give back its job any number
of times: the loads of `jobs` with a stall have a bound on claims that can be reached, which
`JobsSettle` excuses.

## 8. Not modelled

The MCP surface (stateless adapters), the document dialect and the editor (string and tree
functions beyond TLC's reach), the web interface (rendering), experiments, builds and the
conversation plan's effects (in the plan). In the modelled parts:

- document and rows: presence, anchors, comments, navigation; the rest of the catalogue;
- jobs: progress, unregistered and credential-free types, the cancellation of a channel's jobs
  before its deletion;
- rooms: socket admission and metering;
- Chat: room-destination messages, the mode without an agent, the session's streamed parts and
  tools;
- logins: the OAuth routes and their errors, the local device mode; the periodic revalidation
  of bindings, and that a refresh which failed for the moment leaves its credential among the
  revoked ones until the next binding;
- link: turns, streamed parts and host tool calls, the suppression while runs stop,
  `MAX_LATE_CONTROLS`, `MAX_OPEN_INPUTS`, the hold of answers for a paused run; the handshake
  of an attach is in `PlannerHolds` only;
- research: drafts and their confirmation, follow-up turns and their messages, offers,
  provenance; jobs superseded by another request's; a finding's title and sources.
