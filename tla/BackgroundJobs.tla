--------------------------- MODULE BackgroundJobs ---------------------------
(***************************************************************************)
(* The durable background jobs of one channel: the job rows and their      *)
(* target generations in PostgreSQL, and the JobRunner of the one process  *)
(* that holds the writer lease.  Jobs are claimed for a bounded time,      *)
(* executed with the credential of the channel's Planner owner, and        *)
(* settled, requeued, paused or failed; every write from an attempt is     *)
(* checked against the claim it was made under.                            *)
(*                                                                         *)
(* Abstractions.  Delays (`availableAt`) are dropped: a pending job may be *)
(* claimed at any time, so every delay is covered.  A row's revision grows *)
(* with each write to it; while a claim stands only its own attempt writes *)
(* the row, so a revision is identified here by the row's state and claim  *)
(* generation, and a renewal that succeeds changes nothing.  Progress      *)
(* entries, inputs and artifacts' contents are left out, as are jobs whose *)
(* type needs no credential or is no longer registered.                    *)
(***************************************************************************)
EXTENDS Integers, FiniteSets

CONSTANTS
    Jobs,           \* the jobs that may be enqueued, one idempotency key each
    Targets,        \* the resources they are about
    NoTarget,       \* the target of a job not enqueued yet
    Global,         \* globalConcurrency
    OwnerSlots,     \* ownerConcurrency; the channel has one owner key
    MaxAttempts,    \* JobLimits.maxAttempts, compared with `failures`
    Loads           \* the loads a behaviour may start with: the jobs that come and the
                    \* target of each (`on'), how often a job is claimed at most, and how many storage calls fail (`faults'),
                    \* claims run out under a live attempt (`stalls'), crashes and
                    \* shutdowns there are, and losses, rotations and wake-ups of the owner

LoadRecords == [on : [Jobs -> Targets \cup {NoTarget}], claims : Nat, faults : Nat,
                stalls : Nat, restarts : Nat, moves : Nat]

ASSUME JobsAssumption ==
    /\ IsFiniteSet(Jobs) /\ IsFiniteSet(Targets) /\ NoTarget \notin Targets
    /\ Global \in Nat \ {0} /\ OwnerSlots \in 1 .. Global
    /\ MaxAttempts \in Nat \ {0}
    /\ Loads \subseteq LoadRecords

VARIABLES
    rows,       \* background_jobs, one row per enqueued job
    target,     \* background_job_targets: the generation of each target
    artifact,   \* background_job_artifacts: the claim each one came from, or 0
    run,        \* which process this is; its claimOwner
    mode,       \* "running", "stopping" (shutdown called) or "down"
    claimed,    \* jobs the pump has claimed and not finished starting
    attempts,   \* #active and #attempts, by job
    late,       \* stops still to be written for attempts already removed
    notices,    \* committed changes JobRunner.notify has not been told of
    owner,      \* whether the channel has a Planner owner to run jobs for
    listing,    \* ownerAvailable is about to list the channel's jobs
    waking,     \* paused jobs it has listed and not yet resumed
    load        \* what is left of the load

durable == <<rows, target, artifact>>
memory == <<claimed, attempts, late, notices, listing, waking>>
process == <<run, mode>>
vars == <<durable, memory, process, owner, load>>

Active == {"pending", "paused", "running"}
Terminal == {"completed", "failed", "cancelled", "superseded"}
Steps == {"resolve", "bind", "run", "settle", "stopping", "done"}
Stops == {"none", "pause", "requeue", "shutdown", "retry", "fail", "lost"}

Rows == [state : {"none"} \cup Active \cup Terminal, target : Targets \cup {NoTarget},
         tgen : Nat, gen : Nat, run : Nat, expired : BOOLEAN, failures : Nat]
Attempts == [gen : Nat, failures : Nat, accepting : BOOLEAN, step : Steps, stop : Stops,
             slot : BOOLEAN]
Claims == [job : Jobs, gen : Nat \ {0}, failures : Nat, step : {"start", "requeue"}]

\* A job before it is enqueued.  No row is ever deleted while its channel lives.
NoRow == [state |-> "none", target |-> NoTarget, tgen |-> 0, gen |-> 0,
          run |-> 0, expired |-> FALSE, failures |-> 0]

NoAttempt == [gen |-> 0, failures |-> 0, accepting |-> FALSE,
              step |-> "done", stop |-> "none", slot |-> FALSE]

Running(j) == attempts[j] # NoAttempt
Accepting(j) == attempts[j].accepting

\* Uses one unit of a bound.
Spend(b) ==
    /\ load[b] > 0
    /\ load' = [load EXCEPT ![b] = @ - 1]

Init ==
    /\ rows = [j \in Jobs |-> NoRow]
    /\ target = [t \in Targets |-> 0]
    /\ artifact = [j \in Jobs |-> 0]
    /\ run = 1 /\ mode = "running"
    /\ claimed = {} /\ late = {} /\ notices = {} /\ waking = {}
    /\ attempts = [j \in Jobs |-> NoAttempt]
    /\ owner = TRUE /\ listing = FALSE
    /\ load \in Loads

-----------------------------------------------------------------------------
(* Storage: what a transaction checks and writes                           *)

\* Mutation of LockClaim: without the claim generation's check.
LockClaimAnyGeneration(j, gen) ==
    /\ rows[j].state = "running"
    /\ rows[j].run = run
    /\ ~rows[j].expired
    /\ rows[j].tgen = target[rows[j].target]

\* #lockClaim: the caller still holds the claim it is writing under.
LockClaim(j, gen) ==
    /\ rows[j].state = "running"
    /\ rows[j].run = run
    /\ rows[j].gen = gen
    /\ ~rows[j].expired
    /\ rows[j].tgen = target[rows[j].target]

\* Mutation of LockControl: any row still active, whatever its revision.
LockControlAnyRevision(j, gen, state) ==
    /\ rows[j].state \in Active
    /\ rows[j].tgen = target[rows[j].target]

\* Mutation of LockControl: without the check of the state.
LockControlAnyState(j, gen, state) ==
    /\ rows[j].gen = gen
    /\ rows[j].tgen = target[rows[j].target]

\* #lockControl with an expected revision: the row is unchanged since the
\* caller read it in `state` under claim `gen`.  Expiry plays no part.
LockControl(j, gen, state) ==
    /\ rows[j].state = state
    /\ rows[j].gen = gen
    /\ rows[j].tgen = target[rows[j].target]

\* renew: the claim, at the revision its attempt last wrote (see above).
Renews(j, gen) == LockClaim(j, gen)

\* A row that leaves the running state loses its claim owner and its expiry.
Released(row, state) ==
    [row EXCEPT !.state = state, !.run = 0, !.expired = FALSE]

\* One released after a counted failure.
Failed(row, state) == [Released(row, state) EXCEPT !.failures = @ + 1]

\* Mutation of Superseded: paused rows forgotten.
SupersededPaused(j, t, g) ==
    /\ rows[j].target = t
    /\ rows[j].tgen < g
    /\ rows[j].state \in {"pending", "running"}

\* The rows `enqueue` supersedes when target t moves to generation g.
Superseded(j, t, g) ==
    /\ rows[j].target = t
    /\ rows[j].tgen < g
    /\ rows[j].state \in Active

\* Mutation of Claimable: expired claims forgotten.
ClaimablePending(j) ==
    /\ rows[j].state = "pending"
    /\ rows[j].tgen = target[rows[j].target]

\* What `claim` may select.
Claimable(j) ==
    /\ \/ rows[j].state = "pending"
       \/ rows[j].state = "running" /\ rows[j].expired
    /\ rows[j].tgen = target[rows[j].target]

-----------------------------------------------------------------------------
(* JobService                                                              *)

\* enqueue: a new generation of the target, older active work superseded.  A
\* repeated idempotency key finds its row and changes nothing.
Enqueue(j, t) ==
    LET g == target[t] + 1
    IN  /\ mode # "down"
        /\ load.on[j] = t /\ rows[j].state = "none"
        /\ target' = [target EXCEPT ![t] = g]
        /\ rows' = [k \in Jobs |->
              IF k = j THEN [NoRow EXCEPT !.state = "pending", !.target = t, !.tgen = g]
              ELSE IF Superseded(k, t, g) THEN Released(rows[k], "superseded")
              ELSE rows[k]]
        /\ notices' = notices \cup {j}
        /\ UNCHANGED <<artifact, process, claimed, attempts, late, owner,
                       listing, waking, load>>

\* cancel: no revision is expected, so it wins over whatever it meets.
Cancel(j) ==
    /\ mode # "down"
    /\ rows[j].state \in Active
    /\ rows[j].tgen = target[rows[j].target]
    /\ rows' = [rows EXCEPT ![j] = Released(@, "cancelled")]
    /\ notices' = notices \cup {j}
    /\ UNCHANGED <<target, artifact, process, claimed, attempts, late, owner,
                   listing, waking, load>>

\* The attempt stops accepting, with nothing left to write for it.
Detached(a) == [a EXCEPT !.accepting = FALSE]

\* The attempt stops accepting and `stop` is to be written for it.
Stopped(a, stop) == [a EXCEPT !.accepting = FALSE, !.stop = stop]

\* notify, on the reply to a write that changed job j: attempts at j itself, and
\* at older generations of its target, are detached.
Notify(j) ==
    /\ j \in notices
    /\ notices' = notices \ {j}
    /\ attempts' = [k \in Jobs |->
          IF /\ Accepting(k)
             /\ \/ k = j
                \/ rows[k].target = rows[j].target /\ rows[k].tgen < rows[j].tgen
          THEN Detached(attempts[k])
          ELSE attempts[k]]
    /\ UNCHANGED <<durable, process, claimed, late, owner, listing, waking, load>>

-----------------------------------------------------------------------------
(* The pump                                                                *)

\* Mutation of Capacity: without the attempts under way.
CapacityIgnoringAttempts == Global

\* How many more attempts the process may start.
Capacity == Global - Cardinality({j \in Jobs : Running(j)})

\* What `claim` returns for a row: the claim it has just written.
Claimed(j) == [job |-> j, gen |-> rows[j].gen + 1, failures |-> rows[j].failures,
               step |-> "start"]

\* #drain: one claim at a time; the reply may be lost after the commit.
Claim ==
    /\ mode = "running" /\ claimed = {}
    /\ \E S \in SUBSET {j \in Jobs : Claimable(j) /\ rows[j].gen < load.claims} :
          /\ S # {} /\ Cardinality(S) <= Capacity
          /\ rows' = [j \in Jobs |->
                IF j \in S
                THEN [rows[j] EXCEPT !.state = "running", !.gen = @ + 1,
                                     !.run = run, !.expired = FALSE]
                ELSE rows[j]]
          /\ \/ /\ claimed' = {Claimed(j) : j \in S}
                /\ UNCHANGED load
             \/ Spend("faults") /\ UNCHANGED claimed
    /\ UNCHANGED <<target, artifact, process, attempts, late, notices, owner,
                   listing, waking>>

\* #start.  A runner that has stopped gives the claim back, and so does one that
\* still has an attempt at the job, which it detaches.
Start(c) ==
    /\ c \in claimed /\ c.step = "start"
    /\ IF mode = "stopping" \/ Running(c.job)
       THEN /\ claimed' = (claimed \ {c}) \cup {[c EXCEPT !.step = "requeue"]}
            /\ attempts' = IF mode = "stopping" THEN attempts
                           ELSE [attempts EXCEPT ![c.job] = Detached(@)]
       ELSE /\ claimed' = claimed \ {c}
            /\ attempts' = [attempts EXCEPT ![c.job] =
                  [NoAttempt EXCEPT !.gen = c.gen, !.failures = c.failures,
                                    !.accepting = TRUE, !.step = "resolve"]]
    /\ UNCHANGED <<durable, process, late, notices, owner, listing, waking, load>>

\* #requeueClaim: a conflict or a failure leaves the row to its expiry.
RequeueClaim(c) ==
    /\ c \in claimed /\ c.step = "requeue"
    /\ claimed' = claimed \ {c}
    /\ \/ /\ rows' = IF LockClaim(c.job, c.gen)
                     THEN [rows EXCEPT ![c.job] = Released(@, "pending")]
                     ELSE rows
          /\ UNCHANGED load
       \/ Spend("faults") /\ UNCHANGED rows
    /\ UNCHANGED <<target, artifact, process, attempts, late, notices, owner,
                   listing, waking>>

-----------------------------------------------------------------------------
(* One attempt: #execute, its heartbeats and what stops it                 *)

\* A change to job j's attempt alone.
Attempt(j, a) ==
    /\ attempts' = [attempts EXCEPT ![j] = a]
    /\ UNCHANGED <<process, claimed, late, owner, listing, waking>>

\* Mutation of Exhausted: off by one.
ExhaustedLate(a) == a.failures >= MaxAttempts

\* Another failure uses up the job's budget.
Exhausted(a) == a.failures + 1 >= MaxAttempts

\* #retry with a counted failure.
Retry(a) == IF Exhausted(a) THEN "fail" ELSE "retry"

\* resolveActivePlanner: without an owner the job pauses, and #execute waits for
\* that to be written.
Resolve(j) ==
    /\ Accepting(j) /\ attempts[j].step = "resolve"
    /\ Attempt(j, IF owner THEN [attempts[j] EXCEPT !.step = "bind"]
                  ELSE [Stopped(attempts[j], "pause") EXCEPT !.step = "stopping"])
    /\ UNCHANGED <<durable, notices, load>>

\* Attempts that hold a place under ownerConcurrency.
Slots == Cardinality({j \in Jobs : attempts[j].slot})

\* Mutation of SlotFree: off by one.
SlotFreeLate == Slots <= OwnerSlots

SlotFree == Slots < OwnerSlots

\* The renewal that binds the claim to the credential, then the owner's slot.
\* It runs even when the attempt was stopped meanwhile, ahead of the stop's own
\* write; a claim already lost, or a failed call, detaches the attempt.
Bind(j) ==
    LET a == attempts[j]
    IN  /\ a.step = "bind"
        /\ \/ /\ Renews(j, a.gen)
              /\ Attempt(j,
                    IF ~a.accepting THEN [a EXCEPT !.step = "done"]
                    ELSE IF SlotFree THEN [a EXCEPT !.step = "run", !.slot = TRUE]
                    ELSE [Stopped(a, "requeue") EXCEPT !.step = "stopping"])
              /\ UNCHANGED load
           \/ /\ ~Renews(j, a.gen)
              /\ Attempt(j, [Detached(a) EXCEPT !.step = "done"])
              /\ UNCHANGED load
           \/ /\ Spend("faults")
              /\ Attempt(j, [Detached(a) EXCEPT !.step = "done"])
        /\ UNCHANGED <<durable, notices>>

\* The executor returned in time, its artifact passed, the publication hook
\* called commit and the guard found the attempt still accepted.
Finish(j) ==
    /\ Accepting(j) /\ attempts[j].step = "run"
    /\ Attempt(j, [attempts[j] EXCEPT !.step = "settle"])
    /\ UNCHANGED <<durable, notices, load>>

\* The executor or the publication hook threw, or the time limit passed.
Fails(j) ==
    /\ Accepting(j) /\ attempts[j].step = "run"
    /\ Attempt(j, [Stopped(attempts[j], Retry(attempts[j])) EXCEPT !.step = "stopping"])
    /\ UNCHANGED <<durable, notices, load>>

\* storage.settle: the row is completed and its artifact inserted, together.
Complete(j, gen) ==
    /\ LockClaim(j, gen)
    /\ rows' = [rows EXCEPT ![j] = Released(@, "completed")]
    /\ artifact' = [artifact EXCEPT ![j] = gen]

\* JobService.settle: not serialised with the attempt's other writes.  The call may
\* fail before it commits, or after, in which case nobody is notified.
Settle(j) ==
    LET a == attempts[j]
    IN  /\ a.step = "settle"
        /\ Attempt(j, [Detached(a) EXCEPT !.step = "done"])
        /\ \/ /\ Complete(j, a.gen)
              /\ \/ notices' = notices \cup {j} /\ UNCHANGED load
                 \/ Spend("faults") /\ UNCHANGED notices
           \/ /\ \/ ~LockClaim(j, a.gen) /\ UNCHANGED load
                 \/ Spend("faults")
              /\ UNCHANGED <<rows, artifact, notices>>
        /\ UNCHANGED target

\* An attempt that is no longer accepted drops its credential or its result.
Unwind(j) ==
    /\ Running(j) /\ ~Accepting(j) /\ attempts[j].step \in {"resolve", "run"}
    /\ Attempt(j, [attempts[j] EXCEPT !.step = "done"])
    /\ UNCHANGED <<durable, notices, load>>

\* A heartbeat whose renewal meets a lost claim or fails.  One that succeeds
\* changes nothing here.
HeartbeatLost(j) ==
    /\ mode = "running" /\ Accepting(j)
    /\ \/ ~Renews(j, attempts[j].gen) /\ UNCHANGED load
       \/ Spend("faults")
    /\ Attempt(j, Stopped(attempts[j], "lost"))
    /\ UNCHANGED <<durable, notices>>

\* What the rows become when `stop` is written for claim `gen` of job j, a
\* conflict being swallowed.
Written(j, gen, stop) ==
    CASE stop = "pause" /\ LockControl(j, gen, "running") ->
            [rows EXCEPT ![j] = Released(@, "paused")]
      [] stop \in {"requeue", "shutdown"} /\ LockClaim(j, gen) ->
            [rows EXCEPT ![j] = Released(@, "pending")]
      [] stop = "retry" /\ LockClaim(j, gen) ->
            [rows EXCEPT ![j] = Failed(@, "pending")]
      [] stop = "fail" /\ LockClaim(j, gen) ->
            [rows EXCEPT ![j] = Failed(@, "failed")]
      [] OTHER -> rows

\* #pause, #retry, #requeueStopped and #failStopped: one write, after the
\* binding's.  A lost heartbeat waits for the executor; one that outlasts the
\* grace period fails the job, whatever its budget.
WriteStop(j) ==
    LET a == attempts[j]
        stop == IF a.stop # "lost" THEN a.stop
                ELSE IF a.step = "run" THEN "fail"
                ELSE Retry(a)
    IN  /\ a.stop # "none" /\ a.step # "bind"
        /\ Attempt(j, [a EXCEPT !.stop = "none",
                              !.step = IF @ = "stopping" THEN "done" ELSE @])
        /\ \/ rows' = Written(j, a.gen, stop) /\ UNCHANGED load
           \/ Spend("faults") /\ UNCHANGED rows
        /\ UNCHANGED <<target, artifact, notices>>

\* #start's finally.  It waits for a heartbeat's recovery and for writes already
\* queued; a stop asked for from outside may not have queued its own yet.
Finalize(j) ==
    LET a == attempts[j]
    IN  /\ Running(j) /\ a.step = "done" /\ a.stop # "lost"
        /\ attempts' = [attempts EXCEPT ![j] = NoAttempt]
        /\ late' = IF a.stop = "none" THEN late
                   ELSE late \cup {[job |-> j, gen |-> a.gen, stop |-> a.stop]}
        /\ UNCHANGED <<durable, process, claimed, notices, owner, listing, waking, load>>

\* Such a stop is written after its attempt is gone.
WriteLate(l) ==
    /\ l \in late
    /\ late' = late \ {l}
    /\ \/ rows' = Written(l.job, l.gen, l.stop) /\ UNCHANGED load
       \/ Spend("faults") /\ UNCHANGED rows
    /\ UNCHANGED <<target, artifact, process, claimed, attempts, notices, owner,
                   listing, waking>>

-----------------------------------------------------------------------------
(* The owner                                                               *)

\* Every accepted attempt that holds a credential is stopped.
StopBound(stop) ==
    attempts' = [j \in Jobs |->
        IF Accepting(j) /\ attempts[j].step # "resolve"
        THEN Stopped(attempts[j], stop)
        ELSE attempts[j]]

\* sessionRevoked and channelOwnerReset.
OwnerLost ==
    /\ owner /\ Spend("moves")
    /\ owner' = FALSE
    /\ StopBound("pause")
    /\ UNCHANGED <<durable, process, claimed, late, notices, listing, waking>>

\* credentialsWillRotate: the owner stays, its credential changes.
Rotate ==
    /\ owner /\ Spend("moves")
    /\ StopBound("requeue")
    /\ UNCHANGED <<durable, process, claimed, late, notices, owner, listing, waking>>

\* An owner is resolved for the channel, or one it has is announced again (a
\* turn ends, a Planner attaches): ownerAvailable is called.
OwnerAvailable ==
    /\ mode # "down"
    /\ \/ ~owner /\ UNCHANGED load
       \/ owner /\ Spend("moves")
    /\ owner' = TRUE
    /\ listing' = TRUE
    /\ UNCHANGED <<durable, process, claimed, attempts, late, notices, waking>>

\* ownerAvailable lists the channel's jobs and picks the paused ones ...
List ==
    /\ listing
    /\ listing' = FALSE
    /\ waking' = waking \cup
          {[job |-> j, gen |-> rows[j].gen] : j \in {k \in Jobs : rows[k].state = "paused"}}
    /\ UNCHANGED <<durable, process, claimed, attempts, late, notices, owner, load>>

\* ... and resumes each at the revision it was listed with.
Resume(w) ==
    /\ w \in waking
    /\ waking' = waking \ {w}
    /\ IF LockControl(w.job, w.gen, "paused")
       THEN /\ rows' = [rows EXCEPT ![w.job] = Released(@, "pending")]
            /\ notices' = notices \cup {w.job}
       ELSE UNCHANGED <<rows, notices>>
    /\ UNCHANGED <<target, artifact, process, claimed, attempts, late, owner,
                   listing, load>>

-----------------------------------------------------------------------------
(* Time and the process                                                    *)

\* A claim runs out: for one that is in the process and kept renewed only when
\* the process stalls; for one nobody renews, in time.
Expire(j) ==
    /\ rows[j].state = "running" /\ ~rows[j].expired
    /\ rows' = [rows EXCEPT ![j].expired = TRUE]
    /\ IF Running(j) \/ \E c \in claimed : c.job = j
       THEN Spend("stalls")
       ELSE UNCHANGED load
    /\ UNCHANGED <<target, artifact, process, memory, owner>>

\* shutdown: accepted attempts are stopped and requeued without a failure.
Shutdown ==
    /\ mode = "running" /\ Spend("restarts")
    /\ mode' = "stopping"
    /\ attempts' = [j \in Jobs |->
          IF Accepting(j) THEN Stopped(attempts[j], "shutdown") ELSE attempts[j]]
    /\ UNCHANGED <<durable, run, claimed, late, notices, owner, listing, waking>>

\* What the process loses when it ends.
Gone ==
    /\ mode' = "down"
    /\ claimed' = {} /\ late' = {} /\ notices' = {} /\ waking' = {}
    /\ attempts' = [j \in Jobs |-> NoAttempt]
    /\ listing' = FALSE
    /\ UNCHANGED <<durable, run, owner>>

\* shutdown has waited for the pump, its requeues and the recoveries, and no
\* longer than the grace period for everything else.
Exit ==
    /\ mode = "stopping" /\ claimed = {}
    /\ \A j \in Jobs : attempts[j].stop \notin {"shutdown", "lost"}
    /\ \A l \in late : l.stop # "shutdown"
    /\ Gone /\ UNCHANGED load

Crash ==
    /\ mode # "down" /\ Spend("restarts")
    /\ Gone

\* The next process: a new claimOwner, and sessions.reset has cleared the
\* channel's owner.
Restart ==
    /\ mode = "down"
    /\ mode' = "running" /\ run' = run + 1
    /\ owner' = FALSE
    /\ UNCHANGED <<durable, memory, load>>

Next ==
    \/ \E j \in Jobs, t \in Targets : Enqueue(j, t)
    \/ \E j \in Jobs :
          \/ Cancel(j) \/ Notify(j)
          \/ Resolve(j) \/ Bind(j) \/ Finish(j) \/ Fails(j) \/ Settle(j)
          \/ Unwind(j) \/ HeartbeatLost(j) \/ WriteStop(j) \/ Finalize(j)
          \/ Expire(j)
    \/ Claim
    \/ \E c \in claimed : Start(c) \/ RequeueClaim(c)
    \/ \E l \in late : WriteLate(l)
    \/ \E w \in waking : Resume(w)
    \/ OwnerLost \/ Rotate \/ OwnerAvailable \/ List
    \/ Shutdown \/ Exit \/ Crash \/ Restart

Spec == Init /\ [][Next]_vars

\* The pump polls for as long as it runs, timers fire, executors are cut off at
\* their time limit, storage calls return and a process that ends is started
\* again.  Nothing is assumed of users, owners, faults or stalls.
Fairness ==
    /\ WF_vars(Claim) /\ WF_vars(List) /\ WF_vars(Exit) /\ WF_vars(Restart)
    /\ WF_vars(\E c \in claimed : Start(c) \/ RequeueClaim(c))
    /\ WF_vars(\E l \in late : WriteLate(l))
    /\ WF_vars(\E w \in waking : Resume(w))
    /\ \A j \in Jobs :
          /\ WF_vars(Notify(j)) /\ WF_vars(Expire(j))
          /\ WF_vars(Resolve(j) \/ Bind(j) \/ Finish(j) \/ Fails(j) \/ Settle(j)
                     \/ Unwind(j) \/ Finalize(j))
          /\ WF_vars(WriteStop(j))

FairSpec == Spec /\ Fairness

-----------------------------------------------------------------------------
(* Properties                                                              *)

\* The shape of the rows, the attempts and the runner's other state.
TypeOK ==
    /\ rows \in [Jobs -> Rows]
    /\ target \in [Targets -> Nat]
    /\ artifact \in [Jobs -> Nat]
    /\ run \in Nat \ {0} /\ mode \in {"running", "stopping", "down"}
    /\ claimed \subseteq Claims
    /\ attempts \in [Jobs -> Attempts]
    /\ late \subseteq [job : Jobs, gen : Nat \ {0}, stop : Stops]
    /\ notices \subseteq Jobs
    /\ owner \in BOOLEAN /\ listing \in BOOLEAN
    /\ waking \subseteq [job : Jobs, gen : Nat \ {0}]
    /\ load \in LoadRecords

\* The artifact of a job is the work of its last claim: an attempt that lost its
\* claim to a stall, a crash or another claim never publishes over it, and a job
\* is completed exactly when it has an artifact (#lockClaim in settle).
ArtifactOfLastClaim ==
    \A j \in Jobs :
        /\ (artifact[j] # 0) = (rows[j].state = "completed")
        /\ artifact[j] # 0 => artifact[j] = rows[j].gen

\* A target has at most one pending, paused or running job, and that one is of
\* the target's current generation (enqueue's supersession).
OneActivePerTarget ==
    \A j \in Jobs : rows[j].state \in Active =>
        /\ rows[j].tgen = target[rows[j].target]
        /\ \A k \in Jobs \ {j} :
              rows[k].target = rows[j].target => rows[k].state \notin Active

\* A job that can still run has failures left: the count an attempt carries from
\* its claim is never behind the row's when it decides to retry (#retry,
\* #heartbeatLost, #timeout).
FailureBudget ==
    \A j \in Jobs :
        /\ rows[j].state \in Active => rows[j].failures < MaxAttempts
        /\ rows[j].failures <= MaxAttempts

\* The process never runs more attempts than globalConcurrency, counting the
\* claims it is about to start (#drain).
GlobalLimit ==
    Cardinality({j \in Jobs : Running(j)}) + Cardinality(claimed) <= Global

\* Nor more executors for one owner than ownerConcurrency, whatever stopped the
\* earlier ones (#owner and the release in #start's finally).
OwnerLimit == Slots <= OwnerSlots

\* Every row has a generation of its target to itself, no later than the target's,
\* and has been claimed if it runs, is paused or is completed.
RowInv ==
    /\ \A j \in Jobs :
         /\ rows[j].state = "none" => rows[j] = NoRow
         /\ rows[j].state # "none" =>
               rows[j].target \in Targets /\ rows[j].tgen <= target[rows[j].target]
         /\ rows[j].state \in {"paused", "running", "completed"} => rows[j].gen > 0
    /\ \A j, k \in Jobs :
         /\ rows[j].state # "none" /\ rows[j].target = rows[k].target
         /\ rows[j].tgen = rows[k].tgen
         => j = k

\* An attempt was claimed, and while its claim stands it knows the row's failures;
\* one that is to be stopped is no longer accepted.
AttemptInv ==
    \A j \in Jobs :
        LET a == attempts[j]
        IN  /\ Running(j) => a.gen > 0 /\ a.gen <= rows[j].gen
            /\ a.gen = rows[j].gen /\ rows[j].state = "running" =>
                  a.failures = rows[j].failures
            /\ a.stop # "none" \/ mode = "stopping" => ~a.accepting
            /\ a.stop \in {"retry", "fail"} => a.step = "stopping"
            /\ a.stop = "retry" => a.failures + 1 < MaxAttempts

\* A claim not started yet is newer than the process's attempt at its job.
ClaimInv ==
    /\ \A c, d \in claimed : c.job = d.job => c = d
    /\ \A c \in claimed :
         /\ c.gen <= rows[c.job].gen /\ attempts[c.job].gen < c.gen
         /\ c.gen = rows[c.job].gen /\ rows[c.job].state = "running" =>
               c.failures = rows[c.job].failures
         /\ rows[c.job].state \notin {"pending", "paused"}
         /\ c.step = "requeue" => ~Accepting(c.job)

\* A stop written late is older than the attempts and the claims of its job.
LateInv ==
    \A l \in late :
        /\ l.stop \in {"pause", "requeue", "shutdown"}
        /\ l.gen <= rows[l.job].gen
        /\ Running(l.job) => l.gen < attempts[l.job].gen
        /\ \A c \in claimed : c.job = l.job => l.gen < c.gen

\* What holds of the rows and the runner in every state.
JobsInv ==
    /\ TypeOK /\ OneActivePerTarget /\ FailureBudget /\ GlobalLimit /\ OwnerLimit
    /\ RowInv /\ AttemptInv /\ ClaimInv /\ LateInv

\* No accepted attempt works on a job that is waiting: a pause or a requeue that
\* is written late never puts aside a newer claim of the job (#pause's expected
\* revision, #lockClaim's generation).
WaitingJobsAreIdle ==
    \A j \in Jobs : rows[j].state \in {"pending", "paused"} => ~Accepting(j)

\* A terminal job never changes again, whichever of its settlement, a pause, a
\* cancellation or a supersession is written last.
TerminalIsFinal ==
    [][\A j \in Jobs : rows[j].state \in Terminal => rows'[j] = rows[j]]_vars

\* Every job that can run is eventually completed, failed, cancelled, superseded
\* or put aside for want of an owner, across faults, crashes and shutdowns (or has
\* used up the claims the load gives it).
JobsSettle ==
    \A j \in Jobs :
        []<>(rows[j].state \notin {"pending", "running"} \/ rows[j].gen = load.claims)
=============================================================================
