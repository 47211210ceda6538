------------------------ MODULE BackgroundJobsProofs ------------------------
(***************************************************************************)
(* The background jobs, for any finite set of jobs and targets and any     *)
(* limits.  JobsInv, ArtifactOfLastClaim and WaitingJobsAreIdle are        *)
(* inductive together.  Two lemmas carry the argument: AttemptStep, what a *)
(* step may do to an attempt, and RowStep, what it may do to a row.  The   *)
(* others follow from them, one for each part of the invariant.            *)
(***************************************************************************)
EXTENDS BackgroundJobs, FiniteSetTheorems, TLAPS

\* What every step preserves.
IndInv == JobsInv /\ ArtifactOfLastClaim /\ WaitingJobsAreIdle

(* A bound that is spent is still a bound.                                 *)
LEMMA SpendType ==
    ASSUME load \in LoadRecords,
           \/ Spend("faults") \/ Spend("stalls") \/ Spend("restarts") \/ Spend("moves")
    PROVE  load' \in LoadRecords
<1>1. CASE Spend("faults")
  BY <1>1 DEF Spend, LoadRecords
<1>2. CASE Spend("stalls")
  BY <1>2 DEF Spend, LoadRecords
<1>3. CASE Spend("restarts")
  BY <1>3 DEF Spend, LoadRecords
<1>4. CASE Spend("moves")
  BY <1>4 DEF Spend, LoadRecords
<1> QED
  BY <1>1, <1>2, <1>3, <1>4

(* A row that is released, fails or expires is a row.                      *)
LEMMA RowTypes ==
    ASSUME NEW r \in Rows, NEW s \in {"none"} \cup Active \cup Terminal
    PROVE  /\ Released(r, s) \in Rows
           /\ Failed(r, s) \in Rows
           /\ [r EXCEPT !.expired = TRUE] \in Rows
<1>1. Released(r, s) \in Rows /\ [r EXCEPT !.expired = TRUE] \in Rows
  BY DEF Released, Rows
<1>2. ASSUME NEW q \in Rows PROVE [q EXCEPT !.failures = @ + 1] \in Rows
  BY DEF Rows
<1> QED
  BY <1>1, <1>2 DEF Failed

(* So is one that is enqueued or claimed.                                  *)
LEMMA ClaimTypes ==
    ASSUME NEW r \in Rows, NEW n \in Nat
    PROVE  /\ \A t \in Targets : [r EXCEPT !.state = "pending", !.target = t, !.tgen = n] \in Rows
           /\ \A u \in Nat : [r EXCEPT !.state = "running", !.gen = n, !.run = u,
                                        !.expired = FALSE] \in Rows
  BY DEF Rows, Active

(* Stopping an attempt, or moving it on, leaves an attempt.                *)
LEMMA AttemptTypes ==
    ASSUME NEW a \in Attempts, NEW s \in Stops, NEW t \in Steps
    PROVE  /\ Detached(a) \in Attempts /\ Stopped(a, s) \in Attempts
           /\ [a EXCEPT !.step = t] \in Attempts
           /\ [Detached(a) EXCEPT !.step = t] \in Attempts
           /\ [Stopped(a, s) EXCEPT !.step = t] \in Attempts
           /\ [a EXCEPT !.step = t, !.slot = TRUE] \in Attempts
           /\ [a EXCEPT !.stop = s, !.step = t] \in Attempts
  BY DEF Detached, Stopped, Attempts

(* Writing a stop leaves rows, and changes no row but its job's.           *)
LEMMA WrittenType ==
    ASSUME TypeOK, NEW j \in Jobs, NEW gen, NEW stop
    PROVE  /\ Written(j, gen, stop) \in [Jobs -> Rows]
           /\ \A k \in Jobs \ {j} : Written(j, gen, stop)[k] = rows[k]
<1>1. rows \in [Jobs -> Rows] /\ rows[j] \in Rows
  BY DEF TypeOK
<1>2. /\ Released(rows[j], "paused") \in Rows /\ Released(rows[j], "pending") \in Rows
      /\ Failed(rows[j], "pending") \in Rows /\ Failed(rows[j], "failed") \in Rows
  BY <1>1, RowTypes DEF Active, Terminal
<1>3. \/ Written(j, gen, stop) = rows
      \/ \E r \in Rows : Written(j, gen, stop) = [rows EXCEPT ![j] = r]
  <2>1. CASE stop = "pause" /\ LockControl(j, gen, "running")
    BY <1>1, <1>2, <2>1 DEF Written
  <2>2. CASE stop \in {"requeue", "shutdown"} /\ LockClaim(j, gen)
    BY <1>1, <1>2, <2>2 DEF Written
  <2>3. CASE stop = "retry" /\ LockClaim(j, gen)
    BY <1>1, <1>2, <2>3 DEF Written
  <2>4. CASE stop = "fail" /\ LockClaim(j, gen)
    BY <1>1, <1>2, <2>4 DEF Written
  <2>5. CASE /\ ~(stop = "pause" /\ LockControl(j, gen, "running"))
             /\ ~(stop \in {"requeue", "shutdown"} /\ LockClaim(j, gen))
             /\ ~(stop = "retry" /\ LockClaim(j, gen))
             /\ ~(stop = "fail" /\ LockClaim(j, gen))
    BY <2>5 DEF Written
  <2> QED
    BY <2>1, <2>2, <2>3, <2>4, <2>5
<1> QED
  BY <1>1, <1>3

(* Every step keeps the types.                                             *)
LEMMA TypeStep ==
    ASSUME TypeOK, RowInv, AttemptInv, [Next]_vars
    PROVE  TypeOK'
<1>0. /\ rows \in [Jobs -> Rows] /\ attempts \in [Jobs -> Attempts] /\ load \in LoadRecords
      /\ target \in [Targets -> Nat] /\ artifact \in [Jobs -> Nat] /\ NoAttempt \in Attempts
  BY DEF TypeOK, NoAttempt, Attempts, Steps, Stops
<1>1. ASSUME NEW j \in Jobs, NEW t \in Targets, Enqueue(j, t) PROVE TypeOK'
  <2>1. [NoRow EXCEPT !.state = "pending", !.target = t, !.tgen = target[t] + 1] \in Rows
    <3>1. NoRow \in Rows /\ target[t] + 1 \in Nat
      BY <1>0 DEF NoRow, Rows
    <3> QED
      BY <3>1, ClaimTypes
  <2>2. \A k \in Jobs : Released(rows[k], "superseded") \in Rows
    BY <1>0, RowTypes DEF Terminal
  <2>3. rows' \in [Jobs -> Rows]
    BY <1>0, <1>1, <2>1, <2>2 DEF Enqueue
  <2>4. target' \in [Targets -> Nat]
    BY <1>0, <1>1 DEF Enqueue
  <2> QED
    BY <1>1, <2>3, <2>4 DEF Enqueue, TypeOK, process
<1>2. ASSUME NEW j \in Jobs, Cancel(j) \/ Expire(j) PROVE TypeOK'
  <2>1. Released(rows[j], "cancelled") \in Rows
    BY <1>0, RowTypes DEF Terminal
  <2>2. [rows[j] EXCEPT !.expired = TRUE] \in Rows
    BY <1>0 DEF Rows
  <2>3. rows' \in [Jobs -> Rows]
    BY <1>0, <1>2, <2>1, <2>2 DEF Cancel, Expire
  <2>4. load' \in LoadRecords
    BY <1>0, <1>2, SpendType DEF Cancel, Expire
  <2> QED
    BY <1>2, <2>3, <2>4 DEF Cancel, Expire, TypeOK, process, memory
<1>3. ASSUME NEW j \in Jobs, Notify(j) PROVE TypeOK'
  <2>1. attempts' \in [Jobs -> Attempts]
    BY <1>0, <1>3 DEF Notify, Detached, Attempts
  <2> QED
    BY <1>3, <2>1 DEF Notify, TypeOK, process, durable
<1>4. ASSUME Claim PROVE TypeOK'
  <2>1. \A j \in Jobs : [rows[j] EXCEPT !.state = "running", !.gen = @ + 1,
                                        !.run = run, !.expired = FALSE] \in Rows
    <3>1. run \in Nat
      BY DEF TypeOK
    <3>2. \A j \in Jobs : rows[j] \in Rows /\ rows[j].gen + 1 \in Nat
      BY <1>0 DEF Rows
    <3> QED
      BY <3>1, <3>2, ClaimTypes
  <2>2. rows' \in [Jobs -> Rows]
    BY <1>0, <1>4, <2>1 DEF Claim
  <2>3. \A j \in Jobs : Claimed(j) \in Claims
    BY <1>0 DEF Claimed, Claims, Rows
  <2>4. claimed' \subseteq Claims
    <3>1. PICK S \in SUBSET Jobs : claimed' = {Claimed(j) : j \in S} \/ claimed' = claimed
      BY <1>4 DEF Claim
    <3>2. claimed \subseteq Claims
      BY DEF TypeOK
    <3> QED
      BY <2>3, <3>1, <3>2
  <2>5. load' \in LoadRecords
    BY <1>0, <1>4, SpendType DEF Claim
  <2> QED
    BY <1>4, <2>2, <2>4, <2>5 DEF Claim, TypeOK, process
<1>5. ASSUME NEW c \in claimed, Start(c) PROVE TypeOK'
  <2>1. c \in Claims /\ c.job \in Jobs /\ attempts[c.job] \in Attempts
    BY <1>0 DEF TypeOK, Claims
  <2>2. [c EXCEPT !.step = "requeue"] \in Claims
    BY <2>1 DEF Claims
  <2>3. [NoAttempt EXCEPT !.gen = c.gen, !.failures = c.failures,
                          !.accepting = TRUE, !.step = "resolve"] \in Attempts
    BY <1>0, <2>1 DEF NoAttempt, Claims, Attempts, Steps, Stops
  <2>4. Detached(attempts[c.job]) \in Attempts
    BY <2>1 DEF Detached, Attempts
  <2>5. attempts' \in [Jobs -> Attempts] /\ claimed' \subseteq Claims
    BY <1>0, <1>5, <2>1, <2>2, <2>3, <2>4 DEF Start, TypeOK
  <2> QED
    BY <1>5, <2>5 DEF Start, TypeOK, process, durable
<1>6. ASSUME NEW c \in claimed, RequeueClaim(c) PROVE TypeOK'
  <2>1. c.job \in Jobs /\ Released(rows[c.job], "pending") \in Rows
    BY <1>0, RowTypes DEF TypeOK, Claims, Active
  <2>2. rows' \in [Jobs -> Rows] /\ load' \in LoadRecords
    BY <1>0, <1>6, <2>1, SpendType DEF RequeueClaim
  <2> QED
    BY <1>6, <2>2 DEF RequeueClaim, TypeOK, process
<1>7. ASSUME NEW j \in Jobs, Resolve(j) \/ Finish(j) \/ Fails(j) \/ Unwind(j) PROVE TypeOK'
  <2>1. PICK a \in Attempts : Attempt(j, a) /\ UNCHANGED <<durable, notices, load>>
    <3>1. CASE Resolve(j)
      BY <1>0, <3>1, AttemptTypes DEF Resolve, Steps, Stops
    <3>2. CASE Finish(j)
      BY <1>0, <3>2, AttemptTypes DEF Finish, Steps, Stops
    <3>3. CASE Fails(j)
      BY <1>0, <3>3, AttemptTypes DEF Fails, Retry, Steps, Stops
    <3>4. CASE Unwind(j)
      BY <1>0, <3>4, AttemptTypes DEF Unwind, Steps, Stops
    <3> QED
      BY <1>7, <3>1, <3>2, <3>3, <3>4
  <2> QED
    BY <1>0, <2>1 DEF Attempt, TypeOK, process, durable
<1>8. ASSUME NEW j \in Jobs, Bind(j) \/ HeartbeatLost(j) PROVE TypeOK'
  <2>1. PICK a \in Attempts : Attempt(j, a) /\ UNCHANGED <<durable, notices>>
    <3>1. CASE Bind(j)
      BY <1>0, <3>1, AttemptTypes DEF Bind, Steps, Stops
    <3>2. CASE HeartbeatLost(j)
      BY <1>0, <3>2, AttemptTypes DEF HeartbeatLost, Steps, Stops
    <3> QED
      BY <1>8, <3>1, <3>2
  <2>2. load' \in LoadRecords
    BY <1>0, <1>8, SpendType DEF Bind, HeartbeatLost
  <2> QED
    BY <1>0, <2>1, <2>2 DEF Attempt, TypeOK, process, durable
<1>9. ASSUME NEW j \in Jobs, Settle(j) PROVE TypeOK'
  <2>1. PICK a \in Attempts : Attempt(j, a)
    BY <1>0, <1>9, AttemptTypes DEF Settle, Steps, Stops
  <2>2. Released(rows[j], "completed") \in Rows /\ attempts[j].gen \in Nat
    BY <1>0, RowTypes DEF Terminal, Attempts
  <2>3. rows' \in [Jobs -> Rows] /\ artifact' \in [Jobs -> Nat]
    BY <1>0, <1>9, <2>2 DEF Settle, Complete
  <2>4. load' \in LoadRecords
    BY <1>0, <1>9, SpendType DEF Settle
  <2>5. notices' \subseteq Jobs /\ target' = target
    BY <1>9 DEF Settle, TypeOK
  <2> QED
    BY <1>0, <2>1, <2>3, <2>4, <2>5 DEF Attempt, TypeOK, process
<1>10. ASSUME NEW j \in Jobs, WriteStop(j) PROVE TypeOK'
  <2>1. PICK a \in Attempts : Attempt(j, a)
    BY <1>0, <1>10 DEF WriteStop, Attempts, Steps, Stops
  <2>2. rows' \in [Jobs -> Rows] /\ load' \in LoadRecords
    BY <1>0, <1>10, WrittenType, SpendType DEF WriteStop
  <2>3. UNCHANGED <<target, artifact, notices>>
    BY <1>10 DEF WriteStop
  <2> QED
    BY <1>0, <2>1, <2>2, <2>3 DEF Attempt, TypeOK, process
<1>11. ASSUME NEW j \in Jobs, Finalize(j) PROVE TypeOK'
  <2>1. attempts[j].gen \in Nat \ {0} /\ attempts[j].stop \in Stops
    BY <1>0, <1>11 DEF Finalize, AttemptInv, Attempts
  <2>2. attempts' \in [Jobs -> Attempts] /\ late' \subseteq [job : Jobs, gen : Nat \ {0}, stop : Stops]
    BY <1>0, <1>11, <2>1 DEF Finalize, TypeOK
  <2> QED
    BY <1>11, <2>2 DEF Finalize, TypeOK, process, durable
<1>12. ASSUME NEW l \in late, WriteLate(l) PROVE TypeOK'
  <2>1. l.job \in Jobs
    BY DEF TypeOK
  <2>2. rows' \in [Jobs -> Rows] /\ load' \in LoadRecords
    BY <1>0, <1>12, <2>1, WrittenType, SpendType DEF WriteLate
  <2> QED
    BY <1>12, <2>2 DEF WriteLate, TypeOK, process
<1>13. CASE OwnerLost \/ Rotate
  <2>1. attempts' \in [Jobs -> Attempts]
    <3>1. PICK stop \in Stops : StopBound(stop)
      BY <1>13 DEF OwnerLost, Rotate, Stops
    <3> QED
      BY <1>0, <3>1, AttemptTypes DEF StopBound, Steps
  <2>2. load' \in LoadRecords
    BY <1>0, <1>13, SpendType DEF OwnerLost, Rotate
  <2> QED
    BY <1>13, <2>1, <2>2 DEF OwnerLost, Rotate, TypeOK, process, durable
<1>14. CASE OwnerAvailable
  <2>1. load' \in LoadRecords
    BY <1>0, <1>14, SpendType DEF OwnerAvailable
  <2> QED
    BY <1>14, <2>1 DEF OwnerAvailable, TypeOK, process, durable
<1>15. CASE List
  <2>1. \A k \in Jobs : rows[k].state = "paused" => rows[k].gen \in Nat \ {0}
    BY <1>0 DEF RowInv, Rows
  <2>2. waking' \subseteq [job : Jobs, gen : Nat \ {0}]
    BY <1>15, <2>1 DEF List, TypeOK
  <2> QED
    BY <1>15, <2>2 DEF List, TypeOK, process, durable
<1>16. ASSUME NEW w \in waking, Resume(w) PROVE TypeOK'
  <2>1. w.job \in Jobs /\ Released(rows[w.job], "pending") \in Rows
    BY <1>0, RowTypes DEF TypeOK, Active
  <2>2. rows' \in [Jobs -> Rows] /\ notices' \subseteq Jobs
    BY <1>0, <1>16, <2>1 DEF Resume, TypeOK
  <2> QED
    BY <1>16, <2>2 DEF Resume, TypeOK, process
<1>17. CASE Shutdown
  <2>1. attempts' \in [Jobs -> Attempts]
    BY <1>0, <1>17, AttemptTypes DEF Shutdown, Stops, Steps
  <2>2. load' \in LoadRecords
    BY <1>0, <1>17, SpendType DEF Shutdown
  <2> QED
    BY <1>17, <2>1, <2>2 DEF Shutdown, TypeOK, durable
<1>18. CASE Exit \/ Crash
  <2>1. load' \in LoadRecords
    BY <1>0, <1>18, SpendType DEF Exit, Crash
  <2>2. Gone
    BY <1>18 DEF Exit, Crash
  <2> QED
    BY <1>0, <2>1, <2>2 DEF Gone, TypeOK, durable
<1>19. CASE Restart \/ UNCHANGED vars
  <2>1. CASE Restart
    <3>1. UNCHANGED <<rows, target, artifact, claimed, attempts, late, notices, listing, waking, load>>
      BY <2>1 DEF Restart, durable, memory
    <3>2. run' \in Nat \ {0} /\ mode' = "running" /\ owner' = FALSE
      BY <2>1 DEF Restart, TypeOK
    <3> QED
      BY <3>1, <3>2 DEF TypeOK
  <2>2. CASE UNCHANGED vars
    BY <2>2 DEF vars, TypeOK, process, durable, memory
  <2> QED
    BY <1>19, <2>1, <2>2
<1> QED
  BY <1>1, <1>2, <1>3, <1>4, <1>5, <1>6, <1>7, <1>8, <1>9, <1>10, <1>11, <1>12, <1>13,
     <1>14, <1>15, <1>16, <1>17, <1>18, <1>19 DEF Next
\* What AttemptInv says of the stop of one attempt.
StopOK(a) ==
    /\ a.stop # "none" => ~a.accepting
    /\ a.stop \in {"retry", "fail"} => a.step = "stopping"
    /\ a.stop = "retry" => a.failures + 1 < MaxAttempts

\* Attempt a goes on as attempt b, of the same claim and accepted no more than it was.
Goes(a, b) ==
    /\ b.gen = a.gen /\ b.failures = a.failures
    /\ b.accepting => a.accepting
    /\ a # NoAttempt

\* #start makes claim c an attempt at job k.
Starts(c, k) ==
    /\ Start(c) /\ c.job = k /\ c.step = "start" /\ ~Running(k) /\ mode # "stopping"
    /\ claimed' = claimed \ {c}
    /\ attempts'[k].gen = c.gen /\ attempts'[k].failures = c.failures
    /\ attempts'[k].stop = "none" /\ ~attempts'[k].slot

(* What a step may do to an attempt: nothing, end it, go on with it or,    *)
(* in #start, begin it; and whoever asks for a stop stops accepting it.    *)
LEMMA AttemptStep ==
    ASSUME TypeOK, AttemptInv, [Next]_vars, NEW k \in Jobs
    PROVE  /\ StopOK(attempts'[k])
           /\ \/ attempts'[k] = attempts[k] \/ attempts'[k] = NoAttempt
              \/ Goes(attempts[k], attempts'[k])
              \/ \E c \in claimed : Starts(c, k)
<1> DEFINE Good == /\ StopOK(attempts'[k])
                   /\ \/ attempts'[k] = attempts[k] \/ attempts'[k] = NoAttempt
                      \/ Goes(attempts[k], attempts'[k])
                      \/ \E c \in claimed : Starts(c, k)
<1> SUFFICES Good
  OBVIOUS
<1>0. /\ attempts \in [Jobs -> Attempts] /\ attempts[k] \in Attempts
      /\ \A j \in Jobs : StopOK(attempts[j]) /\ attempts[j].failures \in Nat
      /\ StopOK(NoAttempt) /\ MaxAttempts \in Nat
  BY JobsAssumption DEF TypeOK, Attempts, AttemptInv, StopOK, NoAttempt
<1>1. CASE attempts' = attempts
  BY <1>0, <1>1
<1>3. ASSUME NEW j \in Jobs, Notify(j) PROVE Good
  BY <1>0, <1>3 DEF Notify, Detached, StopOK, Goes, Attempts, NoAttempt, Accepting
<1>4. ASSUME NEW c \in claimed, Start(c) PROVE Good
  <2>1. c \in Claims /\ c.job \in Jobs
    BY DEF TypeOK, Claims
  <2>2. CASE mode = "stopping"
    BY <1>1, <1>4, <2>2 DEF Start
  <2>3. CASE mode # "stopping" /\ Running(c.job)
    BY <1>0, <1>4, <2>1, <2>3 DEF Start, Running, Detached, StopOK, Goes, Attempts
  <2>4. CASE mode # "stopping" /\ ~Running(c.job)
    <3>1. /\ claimed' = claimed \ {c} /\ c.step = "start"
          /\ attempts' = [attempts EXCEPT ![c.job] =
                  [NoAttempt EXCEPT !.gen = c.gen, !.failures = c.failures,
                                    !.accepting = TRUE, !.step = "resolve"]]
      BY <1>4, <2>4 DEF Start
    <3>3. CASE k = c.job
      <4>3. attempts'[k] = [NoAttempt EXCEPT !.gen = c.gen, !.failures = c.failures,
                                             !.accepting = TRUE, !.step = "resolve"]
        BY <1>0, <2>1, <3>1, <3>3
      <4>1. Starts(c, k)
        <5>1. /\ attempts'[k].gen = c.gen /\ attempts'[k].failures = c.failures
              /\ attempts'[k].stop = "none" /\ attempts'[k].slot = FALSE
          BY <4>3 DEF NoAttempt
        <5> QED
          BY <1>4, <2>4, <3>1, <3>3, <5>1 DEF Starts
      <4>2. StopOK(attempts'[k])
        BY <4>1 DEF Starts, StopOK
      <4> QED
        BY <4>1, <4>2
    <3>4. CASE k # c.job
      BY <1>0, <3>1, <3>4
    <3> QED
      BY <3>3, <3>4
  <2> QED
    BY <2>2, <2>3, <2>4
<1>5. ASSUME NEW j \in Jobs, NEW a, Attempt(j, a), attempts[j] # NoAttempt,
             a.gen = attempts[j].gen, a.failures = attempts[j].failures,
             a.accepting => attempts[j].accepting, StopOK(a)
      PROVE Good
  BY <1>0, <1>5 DEF Attempt, Goes
<1>6. ASSUME NEW j \in Jobs, Resolve(j) PROVE Good
  <2> DEFINE a == IF owner THEN [attempts[j] EXCEPT !.step = "bind"]
                  ELSE [Stopped(attempts[j], "pause") EXCEPT !.step = "stopping"]
  <2>1. Attempt(j, a)
    BY <1>6 DEF Resolve
  <2>2. /\ a.gen = attempts[j].gen /\ a.failures = attempts[j].failures
        /\ a.accepting => attempts[j].accepting
        /\ StopOK(a) /\ attempts[j] # NoAttempt
    BY <1>0, <1>6 DEF Resolve, Stopped, StopOK, Attempts, NoAttempt, Accepting
  <2> QED
    BY <1>5, <2>1, <2>2
<1>7. ASSUME NEW j \in Jobs, Bind(j) PROVE Good
  <2>1. PICK a : /\ Attempt(j, a)
                 /\ \/ a = [attempts[j] EXCEPT !.step = "done"]
                    \/ a = [attempts[j] EXCEPT !.step = "run", !.slot = TRUE]
                    \/ a = [Stopped(attempts[j], "requeue") EXCEPT !.step = "stopping"]
                    \/ a = [Detached(attempts[j]) EXCEPT !.step = "done"]
    BY <1>7 DEF Bind
  <2>2. attempts[j].step = "bind"
    BY <1>7 DEF Bind
  <2>3. /\ a.gen = attempts[j].gen /\ a.failures = attempts[j].failures
        /\ a.accepting => attempts[j].accepting
        /\ StopOK(a) /\ attempts[j] # NoAttempt
    <3>1. CASE a = [attempts[j] EXCEPT !.step = "done"]
      BY <1>0, <2>2, <3>1 DEF StopOK, Attempts, NoAttempt
    <3>2. CASE a = [attempts[j] EXCEPT !.step = "run", !.slot = TRUE]
      BY <1>0, <2>2, <3>2 DEF StopOK, Attempts, NoAttempt
    <3>3. CASE a = [Stopped(attempts[j], "requeue") EXCEPT !.step = "stopping"]
      BY <1>0, <2>2, <3>3 DEF Stopped, StopOK, Attempts, NoAttempt
    <3>4. CASE a = [Detached(attempts[j]) EXCEPT !.step = "done"]
      BY <1>0, <2>2, <3>4 DEF Detached, StopOK, Attempts, NoAttempt
    <3> QED
      BY <2>1, <3>1, <3>2, <3>3, <3>4
  <2> QED
    BY <1>5, <2>1, <2>3
<1>8. ASSUME NEW j \in Jobs, Finish(j) \/ Unwind(j) PROVE Good
  <2>1. PICK t \in Steps : Attempt(j, [attempts[j] EXCEPT !.step = t])
    BY <1>8 DEF Finish, Unwind, Steps
  <2>2. attempts[j].step \in {"run", "resolve"} /\ attempts[j] # NoAttempt
    BY <1>8 DEF Finish, Unwind, NoAttempt
  <2> DEFINE a == [attempts[j] EXCEPT !.step = t]
  <2>3. /\ a.gen = attempts[j].gen /\ a.failures = attempts[j].failures
        /\ a.accepting => attempts[j].accepting
        /\ StopOK(a)
    BY <1>0, <2>2 DEF StopOK, Attempts
  <2> QED
    BY <1>5, <2>1, <2>2, <2>3
<1>9. ASSUME NEW j \in Jobs, Fails(j) PROVE Good
  <2> DEFINE a == [Stopped(attempts[j], Retry(attempts[j])) EXCEPT !.step = "stopping"]
  <2>1. Attempt(j, a) /\ attempts[j] # NoAttempt
    BY <1>9 DEF Fails, NoAttempt
  <2>2. a.gen = attempts[j].gen /\ a.failures = attempts[j].failures /\ StopOK(a) /\ ~a.accepting
    BY <1>0 DEF Stopped, Retry, Exhausted, StopOK, Attempts
  <2> QED
    BY <1>5, <2>1, <2>2
<1>10. ASSUME NEW j \in Jobs, Settle(j) PROVE Good
  <2> DEFINE a == [Detached(attempts[j]) EXCEPT !.step = "done"]
  <2>1. Attempt(j, a) /\ attempts[j].step = "settle"
    BY <1>10 DEF Settle
  <2>2. /\ a.gen = attempts[j].gen /\ a.failures = attempts[j].failures
        /\ StopOK(a) /\ ~a.accepting /\ attempts[j] # NoAttempt
    BY <1>0, <2>1 DEF Detached, StopOK, Attempts, NoAttempt
  <2> QED
    BY <1>5, <2>1, <2>2
<1>11. ASSUME NEW j \in Jobs, HeartbeatLost(j) PROVE Good
  <2> DEFINE a == Stopped(attempts[j], "lost")
  <2>1. Attempt(j, a) /\ attempts[j] # NoAttempt
    BY <1>11 DEF HeartbeatLost, NoAttempt, Accepting
  <2>2. a.gen = attempts[j].gen /\ a.failures = attempts[j].failures /\ StopOK(a) /\ ~a.accepting
    BY <1>0 DEF Stopped, StopOK, Attempts
  <2> QED
    BY <1>5, <2>1, <2>2
<1>12. ASSUME NEW j \in Jobs, WriteStop(j) PROVE Good
  <2>1. PICK t : Attempt(j, [attempts[j] EXCEPT !.stop = "none", !.step = t])
    BY <1>12 DEF WriteStop
  <2> DEFINE a == [attempts[j] EXCEPT !.stop = "none", !.step = t]
  <2>2. /\ a.gen = attempts[j].gen /\ a.failures = attempts[j].failures
        /\ a.accepting = attempts[j].accepting
        /\ StopOK(a) /\ attempts[j] # NoAttempt
    BY <1>0, <1>12 DEF WriteStop, StopOK, Attempts, NoAttempt
  <2> QED
    BY <1>5, <2>1, <2>2
<1>13. ASSUME NEW j \in Jobs, Finalize(j) PROVE Good
  BY <1>0, <1>13 DEF Finalize
<1>15. CASE OwnerLost \/ Rotate \/ Shutdown
  <2>1. PICK stop \in Stops \ {"retry", "fail"} :
          \/ attempts'[k] = attempts[k]
          \/ attempts'[k] = Stopped(attempts[k], stop) /\ Accepting(k)
    BY <1>0, <1>15 DEF OwnerLost, Rotate, Shutdown, StopBound, Stops
  <2> QED
    <3>1. CASE attempts'[k] = attempts[k]
      BY <1>0, <3>1
    <3>2. CASE attempts'[k] = Stopped(attempts[k], stop) /\ Accepting(k)
      <4>1. attempts[k] # NoAttempt
        BY <3>2 DEF Accepting, NoAttempt
      <4>2. /\ attempts'[k].stop = stop /\ ~attempts'[k].accepting
            /\ attempts'[k].gen = attempts[k].gen /\ attempts'[k].failures = attempts[k].failures
        BY <1>0, <3>2 DEF Stopped, Attempts
      <4> QED
        BY <4>1, <4>2 DEF StopOK, Goes
    <3> QED
      BY <2>1, <3>1, <3>2
<1>16. CASE Exit \/ Crash
  BY <1>0, <1>16 DEF Exit, Crash, Gone
<1> QED
  <2>1. CASE OwnerAvailable \/ List \/ Restart \/ UNCHANGED vars \/ Claim
    BY <1>1, <2>1 DEF OwnerAvailable, List, Restart, Claim, vars, memory
  <2>2. ASSUME NEW j \in Jobs, Cancel(j) \/ Expire(j) \/ \E t \in Targets : Enqueue(j, t)
        PROVE Good
    BY <1>1, <2>2 DEF Cancel, Expire, Enqueue, memory
  <2>3. CASE \/ \E c \in claimed : RequeueClaim(c)
             \/ \E l \in late : WriteLate(l)
             \/ \E w \in waking : Resume(w)
    BY <1>1, <2>3 DEF RequeueClaim, WriteLate, Resume
  <2> HIDE DEF Good
  <2> QED
    BY <1>3, <1>4, <1>6, <1>7, <1>8, <1>9, <1>10, <1>11, <1>12, <1>13, <1>15, <1>16,
       <2>1, <2>2, <2>3 DEF Next
(* What a release leaves of a row.                                         *)
LEMMA ReleasedFields ==
    ASSUME NEW r \in Rows, NEW s
    PROVE  /\ Released(r, s).state = s /\ Released(r, s).gen = r.gen
           /\ Released(r, s).target = r.target /\ Released(r, s).tgen = r.tgen
           /\ Released(r, s).failures = r.failures
           /\ Failed(r, s).state = s /\ Failed(r, s).gen = r.gen
           /\ Failed(r, s).target = r.target /\ Failed(r, s).tgen = r.tgen
           /\ Failed(r, s).failures = r.failures + 1
<1>1. /\ Released(r, s).state = s /\ Released(r, s).gen = r.gen
      /\ Released(r, s).target = r.target /\ Released(r, s).tgen = r.tgen
      /\ Released(r, s).failures = r.failures
  BY DEF Released, Rows
<1>2. /\ Failed(r, s).state = s /\ Failed(r, s).gen = r.gen
      /\ Failed(r, s).target = r.target /\ Failed(r, s).tgen = r.tgen
      /\ Failed(r, s).failures = r.failures + 1
  BY DEF Failed, Released, Rows
<1> QED
  BY <1>1, <1>2

\* Row r becomes row q and stays the same job, with the same claims made.
SameJob(r, q) == q.target = r.target /\ q.tgen = r.tgen /\ q.gen = r.gen

(* A stop is written only while its claim is the last one and stands.      *)
LEMMA WrittenRow ==
    ASSUME TypeOK, NEW j \in Jobs, NEW gen, NEW stop,
           Written(j, gen, stop)[j] # rows[j]
    PROVE  /\ rows[j].state = "running" /\ rows[j].gen = gen
           /\ SameJob(rows[j], Written(j, gen, stop)[j])
           /\ \/ /\ stop \in {"pause", "requeue", "shutdown"}
                 /\ Written(j, gen, stop)[j].state \in {"pending", "paused"}
                 /\ Written(j, gen, stop)[j].failures = rows[j].failures
              \/ /\ stop = "retry"
                 /\ Written(j, gen, stop)[j].state = "pending"
                 /\ Written(j, gen, stop)[j].failures = rows[j].failures + 1
              \/ /\ stop = "fail"
                 /\ Written(j, gen, stop)[j].state = "failed"
                 /\ Written(j, gen, stop)[j].failures = rows[j].failures + 1
<1>1. rows \in [Jobs -> Rows] /\ rows[j] \in Rows
  BY DEF TypeOK
<1>2. CASE stop = "pause" /\ LockControl(j, gen, "running")
  <2>1. Written(j, gen, stop)[j] = Released(rows[j], "paused")
    BY <1>1, <1>2 DEF Written
  <2> QED
    BY <1>1, <1>2, <2>1, ReleasedFields DEF LockControl, SameJob
<1>3. CASE stop \in {"requeue", "shutdown"} /\ LockClaim(j, gen)
  <2>1. Written(j, gen, stop)[j] = Released(rows[j], "pending")
    BY <1>1, <1>3 DEF Written
  <2> QED
    BY <1>1, <1>3, <2>1, ReleasedFields DEF LockClaim, SameJob
<1>4. CASE stop = "retry" /\ LockClaim(j, gen)
  <2>1. Written(j, gen, stop)[j] = Failed(rows[j], "pending")
    BY <1>1, <1>4 DEF Written
  <2> QED
    BY <1>1, <1>4, <2>1, ReleasedFields DEF LockClaim, SameJob
<1>5. CASE stop = "fail" /\ LockClaim(j, gen)
  <2>1. Written(j, gen, stop)[j] = Failed(rows[j], "failed")
    BY <1>1, <1>5 DEF Written
  <2> QED
    BY <1>1, <1>5, <2>1, ReleasedFields DEF LockClaim, SameJob
<1>6. CASE /\ ~(stop = "pause" /\ LockControl(j, gen, "running"))
           /\ ~(stop \in {"requeue", "shutdown"} /\ LockClaim(j, gen))
           /\ ~(stop = "retry" /\ LockClaim(j, gen))
           /\ ~(stop = "fail" /\ LockClaim(j, gen))
  BY <1>6 DEF Written
<1> QED
  BY <1>2, <1>3, <1>4, <1>5, <1>6

\* What a step may do to the row of job k: `enqueue' ...
RowEnqueued(k) ==
    /\ rows[k].state = "none" /\ rows'[k].state = "pending"
    /\ rows'[k].gen = 0 /\ rows'[k].failures = 0

\* ... `claim' ...
RowClaimed(k) ==
    /\ Claim
    /\ rows[k].state \in {"pending", "running"} /\ rows'[k].state = "running"
    /\ rows'[k].target = rows[k].target /\ rows'[k].tgen = rows[k].tgen
    /\ rows'[k].gen = rows[k].gen + 1 /\ rows'[k].failures = rows[k].failures

\* ... the passing of time ...
RowExpired(k) ==
    /\ rows[k].state = "running" /\ rows'[k].state = "running"
    /\ SameJob(rows[k], rows'[k]) /\ rows'[k].failures = rows[k].failures

\* ... whatever ends it ...
RowEnded(k) ==
    /\ rows[k].state \in Active /\ rows'[k].state \in Terminal \ {"completed"}
    /\ SameJob(rows[k], rows'[k])
    /\ rows'[k].failures = rows[k].failures \/ rows'[k].failures = rows[k].failures + 1

\* ... its settlement ...
RowCompleted(k) ==
    /\ rows[k].state = "running" /\ rows'[k].state = "completed"
    /\ SameJob(rows[k], rows'[k]) /\ rows'[k].failures = rows[k].failures
    /\ artifact'[k] = rows[k].gen

\* ... or what puts it aside, when nobody works on it any more.
RowWaits(k) ==
    /\ rows[k].state \in {"running", "paused"} /\ rows'[k].state \in {"pending", "paused"}
    /\ SameJob(rows[k], rows'[k]) /\ rows'[k].failures < MaxAttempts
    /\ ~attempts'[k].accepting /\ \A c \in claimed' : c.job # k

RowMoves(k) ==
    \/ RowEnqueued(k) \/ RowClaimed(k) \/ RowExpired(k) \/ RowEnded(k) \/ RowWaits(k)
(* These are all the changes a row sees.  A late pause or requeue, or a    *)
(* claim given back, meets a row whose claim is its own, so no accepted    *)
(* attempt and no waiting claim is left at a job that is put aside.        *)
LEMMA RowStep ==
    ASSUME IndInv, [Next]_vars, NEW k \in Jobs
    PROVE  \/ rows'[k] = rows[k] /\ artifact'[k] = artifact[k]
           \/ RowMoves(k) /\ artifact'[k] = artifact[k]
           \/ RowCompleted(k)
<1> DEFINE Good == \/ rows'[k] = rows[k] /\ artifact'[k] = artifact[k]
                   \/ RowMoves(k) /\ artifact'[k] = artifact[k]
                   \/ RowCompleted(k)
<1> SUFFICES Good
  OBVIOUS
<1> USE DEF SameJob
<1>0. /\ TypeOK /\ rows \in [Jobs -> Rows] /\ rows[k] \in Rows /\ attempts \in [Jobs -> Attempts]
      /\ artifact \in [Jobs -> Nat] /\ MaxAttempts \in Nat
      /\ AttemptInv /\ ClaimInv /\ LateInv /\ FailureBudget /\ WaitingJobsAreIdle
  BY JobsAssumption DEF IndInv, JobsInv, TypeOK
<1>1. CASE UNCHANGED <<rows, artifact>>
  BY <1>1
<1>2. ASSUME NEW j \in Jobs, NEW t \in Targets, Enqueue(j, t) PROVE Good
  <2>1. artifact' = artifact
    BY <1>2 DEF Enqueue
  <2>2. CASE k = j
    <3>1. rows'[k] = [NoRow EXCEPT !.state = "pending", !.target = t, !.tgen = target[t] + 1]
      BY <1>2, <2>2 DEF Enqueue
    <3>2. RowEnqueued(k)
      BY <1>2, <2>2, <3>1 DEF Enqueue, RowEnqueued, NoRow
    <3> QED
      BY <2>1, <3>2 DEF RowMoves
  <2>3. CASE k # j /\ Superseded(k, t, target[t] + 1)
    <3>1. rows'[k] = Released(rows[k], "superseded") /\ rows[k].state \in Active
      BY <1>2, <2>3 DEF Enqueue, Superseded
    <3>2. RowEnded(k)
      BY <1>0, <3>1, ReleasedFields DEF RowEnded, Terminal
    <3> QED
      BY <2>1, <3>2 DEF RowMoves
  <2>4. CASE k # j /\ ~Superseded(k, t, target[t] + 1)
    BY <1>2, <2>1, <2>4 DEF Enqueue
  <2> QED
    BY <2>2, <2>3, <2>4
<1>3. ASSUME NEW j \in Jobs, Cancel(j) PROVE Good
  <2>1. artifact' = artifact /\ (k # j => rows'[k] = rows[k])
    BY <1>0, <1>3 DEF Cancel
  <2>2. CASE k = j
    <3>1. rows'[k] = Released(rows[k], "cancelled") /\ rows[k].state \in Active
      BY <1>0, <1>3, <2>2 DEF Cancel
    <3>2. RowEnded(k)
      BY <1>0, <3>1, ReleasedFields DEF RowEnded, Terminal
    <3> QED
      BY <2>1, <3>2 DEF RowMoves
  <2> QED
    BY <2>1, <2>2
<1>4. ASSUME NEW j \in Jobs, Expire(j) PROVE Good
  <2>1. artifact' = artifact /\ (k # j => rows'[k] = rows[k])
    BY <1>0, <1>4 DEF Expire
  <2>2. CASE k = j
    <3>1. rows'[k] = [rows[k] EXCEPT !.expired = TRUE] /\ rows[k].state = "running"
      BY <1>0, <1>4, <2>2 DEF Expire
    <3>2. RowExpired(k)
      BY <1>0, <3>1 DEF RowExpired, Rows
    <3> QED
      BY <2>1, <3>2 DEF RowMoves
  <2> QED
    BY <2>1, <2>2
<1>5. CASE Claim
  <2>1. artifact' = artifact
    BY <1>5 DEF Claim
  <2>2. \/ rows'[k] = rows[k]
        \/ /\ Claimable(k)
           /\ rows'[k] = [rows[k] EXCEPT !.state = "running", !.gen = @ + 1,
                                         !.run = run, !.expired = FALSE]
    BY <1>0, <1>5 DEF Claim
  <2>3. CASE /\ Claimable(k)
             /\ rows'[k] = [rows[k] EXCEPT !.state = "running", !.gen = @ + 1,
                                           !.run = run, !.expired = FALSE]
    <3>1. /\ rows'[k].state = "running" /\ rows'[k].gen = rows[k].gen + 1
          /\ rows'[k].target = rows[k].target /\ rows'[k].tgen = rows[k].tgen
          /\ rows'[k].failures = rows[k].failures
      BY <1>0, <2>3 DEF Rows
    <3>2. RowClaimed(k)
      BY <1>5, <2>3, <3>1 DEF RowClaimed, Claimable
    <3> QED
      BY <2>1, <3>2 DEF RowMoves
  <2> QED
    BY <2>1, <2>2, <2>3
<1>6. ASSUME NEW c \in claimed, RequeueClaim(c) PROVE Good
  <2>1. c.job \in Jobs /\ artifact' = artifact /\ (k # c.job => rows'[k] = rows[k])
    BY <1>0, <1>6 DEF RequeueClaim, TypeOK, Claims
  <2>2. CASE k = c.job /\ rows'[k] # rows[k]
    <3>1. rows'[k] = Released(rows[k], "pending") /\ rows[k].state = "running"
      BY <1>0, <1>6, <2>2 DEF RequeueClaim, LockClaim
    <3>2. rows[k].failures < MaxAttempts
      BY <1>0, <3>1 DEF FailureBudget, Active
    <3>3. ~attempts'[k].accepting
      BY <1>0, <1>6, <2>2 DEF RequeueClaim, ClaimInv, Accepting
    <3>4. \A d \in claimed' : d.job # k
      BY <1>0, <1>6, <2>2 DEF RequeueClaim, ClaimInv
    <3>5. RowWaits(k)
      BY <1>0, <3>1, <3>2, <3>3, <3>4, ReleasedFields DEF RowWaits
    <3> QED
      BY <2>1, <3>5 DEF RowMoves
  <2> QED
    BY <2>1, <2>2
<1>7. ASSUME NEW j \in Jobs, Settle(j) PROVE Good
  <2>1. k # j => rows'[k] = rows[k] /\ artifact'[k] = artifact[k]
    BY <1>0, <1>7 DEF Settle, Complete
  <2>2. CASE k = j /\ Complete(j, attempts[j].gen)
    <3>1. /\ rows'[k] = Released(rows[k], "completed") /\ rows[k].state = "running"
          /\ artifact'[k] = rows[k].gen
      BY <1>0, <2>2 DEF Complete, LockClaim
    <3> QED
      BY <1>0, <3>1, ReleasedFields DEF RowCompleted
  <2>3. CASE ~Complete(j, attempts[j].gen)
    BY <1>7, <2>3 DEF Settle
  <2> QED
    BY <2>1, <2>2, <2>3
<1>8. ASSUME NEW j \in Jobs, WriteStop(j) PROVE Good
  <2> DEFINE a == attempts[j]
             stop == IF a.stop # "lost" THEN a.stop
                     ELSE IF a.step = "run" THEN "fail" ELSE Retry(a)
  <2>1. /\ artifact' = artifact /\ claimed' = claimed /\ a.stop # "none"
        /\ rows' = rows \/ rows' = Written(j, a.gen, stop)
    BY <1>8 DEF WriteStop, Attempt
  <2>2. k # j => rows'[k] = rows[k]
    BY <1>0, <2>1, WrittenType
  <2>3. CASE k = j /\ rows'[k] # rows[k]
    <3>1. Written(j, a.gen, stop)[j] # rows[j] /\ rows'[k] = Written(j, a.gen, stop)[j]
      BY <2>1, <2>3
    <3>2. a \in Attempts /\ a.failures \in Nat
      BY <1>0 DEF Attempts
    <3>3. ~attempts'[k].accepting
      <4>1. ~a.accepting
        BY <1>0, <2>1 DEF AttemptInv
      <4>2. \E t : attempts'[k] = [a EXCEPT !.stop = "none", !.step = t]
        BY <1>0, <1>8, <2>3 DEF WriteStop, Attempt
      <4> QED
        BY <3>2, <4>1, <4>2 DEF Attempts
    <3>4. stop = "retry" => a.failures + 1 < MaxAttempts
      BY <1>0, <3>2 DEF AttemptInv, Retry, Exhausted
    <3> HIDE DEF stop
    <3>5. /\ rows[k].state = "running" /\ rows[k].gen = a.gen
          /\ SameJob(rows[k], rows'[k])
          /\ \/ /\ rows'[k].state \in {"pending", "paused"}
                /\ rows'[k].failures = rows[k].failures
             \/ /\ stop = "retry" /\ rows'[k].state = "pending"
                /\ rows'[k].failures = rows[k].failures + 1
             \/ /\ rows'[k].state = "failed"
                /\ rows'[k].failures = rows[k].failures + 1
      BY <1>0, <2>3, <3>1, WrittenRow
    <3>6. a.failures = rows[k].failures /\ rows[k].failures < MaxAttempts
      BY <1>0, <2>3, <3>5 DEF AttemptInv, FailureBudget, Active
    <3>7. \A c \in claimed' : c.job # k
      <4> SUFFICES ASSUME NEW c \in claimed, c.job = k PROVE FALSE
        BY <2>1
      <4>1. a.gen < c.gen /\ c.gen <= a.gen /\ a.gen \in Nat /\ c.gen \in Nat
        BY <1>0, <2>3, <3>2, <3>5 DEF ClaimInv, TypeOK, Claims, Attempts
      <4> QED
        BY <4>1
    <3>8. RowWaits(k) \/ RowEnded(k)
      BY <3>3, <3>4, <3>5, <3>6, <3>7 DEF RowWaits, RowEnded, Active, Terminal
    <3> QED
      BY <2>1, <3>8 DEF RowMoves
  <2> QED
    BY <2>1, <2>2, <2>3
<1>9. ASSUME NEW l \in late, WriteLate(l) PROVE Good
  <2>1. /\ artifact' = artifact /\ claimed' = claimed /\ attempts' = attempts
        /\ rows' = rows \/ rows' = Written(l.job, l.gen, l.stop)
    BY <1>9 DEF WriteLate
  <2>2. /\ l.job \in Jobs /\ l.gen \in Nat /\ l.stop \in {"pause", "requeue", "shutdown"}
        /\ \A c \in claimed : c.job = l.job => l.gen < c.gen
        /\ attempts[l.job] # NoAttempt => l.gen < attempts[l.job].gen
    BY <1>0 DEF LateInv, TypeOK, Running
  <2>3. k # l.job => rows'[k] = rows[k]
    BY <1>0, <2>1, <2>2, WrittenType
  <2>4. CASE k = l.job /\ rows'[k] # rows[k]
    <3>1. /\ Written(l.job, l.gen, l.stop)[k] # rows[k]
          /\ rows'[k] = Written(l.job, l.gen, l.stop)[k]
      BY <2>1, <2>4
    <3>2. /\ rows[k].state = "running" /\ rows[k].gen = l.gen
          /\ SameJob(rows[k], rows'[k])
          /\ rows'[k].state \in {"pending", "paused"} /\ rows'[k].failures = rows[k].failures
      BY <1>0, <2>2, <2>4, <3>1, WrittenRow
    <3>3. rows[k].failures < MaxAttempts
      BY <1>0, <3>2 DEF FailureBudget, Active
    <3>4. \A c \in claimed' : c.job # k
      <4> SUFFICES ASSUME NEW c \in claimed, c.job = k PROVE FALSE
        BY <2>1
      <4>1. l.gen < c.gen /\ c.gen <= l.gen /\ c.gen \in Nat
        BY <1>0, <2>2, <2>4, <3>2 DEF ClaimInv, TypeOK, Claims
      <4> QED
        BY <2>2, <4>1
    <3>5. ~attempts'[k].accepting
      <4> SUFFICES ASSUME attempts[k].accepting PROVE FALSE
        BY <2>1
      <4>1. attempts[k] # NoAttempt
        BY DEF NoAttempt
      <4>2. l.gen < attempts[k].gen /\ attempts[k].gen <= l.gen /\ attempts[k].gen \in Nat
        BY <1>0, <2>2, <2>4, <3>2, <4>1 DEF AttemptInv, Attempts, Running
      <4> QED
        BY <2>2, <4>2
    <3>6. RowWaits(k)
      BY <3>2, <3>3, <3>4, <3>5 DEF RowWaits
    <3> QED
      BY <2>1, <3>6 DEF RowMoves
  <2> QED
    BY <2>1, <2>3, <2>4
<1>10. ASSUME NEW w \in waking, Resume(w) PROVE Good
  <2>1. /\ w.job \in Jobs /\ artifact' = artifact /\ claimed' = claimed /\ attempts' = attempts
        /\ k # w.job => rows'[k] = rows[k]
    BY <1>0, <1>10 DEF Resume, TypeOK
  <2>2. CASE k = w.job /\ rows'[k] # rows[k]
    <3>1. rows'[k] = Released(rows[k], "pending") /\ rows[k].state = "paused"
      BY <1>0, <1>10, <2>2 DEF Resume, LockControl
    <3>2. rows[k].failures < MaxAttempts /\ ~attempts[k].accepting
      BY <1>0, <3>1 DEF FailureBudget, Active, WaitingJobsAreIdle, Accepting
    <3>3. \A c \in claimed' : c.job # k
      BY <1>0, <2>1, <3>1 DEF ClaimInv
    <3>4. RowWaits(k)
      BY <1>0, <2>1, <3>1, <3>2, <3>3, ReleasedFields DEF RowWaits
    <3> QED
      BY <2>1, <3>4 DEF RowMoves
  <2> QED
    BY <2>1, <2>2
<1> QED
  <2>1. CASE \/ OwnerLost \/ Rotate \/ OwnerAvailable \/ List \/ Shutdown \/ Exit \/ Crash
             \/ Restart \/ UNCHANGED vars
    BY <1>1, <2>1 DEF OwnerLost, Rotate, OwnerAvailable, List, Shutdown, Exit, Crash, Gone,
                      Restart, vars, durable
  <2>2. ASSUME NEW j \in Jobs,
               \/ Notify(j) \/ Resolve(j) \/ Bind(j) \/ Finish(j) \/ Fails(j)
               \/ Unwind(j) \/ HeartbeatLost(j) \/ Finalize(j)
        PROVE Good
    BY <1>1, <2>2 DEF Notify, Resolve, Bind, Finish, Fails, Unwind, HeartbeatLost, Finalize, durable
  <2>3. ASSUME NEW c \in claimed, Start(c) PROVE Good
    BY <1>1, <2>3 DEF Start, durable
  <2> HIDE DEF Good
  <2> QED
    BY <1>2, <1>3, <1>4, <1>5, <1>6, <1>7, <1>8, <1>9, <1>10, <2>1, <2>2, <2>3 DEF Next
(* Only a new generation moves a target, and only forward.                 *)
LEMMA TargetStep ==
    ASSUME TypeOK, [Next]_vars
    PROVE  \/ target' = target /\ \A k \in Jobs : ~RowEnqueued(k)
           \/ \E j \in Jobs, t \in Targets : Enqueue(j, t)
<1>0. rows \in [Jobs -> Rows] /\ attempts \in [Jobs -> Attempts]
  BY DEF TypeOK
<1>1. ASSUME UNCHANGED <<rows, target>>
      PROVE  target' = target /\ \A k \in Jobs : ~RowEnqueued(k)
  BY <1>1 DEF RowEnqueued
<1>2. ASSUME NEW j \in Jobs, UNCHANGED target, rows[j].state # "none",
             \A k \in Jobs \ {j} : rows'[k] = rows[k]
      PROVE  target' = target /\ \A k \in Jobs : ~RowEnqueued(k)
  BY <1>2 DEF RowEnqueued
<1>3. ASSUME NEW j \in Jobs,
             Cancel(j) \/ Expire(j) \/ Settle(j)
      PROVE  target' = target /\ \A k \in Jobs : ~RowEnqueued(k)
  <2>1. UNCHANGED target /\ \A k \in Jobs \ {j} : rows'[k] = rows[k]
    BY <1>0, <1>3 DEF Cancel, Expire, Settle, Complete
  <2>2. rows[j].state # "none" \/ rows' = rows
    BY <1>3 DEF Cancel, Expire, Settle, Complete, LockClaim, Active
  <2> QED
    BY <1>1, <1>2, <2>1, <2>2
<1>4. ASSUME NEW j \in Jobs, NEW gen, NEW stop, UNCHANGED target,
             rows' = Written(j, gen, stop) \/ rows' = rows
      PROVE  target' = target /\ \A k \in Jobs : ~RowEnqueued(k)
  <2>1. \A k \in Jobs \ {j} : rows'[k] = rows[k]
    BY <1>4, WrittenType
  <2>2. rows'[j] # rows[j] => rows[j].state = "running"
    BY <1>4, WrittenRow
  <2> QED
    BY <1>4, <2>1, <2>2 DEF RowEnqueued
<1>5. ASSUME NEW j \in Jobs, WriteStop(j)
      PROVE  target' = target /\ \A k \in Jobs : ~RowEnqueued(k)
  <2>1. UNCHANGED target /\ \E stop : rows' = Written(j, attempts[j].gen, stop) \/ rows' = rows
    BY <1>5 DEF WriteStop
  <2> QED
    BY <1>4, <2>1
<1>6. ASSUME NEW l \in late, WriteLate(l)
      PROVE  target' = target /\ \A k \in Jobs : ~RowEnqueued(k)
  <2>1. l.job \in Jobs /\ UNCHANGED target /\ (rows' = Written(l.job, l.gen, l.stop) \/ rows' = rows)
    BY <1>6 DEF WriteLate, TypeOK
  <2> QED
    BY <1>4, <2>1
<1>7. ASSUME NEW c \in claimed, Start(c) \/ RequeueClaim(c)
      PROVE  target' = target /\ \A k \in Jobs : ~RowEnqueued(k)
  <2>1. c.job \in Jobs /\ UNCHANGED target /\ \A k \in Jobs \ {c.job} : rows'[k] = rows[k]
    BY <1>0, <1>7 DEF Start, RequeueClaim, TypeOK, Claims, durable
  <2>2. rows[c.job].state # "none" \/ rows' = rows
    BY <1>7 DEF Start, RequeueClaim, LockClaim, durable
  <2> QED
    BY <1>1, <1>2, <2>1, <2>2
<1>8. ASSUME NEW w \in waking, Resume(w)
      PROVE  target' = target /\ \A k \in Jobs : ~RowEnqueued(k)
  <2>1. w.job \in Jobs /\ UNCHANGED target /\ \A k \in Jobs \ {w.job} : rows'[k] = rows[k]
    BY <1>0, <1>8 DEF Resume, TypeOK
  <2>2. rows[w.job].state # "none" \/ rows' = rows
    BY <1>8 DEF Resume, LockControl
  <2> QED
    BY <1>1, <1>2, <2>1, <2>2
<1>9. CASE Claim
  <2>1. UNCHANGED target /\ \A k \in Jobs : rows'[k] = rows[k] \/ Claimable(k)
    BY <1>0, <1>9 DEF Claim
  <2> QED
    BY <2>1 DEF RowEnqueued, Claimable
<1> QED
  <2>1. CASE \/ OwnerLost \/ Rotate \/ OwnerAvailable \/ List \/ Shutdown \/ Exit \/ Crash
             \/ Restart \/ UNCHANGED vars
    BY <1>1, <2>1 DEF OwnerLost, Rotate, OwnerAvailable, List, Shutdown, Exit, Crash, Gone,
                      Restart, vars, durable
  <2>2. ASSUME NEW j \in Jobs,
               \/ Notify(j) \/ Resolve(j) \/ Bind(j) \/ Finish(j) \/ Fails(j)
               \/ Unwind(j) \/ HeartbeatLost(j) \/ Finalize(j)
        PROVE target' = target /\ \A k \in Jobs : ~RowEnqueued(k)
    BY <1>1, <2>2 DEF Notify, Resolve, Bind, Finish, Fails, Unwind, HeartbeatLost, Finalize, durable
  <2> HIDE DEF RowEnqueued
  <2> QED
    BY <1>3, <1>5, <1>6, <1>7, <1>8, <1>9, <2>1, <2>2 DEF Next

(* The rows: generations stay apart, what is superseded is every active    *)
(* job of the target, artifacts come from the last claim and no job runs   *)
(* over its budget.                                                        *)
LEMMA RowInvStep ==
    ASSUME IndInv, [Next]_vars
    PROVE  RowInv' /\ OneActivePerTarget' /\ ArtifactOfLastClaim' /\ FailureBudget'
<1>0. /\ TypeOK /\ TypeOK' /\ rows \in [Jobs -> Rows] /\ rows' \in [Jobs -> Rows]
      /\ target \in [Targets -> Nat] /\ target' \in [Targets -> Nat] /\ MaxAttempts \in Nat \ {0}
      /\ RowInv /\ OneActivePerTarget /\ ArtifactOfLastClaim /\ FailureBudget
      /\ NoTarget \notin Targets
  BY JobsAssumption, TypeStep DEF IndInv, JobsInv, TypeOK
<1>1. \A k \in Jobs : /\ rows[k].gen \in Nat /\ rows'[k].gen \in Nat
                      /\ rows[k].tgen \in Nat /\ rows'[k].tgen \in Nat
                      /\ rows[k].failures \in Nat /\ rows'[k].failures \in Nat
  BY <1>0 DEF Rows
<1>2. \A k \in Jobs : \/ rows'[k] = rows[k] /\ artifact'[k] = artifact[k]
                      \/ RowMoves(k) /\ artifact'[k] = artifact[k]
                      \/ RowCompleted(k)
  BY RowStep
<1>3. FailureBudget'
  <2> SUFFICES ASSUME NEW k \in Jobs
               PROVE /\ rows'[k].state \in Active => rows'[k].failures < MaxAttempts
                     /\ rows'[k].failures <= MaxAttempts
    BY DEF FailureBudget
  <2>1. /\ rows[k].state \in Active => rows[k].failures < MaxAttempts
        /\ rows[k].failures <= MaxAttempts
    BY <1>0 DEF FailureBudget
  <2> QED
    BY <1>0, <1>1, <1>2, <2>1 DEF RowMoves, RowEnqueued, RowClaimed, RowExpired, RowEnded, RowWaits,
                       RowCompleted, Active, Terminal
<1>4. ArtifactOfLastClaim'
  <2> SUFFICES ASSUME NEW k \in Jobs
               PROVE /\ (artifact'[k] # 0) = (rows'[k].state = "completed")
                     /\ artifact'[k] # 0 => artifact'[k] = rows'[k].gen
    BY DEF ArtifactOfLastClaim
  <2>1. /\ (artifact[k] # 0) = (rows[k].state = "completed")
        /\ artifact[k] # 0 => artifact[k] = rows[k].gen
        /\ rows[k].state = "running" => rows[k].gen > 0
    BY <1>0 DEF ArtifactOfLastClaim, RowInv
  <2>2. CASE RowCompleted(k)
    BY <1>1, <2>1, <2>2 DEF RowCompleted, SameJob
  <2>3. CASE RowMoves(k) /\ artifact'[k] = artifact[k]
    BY <2>1, <2>3 DEF RowMoves, RowEnqueued, RowClaimed, RowExpired, RowEnded, RowWaits, Active, Terminal
  <2> QED
    BY <1>2, <2>1, <2>2, <2>3
<1>5. CASE target' = target /\ \A k \in Jobs : ~RowEnqueued(k)
  <2>1. \A k \in Jobs : rows'[k] = rows[k] \/
          /\ rows'[k].target = rows[k].target /\ rows'[k].tgen = rows[k].tgen
          /\ rows[k].state \in Active /\ rows'[k].state # "none"
          /\ rows'[k].gen >= rows[k].gen
          /\ rows'[k].state \in {"paused", "running", "completed"} => rows'[k].gen > 0
    <3> SUFFICES ASSUME NEW k \in Jobs, rows'[k] # rows[k]
                 PROVE  /\ rows'[k].target = rows[k].target /\ rows'[k].tgen = rows[k].tgen
                        /\ rows[k].state \in Active /\ rows'[k].state # "none"
                        /\ rows'[k].gen >= rows[k].gen
                        /\ rows'[k].state \in {"paused", "running", "completed"} => rows'[k].gen > 0
      OBVIOUS
    <3>1. rows[k].state \in {"paused", "running"} => rows[k].gen > 0
      BY <1>0 DEF RowInv
    <3> QED
      BY <1>1, <1>2, <1>5, <3>1 DEF RowMoves, RowClaimed, RowExpired, RowEnded, RowWaits,
                       RowCompleted, SameJob, Active, Terminal
  <2>2. RowInv'
    <3>1. ASSUME NEW j \in Jobs
          PROVE  /\ rows'[j].state = "none" => rows'[j] = NoRow
                 /\ rows'[j].state # "none" =>
                      rows'[j].target \in Targets /\ rows'[j].tgen <= target'[rows'[j].target]
                 /\ rows'[j].state \in {"paused", "running", "completed"} => rows'[j].gen > 0
      BY <1>0, <1>5, <2>1 DEF RowInv, Active
    <3>2. ASSUME NEW j \in Jobs, NEW k \in Jobs, rows'[j].state # "none",
                 rows'[j].target = rows'[k].target, rows'[j].tgen = rows'[k].tgen
          PROVE  j = k
      <4>1. rows[j].state # "none" /\ rows[j].target = rows[k].target /\ rows[j].tgen = rows[k].tgen
        BY <2>1, <3>2 DEF Active
      <4> QED
        BY <1>0, <4>1 DEF RowInv
    <3> QED
      BY <3>1, <3>2 DEF RowInv
  <2>3. OneActivePerTarget'
    <3> SUFFICES ASSUME NEW j \in Jobs, rows'[j].state \in Active
                 PROVE  /\ rows'[j].tgen = target'[rows'[j].target]
                        /\ \A k \in Jobs \ {j} :
                              rows'[k].target = rows'[j].target => rows'[k].state \notin Active
      BY DEF OneActivePerTarget
    <3>1. /\ rows[j].state \in Active
          /\ rows'[j].target = rows[j].target /\ rows'[j].tgen = rows[j].tgen
      BY <2>1
    <3>2. ASSUME NEW k \in Jobs \ {j}, rows'[k].target = rows'[j].target
          PROVE  rows'[k].state \notin Active
      BY <1>0, <2>1, <3>1, <3>2 DEF OneActivePerTarget
    <3> QED
      BY <1>0, <1>5, <3>1, <3>2 DEF OneActivePerTarget
  <2> QED
    BY <1>3, <1>4, <2>2, <2>3
<1>6. ASSUME NEW i \in Jobs, NEW t \in Targets, Enqueue(i, t)
      PROVE  RowInv' /\ OneActivePerTarget'
  <2> DEFINE g == target[t] + 1
  <2>1. /\ target' = [target EXCEPT ![t] = g] /\ g \in Nat /\ g > target[t] /\ target[t] \in Nat
        /\ rows[i].state = "none"
    BY <1>0, <1>6 DEF Enqueue
  <2>2. /\ rows'[i].state = "pending" /\ rows'[i].target = t /\ rows'[i].tgen = g
        /\ rows'[i].gen = 0
    BY <1>0, <1>6 DEF Enqueue, NoRow
  <2>3. ASSUME NEW k \in Jobs \ {i}
        PROVE  /\ rows'[k].target = rows[k].target /\ rows'[k].tgen = rows[k].tgen
               /\ rows'[k].gen = rows[k].gen
               /\ \/ rows'[k] = rows[k] /\ ~Superseded(k, t, g)
                  \/ /\ Superseded(k, t, g) /\ rows'[k].state = "superseded"
                     /\ rows[k].state # "none"
    <3>1. \/ rows'[k] = rows[k] /\ ~Superseded(k, t, g)
          \/ rows'[k] = Released(rows[k], "superseded") /\ Superseded(k, t, g)
      BY <1>6 DEF Enqueue
    <3> HIDE DEF g
    <3> QED
      BY <1>0, <3>1, ReleasedFields DEF Superseded, Active
  <2> HIDE DEF g
  <2>4. \A k \in Jobs : rows[k].state # "none" =>
          /\ rows[k].target \in Targets /\ rows[k].tgen <= target[rows[k].target]
          /\ rows[k].state \in {"paused", "running", "completed"} => rows[k].gen > 0
    BY <1>0 DEF RowInv
  <2>5. \A k \in Jobs \ {i} : rows[k].state # "none" /\ rows[k].target = t => rows[k].tgen < g
    BY <1>1, <2>1, <2>4
  <2>6. \A k \in Jobs \ {i} : rows'[k].state \in Active =>
          rows'[k] = rows[k] /\ rows[k].target # t
    BY <2>3, <2>5 DEF Superseded, Active
  <2>7. \A u \in Targets : target'[u] >= target[u] /\ (u # t => target'[u] = target[u])
        /\ target'[t] = g
    BY <1>0, <2>1
  <2>8. RowInv'
    <3>1. ASSUME NEW j \in Jobs
          PROVE  /\ rows'[j].state = "none" => rows'[j] = NoRow
                 /\ rows'[j].state # "none" =>
                      rows'[j].target \in Targets /\ rows'[j].tgen <= target'[rows'[j].target]
                 /\ rows'[j].state \in {"paused", "running", "completed"} => rows'[j].gen > 0
      <4>1. CASE j = i
        BY <2>1, <2>2, <2>7, <4>1
      <4>2. CASE j # i
        <5>1. rows[j].state = "none" => rows[j] = NoRow
          BY <1>0 DEF RowInv
        <5>2. rows[j].state # "none" =>
                rows[j].target \in Targets /\ rows[j].tgen <= target'[rows[j].target]
          BY <1>0, <1>1, <2>4, <2>7
        <5> QED
          BY <2>3, <2>4, <4>2, <5>1, <5>2
      <4> QED
        BY <4>1, <4>2
    <3>2. ASSUME NEW j \in Jobs, NEW k \in Jobs, rows'[j].state # "none",
                 rows'[j].target = rows'[k].target, rows'[j].tgen = rows'[k].tgen
          PROVE  j = k
      <4>1. CASE j # i /\ k # i
        <5>1. rows[j].state # "none" /\ rows[j].target = rows[k].target /\ rows[j].tgen = rows[k].tgen
          BY <2>3, <3>2, <4>1
        <5> QED
          BY <1>0, <5>1 DEF RowInv
      <4>2. CASE j = i /\ k # i
        <5>1. rows[k].target = t /\ rows[k].tgen = g
          BY <2>2, <2>3, <3>2, <4>2
        <5>2. rows[k].state # "none"
          BY <1>0, <5>1 DEF RowInv, NoRow
        <5> QED
          BY <1>1, <2>1, <2>5, <4>2, <5>1, <5>2
      <4>3. CASE j # i /\ k = i
        <5>1. rows[j].target = t /\ rows[j].tgen = g /\ rows[j].state # "none"
          BY <2>2, <2>3, <3>2, <4>3
        <5> QED
          BY <1>1, <2>1, <2>5, <4>3, <5>1
      <4> QED
        BY <4>1, <4>2, <4>3
    <3> QED
      BY <3>1, <3>2 DEF RowInv
  <2>9. OneActivePerTarget'
    <3> SUFFICES ASSUME NEW j \in Jobs, rows'[j].state \in Active
                 PROVE  /\ rows'[j].tgen = target'[rows'[j].target]
                        /\ \A k \in Jobs \ {j} :
                              rows'[k].target = rows'[j].target => rows'[k].state \notin Active
      BY DEF OneActivePerTarget
    <3>1. CASE j = i
      BY <2>2, <2>3, <2>6, <2>7, <3>1
    <3>2. CASE j # i
      <4>1. rows'[j] = rows[j] /\ rows[j].target # t /\ rows[j].target \in Targets
        BY <2>4, <2>6, <3>2 DEF Active
      <4>2. rows[j].tgen = target[rows[j].target]
        BY <1>0, <4>1 DEF OneActivePerTarget
      <4>3. ASSUME NEW k \in Jobs \ {j}, rows'[k].target = rows'[j].target, rows'[k].state \in Active
            PROVE FALSE
        BY <1>0, <2>2, <2>6, <4>1, <4>3 DEF OneActivePerTarget
      <4> QED
        BY <2>7, <4>1, <4>2, <4>3
    <3> QED
      BY <3>1, <3>2
  <2> QED
    BY <2>8, <2>9
<1> QED
  BY <1>0, <1>3, <1>4, <1>5, <1>6, TargetStep
(* An attempt is of a claim that was made, and knows the failures of a     *)
(* claim that stands.                                                      *)
LEMMA AttemptInvStep ==
    ASSUME IndInv, [Next]_vars
    PROVE  AttemptInv'
<1>0. /\ TypeOK /\ rows \in [Jobs -> Rows] /\ attempts \in [Jobs -> Attempts]
      /\ RowInv /\ AttemptInv /\ ClaimInv
  BY DEF IndInv, JobsInv, TypeOK
<1>1. \A k \in Jobs : rows[k].gen \in Nat /\ attempts[k].gen \in Nat
  BY <1>0 DEF Rows, Attempts
<1> SUFFICES ASSUME NEW k \in Jobs
             PROVE  /\ attempts'[k] # NoAttempt =>
                         attempts'[k].gen > 0 /\ attempts'[k].gen <= rows'[k].gen
                    /\ attempts'[k].gen = rows'[k].gen /\ rows'[k].state = "running" =>
                         attempts'[k].failures = rows'[k].failures
                    /\ mode' = "stopping" => ~attempts'[k].accepting
                    /\ StopOK(attempts'[k])
  BY DEF AttemptInv, StopOK, Running
<1>2. /\ attempts[k] # NoAttempt => attempts[k].gen > 0 /\ attempts[k].gen <= rows[k].gen
      /\ attempts[k].gen = rows[k].gen /\ rows[k].state = "running" =>
           attempts[k].failures = rows[k].failures
      /\ mode = "stopping" => ~attempts[k].accepting
      /\ attempts[k] = NoAttempt => attempts[k].gen = 0 /\ ~attempts[k].accepting
  BY <1>0 DEF AttemptInv, Running, NoAttempt
<1>3. /\ StopOK(attempts'[k])
      /\ \/ attempts'[k] = attempts[k] \/ attempts'[k] = NoAttempt
         \/ Goes(attempts[k], attempts'[k])
         \/ \E c \in claimed : Starts(c, k)
  BY <1>0, AttemptStep
<1>4. \/ /\ rows'[k].gen = rows[k].gen
         /\ rows'[k].state = "running" =>
              rows[k].state = "running" /\ rows'[k].failures = rows[k].failures
      \/ rows'[k].gen = rows[k].gen + 1
  <2>1. CASE RowEnqueued(k)
    BY <1>0, <2>1 DEF RowEnqueued, RowInv, NoRow
  <2>2. CASE rows'[k] = rows[k] \/ RowCompleted(k)
    BY <2>2 DEF RowCompleted, SameJob
  <2>3. CASE RowClaimed(k) \/ RowExpired(k) \/ RowEnded(k) \/ RowWaits(k)
    BY <2>3 DEF RowClaimed, RowExpired, RowEnded, RowWaits, SameJob, Terminal
  <2> QED
    BY <2>1, <2>2, <2>3, RowStep DEF RowMoves
<1>5. mode' = "stopping" => ~attempts'[k].accepting
  <2>1. CASE mode = "stopping"
    <3>1. ~attempts[k].accepting
      BY <1>2, <2>1
    <3> QED
      BY <1>3, <2>1, <3>1 DEF Goes, Starts, NoAttempt
  <2>2. CASE mode # "stopping" /\ mode' = "stopping"
    <3>1. Shutdown
      BY <2>2 DEF Next, vars, process, Enqueue, Cancel, Notify, Resolve, Bind, Finish, Fails,
            Settle, Unwind, HeartbeatLost, WriteStop, Finalize, Expire, Claim, Start,
            RequeueClaim, WriteLate, Resume, OwnerLost, Rotate, OwnerAvailable, List,
            Exit, Crash, Gone, Restart, Attempt
    <3>2. \/ attempts'[k] = Stopped(attempts[k], "shutdown")
          \/ attempts'[k] = attempts[k] /\ ~attempts[k].accepting
      BY <1>0, <3>1 DEF Shutdown, Accepting
    <3> QED
      BY <1>0, <3>2 DEF Stopped, Attempts
  <2> QED
    BY <2>1, <2>2
<1>6. CASE \E c \in claimed : Starts(c, k)
  <2>1. PICK c \in claimed : Starts(c, k)
    BY <1>6
  <2>2. rows'[k] = rows[k] /\ attempts'[k].gen = c.gen /\ attempts'[k].failures = c.failures
    BY <2>1 DEF Starts, Start, durable
  <2>3. /\ c.gen \in Nat /\ c.gen > 0 /\ c.gen <= rows[k].gen
        /\ c.gen = rows[k].gen /\ rows[k].state = "running" => c.failures = rows[k].failures
    BY <1>0, <2>1 DEF Starts, ClaimInv, TypeOK, Claims
  <2> QED
    BY <1>3, <1>5, <2>2, <2>3
<1>7. CASE attempts'[k] = NoAttempt
  <2>1. rows'[k].state = "running" => rows'[k].gen > 0
    BY RowInvStep DEF RowInv
  <2>2. attempts'[k].gen = 0
    BY <1>7 DEF NoAttempt
  <2> QED
    BY <1>3, <1>5, <1>7, <2>1, <2>2
<1>8. CASE attempts'[k] = attempts[k] \/ Goes(attempts[k], attempts'[k])
  <2>1. /\ attempts'[k].gen = attempts[k].gen /\ attempts'[k].failures = attempts[k].failures
        /\ attempts'[k] # NoAttempt => attempts[k] # NoAttempt
    BY <1>8 DEF Goes
  <2>2. rows[k].gen >= attempts[k].gen
    BY <1>1, <1>2
  <2> QED
    BY <1>1, <1>2, <1>3, <1>4, <1>5, <2>1, <2>2
<1> QED
  BY <1>3, <1>6, <1>7, <1>8
\* `claim' returns a claim of each row of S.
PumpClaims(S) ==
    /\ Claim /\ claimed = {} /\ claimed' = {Claimed(j) : j \in S} /\ attempts' = attempts
    /\ Cardinality(S) <= Capacity
    /\ \A j \in S : /\ rows'[j].state = "running" /\ rows'[j].gen = rows[j].gen + 1
                    /\ rows'[j].failures = rows[j].failures

\* #start gives claim d back.
GivesBack(d) ==
    /\ Start(d) /\ rows' = rows
    /\ claimed' = (claimed \ {d}) \cup {[d EXCEPT !.step = "requeue"]}
    /\ \/ mode = "stopping" /\ attempts' = attempts
       \/ attempts' = [attempts EXCEPT ![d.job] = Detached(@)]

(* What the pump may do to its claims.                                     *)
LEMMA ClaimsStep ==
    ASSUME TypeOK, [Next]_vars
    PROVE  \/ claimed' \subseteq claimed
           \/ \E S \in SUBSET Jobs : PumpClaims(S)
           \/ \E d \in claimed : GivesBack(d)
<1>0. rows \in [Jobs -> Rows]
  BY DEF TypeOK
<1>1. CASE claimed' \subseteq claimed
  BY <1>1
<1>2. CASE Claim
  <2>1. CASE claimed' = claimed
    BY <1>1, <2>1
  <2>2. CASE claimed' # claimed
    <3>1. PICK S \in SUBSET {j \in Jobs : Claimable(j) /\ rows[j].gen < load.claims} :
            /\ Cardinality(S) <= Capacity
            /\ rows' = [j \in Jobs |->
                  IF j \in S
                  THEN [rows[j] EXCEPT !.state = "running", !.gen = @ + 1,
                                       !.run = run, !.expired = FALSE]
                  ELSE rows[j]]
            /\ claimed' = {Claimed(j) : j \in S}
      BY <1>2, <2>2 DEF Claim
    <3>2. claimed = {} /\ attempts' = attempts
      BY <1>2 DEF Claim
    <3>3. ASSUME NEW j \in S
          PROVE  /\ rows'[j].state = "running" /\ rows'[j].gen = rows[j].gen + 1
                 /\ rows'[j].failures = rows[j].failures
      <4>1. rows[j] \in Rows /\ rows'[j] = [rows[j] EXCEPT !.state = "running", !.gen = @ + 1,
                                                           !.run = run, !.expired = FALSE]
        BY <1>0, <3>1
      <4> QED
        BY <4>1 DEF Rows
    <3>4. S \in SUBSET Jobs /\ PumpClaims(S)
      BY <1>2, <3>1, <3>2, <3>3 DEF PumpClaims
    <3> QED
      BY <3>4
  <2> QED
    BY <2>1, <2>2
<1>3. ASSUME NEW d \in claimed, Start(d)
      PROVE  claimed' \subseteq claimed \/ GivesBack(d)
  BY <1>3 DEF Start, GivesBack, durable
<1> QED
  <2>1. CASE \/ OwnerLost \/ Rotate \/ OwnerAvailable \/ List \/ Shutdown \/ Exit \/ Crash
             \/ Restart \/ UNCHANGED vars
    BY <1>1, <2>1 DEF OwnerLost, Rotate, OwnerAvailable, List, Shutdown, Exit, Crash, Gone,
                      Restart, vars, memory
  <2>2. ASSUME NEW j \in Jobs,
               \/ Notify(j) \/ Resolve(j) \/ Bind(j) \/ Finish(j) \/ Fails(j) \/ Settle(j)
               \/ Unwind(j) \/ HeartbeatLost(j) \/ WriteStop(j) \/ Finalize(j)
               \/ Cancel(j) \/ Expire(j) \/ \E t \in Targets : Enqueue(j, t)
        PROVE claimed' \subseteq claimed
    BY <2>2 DEF Notify, Resolve, Bind, Finish, Fails, Settle, Unwind, HeartbeatLost, WriteStop,
                Finalize, Cancel, Expire, Enqueue, Attempt, memory
  <2>3. CASE \/ \E c \in claimed : RequeueClaim(c)
             \/ \E l \in late : WriteLate(l)
             \/ \E w \in waking : Resume(w)
    BY <1>1, <2>3 DEF RequeueClaim, WriteLate, Resume
  <2> QED
    BY <1>1, <1>2, <1>3, <2>1, <2>2, <2>3 DEF Next

(* A claim that waits to be started is the last one of its job and newer   *)
(* than the attempt it meets.                                              *)
LEMMA ClaimInvStep ==
    ASSUME IndInv, [Next]_vars
    PROVE  ClaimInv'
<1>0. /\ TypeOK /\ rows \in [Jobs -> Rows] /\ attempts \in [Jobs -> Attempts]
      /\ RowInv /\ AttemptInv /\ ClaimInv /\ claimed \subseteq Claims
  BY DEF IndInv, JobsInv, TypeOK
<1>1. \A k \in Jobs : rows[k].gen \in Nat /\ attempts[k].gen \in Nat
  BY <1>0 DEF Rows, Attempts
<1> DEFINE Newest(c) ==
             /\ c.gen <= rows'[c.job].gen /\ attempts'[c.job].gen < c.gen
             /\ c.gen = rows'[c.job].gen /\ rows'[c.job].state = "running" =>
                   c.failures = rows'[c.job].failures
             /\ rows'[c.job].state \notin {"pending", "paused"}
             /\ c.step = "requeue" => ~attempts'[c.job].accepting
<1>2. ASSUME NEW c \in claimed, c \in claimed' PROVE Newest(c)
  <2> DEFINE k == c.job
  <2>1. /\ k \in Jobs /\ c.gen \in Nat /\ c.gen > 0 /\ c.gen <= rows[k].gen
        /\ attempts[k].gen < c.gen
        /\ c.gen = rows[k].gen /\ rows[k].state = "running" => c.failures = rows[k].failures
        /\ rows[k].state \notin {"pending", "paused"}
        /\ c.step = "requeue" => ~attempts[k].accepting
    BY <1>0 DEF ClaimInv, Claims, Accepting
  <2>2. ASSUME NEW d \in claimed PROVE ~Starts(d, k)
    BY <1>0, <1>2, <2>2 DEF Starts, ClaimInv
  <2>3. attempts'[k].gen < c.gen /\ (attempts'[k].accepting => attempts[k].accepting)
    <3>1. \/ attempts'[k] = attempts[k] \/ attempts'[k] = NoAttempt
          \/ Goes(attempts[k], attempts'[k])
      BY <1>0, <2>1, <2>2, AttemptStep
    <3> QED
      BY <2>1, <3>1 DEF Goes, NoAttempt
  <2>4. ~RowEnqueued(k)
    BY <1>0, <1>1, <2>1 DEF RowEnqueued, RowInv, NoRow
  <2>5. /\ rows'[k].gen \in {rows[k].gen, rows[k].gen + 1}
        /\ rows'[k].state \notin {"pending", "paused"}
        /\ rows'[k].gen = rows[k].gen /\ rows'[k].state = "running" =>
             rows[k].state = "running" /\ rows'[k].failures = rows[k].failures
    <3>1. CASE rows'[k] = rows[k] \/ RowCompleted(k)
      BY <2>1, <3>1 DEF RowCompleted, SameJob
    <3>2. CASE RowClaimed(k) \/ RowExpired(k) \/ RowEnded(k)
      BY <1>1, <2>1, <3>2 DEF RowClaimed, RowExpired, RowEnded, SameJob, Terminal
    <3>3. CASE RowWaits(k)
      BY <1>2, <3>3 DEF RowWaits
    <3> HIDE DEF k
    <3> QED
      BY <2>1, <2>4, <3>1, <3>2, <3>3, RowStep DEF RowMoves
  <2> QED
    BY <1>1, <2>1, <2>3, <2>5
<1>3. ASSUME NEW S \in SUBSET Jobs, PumpClaims(S), NEW c \in claimed' PROVE Newest(c)
  <2>1. PICK j \in S : c = Claimed(j)
    BY <1>3 DEF PumpClaims
  <2>2. c.job = j /\ c.gen = rows[j].gen + 1 /\ c.failures = rows[j].failures /\ c.step = "start"
    BY <2>1 DEF Claimed
  <2>3. attempts'[j].gen <= rows[j].gen /\ attempts'[j].gen \in Nat
    BY <1>0, <1>1, <1>3 DEF PumpClaims, AttemptInv, Running, NoAttempt
  <2>4. /\ rows'[j].state = "running" /\ rows'[j].gen = rows[j].gen + 1
        /\ rows'[j].failures = rows[j].failures /\ rows[j].gen \in Nat
    BY <1>1, <1>3 DEF PumpClaims
  <2> QED
    BY <2>2, <2>3, <2>4
<1>4. ASSUME NEW d \in claimed, GivesBack(d), NEW c \in claimed', c \notin claimed PROVE Newest(c)
  <2>1. c = [d EXCEPT !.step = "requeue"]
    BY <1>4 DEF GivesBack
  <2>2. d \in Claims /\ d.job \in Jobs /\ attempts[d.job] \in Attempts
    BY <1>0 DEF Claims
  <2>3. c.job = d.job /\ c.gen = d.gen /\ c.failures = d.failures
    BY <2>1, <2>2 DEF Claims
  <2>4. ~attempts'[d.job].accepting /\ attempts'[d.job].gen = attempts[d.job].gen
    <3>1. CASE mode = "stopping" /\ attempts' = attempts
      BY <1>0, <2>2, <3>1 DEF AttemptInv
    <3>2. CASE attempts' = [attempts EXCEPT ![d.job] = Detached(@)]
      BY <1>0, <2>2, <3>2 DEF Detached, Attempts
    <3> QED
      BY <1>4, <3>1, <3>2 DEF GivesBack
  <2> QED
    BY <1>0, <1>4, <2>3, <2>4 DEF GivesBack, ClaimInv
<1>5. \A c, d \in claimed' : c.job = d.job => c = d
  <2>1. CASE claimed' \subseteq claimed
    BY <1>0, <2>1 DEF ClaimInv
  <2>2. ASSUME NEW S \in SUBSET Jobs, PumpClaims(S), NEW c \in claimed', NEW e \in claimed', c.job = e.job
        PROVE  c = e
    <3>1. PICK i \in S, j \in S : c = Claimed(i) /\ e = Claimed(j)
      BY <2>2 DEF PumpClaims
    <3>2. Claimed(i).job = i /\ Claimed(j).job = j
      BY DEF Claimed
    <3> QED
      BY <2>2, <3>1, <3>2
  <2>3. ASSUME NEW d \in claimed, GivesBack(d), NEW c \in claimed', NEW e \in claimed', c.job = e.job
        PROVE  c = e
    <3> DEFINE q == [d EXCEPT !.step = "requeue"]
    <3>1. q.job = d.job
      BY <1>0 DEF Claims
    <3> HIDE DEF q
    <3>2. claimed' = (claimed \ {d}) \cup {q}
      BY <2>3 DEF GivesBack, q
    <3> QED
      BY <1>0, <2>3, <3>1, <3>2 DEF ClaimInv
  <2> QED
    BY <1>0, <2>1, <2>2, <2>3, ClaimsStep
<1> HIDE DEF Newest
<1>6. \A c \in claimed' : Newest(c)
  BY <1>0, <1>2, <1>3, <1>4, ClaimsStep
<1> QED
  BY <1>5, <1>6 DEF ClaimInv, Newest, Accepting

(* A stop that is written late is older than all that came after it.       *)
LEMMA LateInvStep ==
    ASSUME IndInv, [Next]_vars
    PROVE  LateInv'
<1>0. /\ TypeOK /\ rows \in [Jobs -> Rows] /\ attempts \in [Jobs -> Attempts]
      /\ RowInv /\ AttemptInv /\ ClaimInv /\ LateInv /\ claimed \subseteq Claims
  BY DEF IndInv, JobsInv, TypeOK
<1>1. \A k \in Jobs : rows[k].gen \in Nat /\ attempts[k].gen \in Nat
  BY <1>0 DEF Rows, Attempts
<1>2. ASSUME NEW k \in Jobs PROVE rows'[k].gen >= rows[k].gen
  <2>1. CASE RowEnqueued(k)
    BY <1>0, <2>1 DEF RowEnqueued, RowInv, NoRow
  <2>2. CASE rows'[k] = rows[k] \/ RowCompleted(k)
    BY <1>1, <2>2 DEF RowCompleted, SameJob
  <2>3. CASE RowClaimed(k) \/ RowExpired(k) \/ RowEnded(k) \/ RowWaits(k)
    BY <1>1, <2>3 DEF RowClaimed, RowExpired, RowEnded, RowWaits, SameJob
  <2> QED
    BY <2>1, <2>2, <2>3, RowStep DEF RowMoves
<1>3. ASSUME NEW l \in late,
             l.stop \in {"pause", "requeue", "shutdown"}
      PROVE  /\ l.gen <= rows'[l.job].gen
             /\ attempts'[l.job] # NoAttempt => l.gen < attempts'[l.job].gen
             /\ \A c \in claimed' : c.job = l.job => l.gen < c.gen
  <2> DEFINE k == l.job
  <2>1. /\ k \in Jobs /\ l.gen \in Nat /\ l.gen <= rows[k].gen
        /\ attempts[k] # NoAttempt => l.gen < attempts[k].gen
        /\ \A c \in claimed : c.job = k => l.gen < c.gen
    BY <1>0 DEF LateInv, TypeOK, Running
  <2>2. rows'[k].gen \in Nat
    BY <2>1, TypeStep, <1>0 DEF TypeOK, Rows
  <2>3. l.gen <= rows'[k].gen
    BY <1>1, <1>2, <2>1, <2>2
  <2>4. attempts'[k] # NoAttempt => l.gen < attempts'[k].gen
    <3> HIDE DEF k
    <3> QED
      BY <1>0, <2>1, AttemptStep DEF Goes, Starts
  <2>5. ASSUME NEW c \in claimed', c.job = k PROVE l.gen < c.gen
    <3>1. ASSUME NEW S \in SUBSET Jobs, PumpClaims(S) PROVE l.gen < c.gen
      <4>1. PICK j \in S : c = Claimed(j)
        BY <3>1 DEF PumpClaims
      <4>2. c.job = j /\ c.gen = rows[j].gen + 1
        BY <4>1 DEF Claimed
      <4> QED
        BY <1>1, <2>1, <2>5, <4>2
    <3>2. ASSUME NEW d \in claimed, GivesBack(d) PROVE l.gen < c.gen
      <4>1. CASE c \in claimed
        BY <2>1, <2>5, <4>1
      <4>2. CASE c = [d EXCEPT !.step = "requeue"]
        <5>1. c.job = d.job /\ c.gen = d.gen
          BY <1>0, <4>2 DEF Claims
        <5> QED
          BY <2>1, <2>5, <5>1
      <4> QED
        BY <3>2, <4>1, <4>2 DEF GivesBack
    <3> QED
      BY <1>0, <2>1, <2>5, <3>1, <3>2, ClaimsStep
  <2> QED
    BY <2>3, <2>4, <2>5
<1>4. ASSUME NEW j \in Jobs, Finalize(j), NEW l \in late', l \notin late
      PROVE  /\ l.stop \in {"pause", "requeue", "shutdown"} /\ l.gen <= rows'[l.job].gen
             /\ attempts'[l.job] # NoAttempt => l.gen < attempts'[l.job].gen
             /\ \A c \in claimed' : c.job = l.job => l.gen < c.gen
  <2>1. /\ l = [job |-> j, gen |-> attempts[j].gen, stop |-> attempts[j].stop]
        /\ attempts[j].stop \notin {"none", "lost"} /\ attempts[j].step = "done"
        /\ attempts[j] # NoAttempt
        /\ attempts'[j] = NoAttempt /\ rows' = rows /\ claimed' = claimed
    BY <1>0, <1>4 DEF Finalize, durable, Running
  <2>2. attempts[j].stop \in {"pause", "requeue", "shutdown"}
    BY <1>0, <2>1 DEF AttemptInv, Attempts, Stops
  <2>3. attempts[j].gen <= rows[j].gen
    BY <1>0, <2>1 DEF AttemptInv, Running
  <2>4. \A c \in claimed : c.job = j => attempts[j].gen < c.gen
    BY <1>0 DEF ClaimInv
  <2> QED
    BY <2>1, <2>2, <2>3, <2>4
<1>5. late' \subseteq late \/ \E j \in Jobs : Finalize(j)
  BY DEF Next, vars, memory, Enqueue, Cancel, Notify, Resolve, Bind, Finish, Fails,
         Settle, Unwind, HeartbeatLost, WriteStop, Expire, Claim, Start,
         RequeueClaim, WriteLate, Resume, OwnerLost, Rotate, OwnerAvailable, List, Shutdown,
         Exit, Crash, Gone, Restart, Attempt
<1>6. \A l \in late : l.stop \in {"pause", "requeue", "shutdown"}
  BY <1>0 DEF LateInv
<1>7. ASSUME NEW l \in late'
      PROVE  /\ l.stop \in {"pause", "requeue", "shutdown"} /\ l.gen <= rows'[l.job].gen
             /\ attempts'[l.job] # NoAttempt => l.gen < attempts'[l.job].gen
             /\ \A c \in claimed' : c.job = l.job => l.gen < c.gen
  BY <1>3, <1>4, <1>5, <1>6
<1> QED
  BY <1>7 DEF LateInv, Running
(* No accepted attempt is left at a job that is put aside.                 *)
LEMMA WaitingStep ==
    ASSUME IndInv, [Next]_vars
    PROVE  WaitingJobsAreIdle'
<1>0. /\ TypeOK /\ rows \in [Jobs -> Rows] /\ attempts \in [Jobs -> Attempts]
      /\ RowInv /\ AttemptInv /\ ClaimInv /\ WaitingJobsAreIdle /\ claimed \subseteq Claims
  BY DEF IndInv, JobsInv, TypeOK
<1> SUFFICES ASSUME NEW k \in Jobs, rows'[k].state \in {"pending", "paused"}
             PROVE  ~attempts'[k].accepting
  BY DEF WaitingJobsAreIdle, Accepting
<1>1. \/ attempts'[k] = attempts[k] \/ attempts'[k] = NoAttempt
      \/ Goes(attempts[k], attempts'[k])
      \/ \E c \in claimed : Starts(c, k)
  BY <1>0, AttemptStep
<1>2. ASSUME ~attempts[k].accepting, \A c \in claimed : c.job # k
      PROVE  ~attempts'[k].accepting
  BY <1>1, <1>2 DEF Goes, NoAttempt, Starts
<1>3. CASE rows'[k] = rows[k]
  <2>1. ~attempts[k].accepting /\ \A c \in claimed : c.job # k
    BY <1>0, <1>3 DEF WaitingJobsAreIdle, Accepting, ClaimInv
  <2> QED
    BY <1>2, <2>1
<1>4. CASE RowEnqueued(k)
  <2>1. rows[k].gen = 0
    BY <1>0, <1>4 DEF RowEnqueued, RowInv, NoRow
  <2>2. ~attempts[k].accepting
    BY <1>0, <2>1 DEF AttemptInv, Running, NoAttempt, Attempts
  <2>3. ASSUME NEW c \in claimed, c.job = k PROVE FALSE
    <3>1. c.gen \in Nat /\ c.gen > 0 /\ c.gen <= 0
      BY <1>0, <2>1, <2>3 DEF ClaimInv, Claims
    <3> QED
      BY <3>1
  <2> QED
    BY <1>2, <2>2, <2>3
<1>5. CASE RowWaits(k)
  BY <1>5 DEF RowWaits
<1>6. ~(RowClaimed(k) \/ RowExpired(k) \/ RowEnded(k) \/ RowCompleted(k))
  BY DEF RowClaimed, RowExpired, RowEnded, RowCompleted, Terminal
<1> QED
  BY <1>3, <1>4, <1>5, <1>6, RowStep DEF RowMoves

(* The pump holds finitely many claims: one of a job at most.              *)
LEMMA ClaimsFinite ==
    ASSUME TypeOK, ClaimInv
    PROVE  IsFiniteSet(claimed) /\ Cardinality(claimed) \in Nat
<1> DEFINE f == [c \in claimed |-> c.job]
<1>1. f \in Injection(claimed, Jobs)
  BY DEF TypeOK, Claims, ClaimInv, Injection, IsInjective
<1>2. IsFiniteSet(Jobs)
  BY JobsAssumption
<1> QED
  BY <1>1, <1>2, FS_Injection, FS_CardinalityType

(* A claim that is started was counted before: #drain claims no more than  *)
(* the attempts under way leave room for.                                  *)
LEMMA GlobalStep ==
    ASSUME IndInv, [Next]_vars
    PROVE  GlobalLimit'
<1> DEFINE R == {j \in Jobs : attempts[j] # NoAttempt}
           Q == {j \in Jobs : attempts'[j] # NoAttempt}
<1>0. TypeOK /\ ClaimInv /\ claimed \subseteq Claims /\ Global \in Nat
  BY JobsAssumption DEF IndInv, JobsInv, TypeOK
<1>1. IsFiniteSet(R) /\ Cardinality(R) \in Nat /\ IsFiniteSet(Q) /\ Cardinality(Q) \in Nat
  <2>1. IsFiniteSet(Jobs) /\ R \in SUBSET Jobs /\ Q \in SUBSET Jobs
    BY JobsAssumption
  <2> HIDE DEF R, Q
  <2> QED
    BY <2>1, FS_Subset, FS_CardinalityType
<1>2. IsFiniteSet(claimed) /\ Cardinality(claimed) \in Nat
  BY <1>0, ClaimsFinite
<1>3. Cardinality(R) + Cardinality(claimed) <= Global
  BY DEF IndInv, JobsInv, GlobalLimit, Running
<1> SUFFICES Cardinality(Q) + Cardinality(claimed') <= Global
  BY DEF GlobalLimit, Running
<1>4. ASSUME NEW k \in Q, k \notin R PROVE \E c \in claimed : Starts(c, k)
  BY <1>0, <1>4, AttemptStep DEF IndInv, JobsInv, Goes
<1>5. CASE Q \subseteq R
  <2>1. Cardinality(Q) <= Cardinality(R)
    <3> HIDE DEF Q, R
    <3> QED
      BY <1>1, <1>5, FS_Subset
  <2>2. CASE claimed' \subseteq claimed
    <3>1. Cardinality(claimed') <= Cardinality(claimed) /\ Cardinality(claimed') \in Nat
      BY <1>2, <2>2, FS_Subset, FS_CardinalityType
    <3> HIDE DEF Q, R
    <3> QED
      BY <1>0, <1>1, <1>2, <1>3, <2>1, <3>1
  <2>3. ASSUME NEW d \in claimed, GivesBack(d)
        PROVE  Cardinality(Q) + Cardinality(claimed') <= Global
    <3> DEFINE T == claimed \ {d}
               q == [d EXCEPT !.step = "requeue"]
    <3>1. IsFiniteSet(T) /\ Cardinality(T) = Cardinality(claimed) - 1
      BY <1>2, FS_RemoveElement
    <3>2. claimed' = T \cup {q}
      BY <2>3 DEF GivesBack
    <3> HIDE DEF T, q
    <3>3. Cardinality(claimed') <= Cardinality(claimed) /\ Cardinality(claimed') \in Nat
      <4>1. /\ IsFiniteSet(claimed')
            /\ Cardinality(claimed') = IF q \in T THEN Cardinality(T) ELSE Cardinality(T) + 1
        BY <3>1, <3>2, FS_AddElement
      <4>2. Cardinality(claimed') \in Nat
        BY <4>1, FS_CardinalityType
      <4> QED
        BY <1>2, <3>1, <4>1, <4>2
    <3> HIDE DEF Q, R
    <3> QED
      BY <1>0, <1>1, <1>2, <1>3, <2>1, <3>3
  <2>4. ASSUME NEW S \in SUBSET Jobs, PumpClaims(S)
        PROVE  Cardinality(Q) + Cardinality(claimed') <= Global
    <3> DEFINE f == [j \in S |-> Claimed(j)]
    <3>1. f \in Surjection(S, claimed')
      BY <2>4 DEF PumpClaims, Surjection
    <3>2. IsFiniteSet(S) /\ Cardinality(S) \in Nat
      BY JobsAssumption, FS_Subset, FS_CardinalityType
    <3>3. IsFiniteSet(claimed') /\ Cardinality(claimed') <= Cardinality(S)
      BY <3>1, <3>2, FS_Surjection
    <3>4. Cardinality(claimed') \in Nat
      BY <3>3, FS_CardinalityType
    <3>5. Cardinality(S) <= Global - Cardinality(R)
      BY <2>4 DEF PumpClaims, Capacity, Running
    <3> HIDE DEF Q, R
    <3> QED
      BY <1>0, <1>1, <2>1, <3>2, <3>3, <3>4, <3>5
  <2> QED
    BY <1>0, <2>2, <2>3, <2>4, ClaimsStep
<1>6. ASSUME NEW k \in Q, k \notin R
      PROVE  Cardinality(Q) + Cardinality(claimed') <= Global
  <2>1. PICK c \in claimed : Starts(c, k)
    BY <1>4, <1>6
  <2>2. Q \in SUBSET (R \cup {k})
    <3> SUFFICES ASSUME NEW i \in Q, i \notin R PROVE i = k
      BY DEF Q
    <3>1. PICK d \in claimed : Starts(d, i)
      BY <1>4
    <3>2. d = c
      BY <2>1, <3>1 DEF Starts
    <3> QED
      BY <2>1, <3>1, <3>2 DEF Starts
  <2>3. claimed' = claimed \ {c}
    BY <2>1 DEF Starts
  <2>4. Cardinality(claimed') = Cardinality(claimed) - 1
    BY <1>2, <2>3, FS_RemoveElement
  <2> HIDE DEF Q, R
  <2>5. /\ IsFiniteSet(R \cup {k}) /\ Cardinality(R \cup {k}) = Cardinality(R) + 1
    BY <1>1, <1>6, FS_AddElement
  <2>6. Cardinality(Q) <= Cardinality(R) + 1
    BY <2>2, <2>5, FS_Subset
  <2> QED
    BY <1>0, <1>1, <1>2, <1>3, <2>4, <2>6
<1> HIDE DEF Q, R
<1> QED
  BY <1>5, <1>6

(* A place under ownerConcurrency is only taken when one is free.          *)
LEMMA OwnerStep ==
    ASSUME IndInv, [Next]_vars
    PROVE  OwnerLimit'
<1> DEFINE R == {j \in Jobs : attempts[j].slot}
           Q == {j \in Jobs : attempts'[j].slot}
<1>0. TypeOK /\ attempts \in [Jobs -> Attempts] /\ OwnerSlots \in Nat /\ ~NoAttempt.slot
  BY JobsAssumption DEF IndInv, JobsInv, TypeOK, NoAttempt
<1>1. IsFiniteSet(R) /\ Cardinality(R) \in Nat /\ IsFiniteSet(Q) /\ Cardinality(Q) \in Nat
  <2>1. IsFiniteSet(Jobs) /\ R \in SUBSET Jobs /\ Q \in SUBSET Jobs
    BY JobsAssumption
  <2> HIDE DEF R, Q
  <2> QED
    BY <2>1, FS_Subset, FS_CardinalityType
<1>2. Cardinality(R) <= OwnerSlots
  BY DEF IndInv, JobsInv, OwnerLimit, Slots
<1> SUFFICES Cardinality(Q) <= OwnerSlots
  BY DEF OwnerLimit, Slots
<1>3. CASE Q \subseteq R
  <2> HIDE DEF Q, R
  <2> QED
    BY <1>0, <1>1, <1>2, <1>3, FS_Subset
<1>4. ASSUME NEW j \in Jobs, Q \subseteq R \cup {j}, Cardinality(R) < OwnerSlots
      PROVE  Cardinality(Q) <= OwnerSlots
  <2> HIDE DEF Q, R
  <2>1. IsFiniteSet(R \cup {j}) /\ Cardinality(R \cup {j}) <= Cardinality(R) + 1
    <3>1. /\ IsFiniteSet(R \cup {j})
          /\ Cardinality(R \cup {j}) = IF j \in R THEN Cardinality(R) ELSE Cardinality(R) + 1
      BY <1>1, FS_AddElement
    <3> QED
      BY <1>1, <3>1
  <2>2. Cardinality(Q) <= Cardinality(R \cup {j}) /\ Cardinality(R \cup {j}) \in Nat
    BY <1>4, <2>1, FS_Subset, FS_CardinalityType
  <2> QED
    BY <1>0, <1>1, <1>4, <2>1, <2>2
<1>5. ASSUME NEW j \in Jobs, NEW a, Attempt(j, a), a.slot => attempts[j].slot PROVE Q \subseteq R
  BY <1>0, <1>5 DEF Attempt
<1>6. ASSUME NEW j \in Jobs, Bind(j) PROVE Cardinality(Q) <= OwnerSlots
  <2>1. PICK a : /\ Attempt(j, a)
                 /\ \/ a = [attempts[j] EXCEPT !.step = "done"]
                    \/ a = [attempts[j] EXCEPT !.step = "run", !.slot = TRUE] /\ SlotFree
                    \/ a = [Stopped(attempts[j], "requeue") EXCEPT !.step = "stopping"]
                    \/ a = [Detached(attempts[j]) EXCEPT !.step = "done"]
    BY <1>6 DEF Bind
  <2>2. CASE SlotFree
    <3>1. Q \subseteq R \cup {j}
      BY <1>0, <2>1 DEF Attempt
    <3>2. Cardinality(R) < OwnerSlots
      BY <2>2 DEF SlotFree, Slots
    <3> QED
      BY <1>4, <3>1, <3>2
  <2>3. CASE ~SlotFree
    <3>1. a.slot => attempts[j].slot
      BY <1>0, <2>1, <2>3 DEF Stopped, Detached, Attempts
    <3>2. Q \subseteq R
      BY <1>5, <2>1, <3>1
    <3> QED
      BY <1>3, <3>2
  <2> QED
    BY <2>2, <2>3
<1>7. ASSUME NEW j \in Jobs,
             \/ Resolve(j) \/ Finish(j) \/ Fails(j) \/ Settle(j) \/ Unwind(j)
             \/ HeartbeatLost(j) \/ WriteStop(j)
      PROVE  Q \subseteq R
  <2>0. attempts[j] \in Attempts
    BY <1>0
  <2>1. CASE Resolve(j)
    <3>1. \/ Attempt(j, [attempts[j] EXCEPT !.step = "bind"])
          \/ Attempt(j, [Stopped(attempts[j], "pause") EXCEPT !.step = "stopping"])
      BY <2>1 DEF Resolve
    <3> QED
      BY <1>5, <2>0, <3>1 DEF Stopped, Attempts
  <2>2. CASE Finish(j) \/ Unwind(j)
    <3>1. PICK t : Attempt(j, [attempts[j] EXCEPT !.step = t])
      BY <2>2 DEF Finish, Unwind
    <3> QED
      BY <1>5, <2>0, <3>1 DEF Attempts
  <2>3. CASE Fails(j) \/ HeartbeatLost(j)
    <3>1. PICK s : \/ Attempt(j, [Stopped(attempts[j], s) EXCEPT !.step = "stopping"])
                   \/ Attempt(j, Stopped(attempts[j], s))
      BY <2>3 DEF Fails, HeartbeatLost
    <3> QED
      BY <1>5, <2>0, <3>1 DEF Stopped, Attempts
  <2>4. CASE Settle(j)
    <3>1. Attempt(j, [Detached(attempts[j]) EXCEPT !.step = "done"])
      BY <2>4 DEF Settle
    <3> QED
      BY <1>5, <2>0, <3>1 DEF Detached, Attempts
  <2>5. CASE WriteStop(j)
    <3>1. PICK t : Attempt(j, [attempts[j] EXCEPT !.stop = "none", !.step = t])
      BY <2>5 DEF WriteStop
    <3> QED
      BY <1>5, <2>0, <3>1 DEF Attempts
  <2> QED
    BY <1>7, <2>1, <2>2, <2>3, <2>4, <2>5
<1>8. ASSUME NEW j \in Jobs, Notify(j) \/ Finalize(j) PROVE Q \subseteq R
  BY <1>0, <1>8 DEF Notify, Finalize, Detached, Attempts
<1>9. ASSUME NEW c \in claimed, Start(c) PROVE Q \subseteq R
  <2>1. c.job \in Jobs /\ attempts[c.job] \in Attempts
    BY <1>0 DEF TypeOK, Claims
  <2>2. CASE attempts' = attempts
    BY <2>2
  <2>3. CASE attempts' = [attempts EXCEPT ![c.job] = Detached(@)]
    BY <1>0, <2>1, <2>3 DEF Detached, Attempts
  <2>4. CASE attempts' = [attempts EXCEPT ![c.job] =
                            [NoAttempt EXCEPT !.gen = c.gen, !.failures = c.failures,
                                              !.accepting = TRUE, !.step = "resolve"]]
    <3>1. ~attempts'[c.job].slot
      BY <1>0, <2>1, <2>4 DEF NoAttempt
    <3> QED
      BY <1>0, <2>4, <3>1
  <2> QED
    BY <1>9, <2>2, <2>3, <2>4 DEF Start
<1>10. CASE OwnerLost \/ Rotate \/ Shutdown
  <2>1. ASSUME NEW k \in Jobs
        PROVE  attempts'[k] = attempts[k] \/ \E s : attempts'[k] = Stopped(attempts[k], s)
    BY <1>0, <1>10 DEF OwnerLost, Rotate, Shutdown, StopBound
  <2>2. Q \subseteq R
    BY <1>0, <2>1 DEF Stopped, Attempts
  <2> QED
    BY <1>3, <2>2
<1>11. CASE Exit \/ Crash
  <2>1. Q \subseteq R
    BY <1>0, <1>11 DEF Exit, Crash, Gone
  <2> QED
    BY <1>3, <2>1
<1> QED
  <2>1. CASE attempts' = attempts
    BY <1>3, <2>1
  <2>2. CASE OwnerAvailable \/ List \/ Restart \/ UNCHANGED vars \/ Claim
    BY <2>1, <2>2 DEF OwnerAvailable, List, Restart, Claim, vars, memory
  <2>3. ASSUME NEW j \in Jobs, Cancel(j) \/ Expire(j) \/ \E t \in Targets : Enqueue(j, t)
        PROVE attempts' = attempts
    BY <2>3 DEF Cancel, Expire, Enqueue, memory
  <2>4. CASE \/ \E c \in claimed : RequeueClaim(c)
             \/ \E l \in late : WriteLate(l)
             \/ \E w \in waking : Resume(w)
    BY <2>1, <2>4 DEF RequeueClaim, WriteLate, Resume
  <2> HIDE DEF Q, R
  <2> QED
    BY <1>3, <1>6, <1>7, <1>8, <1>9, <1>10, <1>11, <2>1, <2>2, <2>3, <2>4 DEF Next
(* At the start nothing is enqueued, claimed or under way.                 *)
LEMMA InitJobs == Init => IndInv
<1> SUFFICES ASSUME Init PROVE IndInv
  OBVIOUS
<1>0. /\ rows = [j \in Jobs |-> NoRow] /\ attempts = [j \in Jobs |-> NoAttempt]
      /\ artifact = [j \in Jobs |-> 0] /\ target = [t \in Targets |-> 0]
      /\ claimed = {} /\ late = {} /\ notices = {} /\ waking = {}
      /\ run = 1 /\ mode = "running" /\ owner = TRUE /\ listing = FALSE /\ load \in LoadRecords
  BY JobsAssumption DEF Init
<1>1. TypeOK
  <2>1. NoRow \in Rows
    BY DEF NoRow, Rows
  <2>2. NoAttempt \in Attempts
    BY DEF NoAttempt, Attempts, Steps, Stops
  <2> QED
    <3>1. /\ rows \in [Jobs -> Rows] /\ attempts \in [Jobs -> Attempts]
          /\ target \in [Targets -> Nat] /\ artifact \in [Jobs -> Nat]
      BY <1>0, <2>1, <2>2
    <3>2. /\ claimed \subseteq Claims /\ notices \subseteq Jobs
          /\ late \subseteq [job : Jobs, gen : Nat \ {0}, stop : Stops]
          /\ waking \subseteq [job : Jobs, gen : Nat \ {0}]
      BY <1>0
    <3>3. run \in Nat \ {0} /\ mode \in {"running", "stopping", "down"}
      BY <1>0
    <3>4. owner \in BOOLEAN /\ listing \in BOOLEAN
      BY <1>0, Zenon
    <3> QED
      BY <1>0, <3>1, <3>2, <3>3, <3>4 DEF TypeOK
<1>2. OneActivePerTarget /\ FailureBudget /\ RowInv
  BY <1>0, JobsAssumption DEF OneActivePerTarget, FailureBudget, RowInv, NoRow, Active
<1>3. AttemptInv
  BY <1>0 DEF AttemptInv, NoAttempt, NoRow, Running
<1>4. ClaimInv /\ LateInv
  BY <1>0 DEF ClaimInv, LateInv
<1>5. GlobalLimit
  <2>1. {j \in Jobs : Running(j)} = {}
    BY <1>0 DEF Running
  <2> QED
    BY <1>0, <2>1, FS_EmptySet, JobsAssumption DEF GlobalLimit
<1>6. OwnerLimit
  <2>1. {j \in Jobs : attempts[j].slot} = {}
    BY <1>0 DEF NoAttempt
  <2> QED
    BY <2>1, FS_EmptySet, JobsAssumption DEF OwnerLimit, Slots
<1>7. ArtifactOfLastClaim /\ WaitingJobsAreIdle
  BY <1>0 DEF ArtifactOfLastClaim, WaitingJobsAreIdle, Accepting, NoRow, NoAttempt
<1> QED
  BY <1>1, <1>2, <1>3, <1>4, <1>5, <1>6, <1>7 DEF IndInv, JobsInv

(* The three invariants together hold in every reachable state.            *)
THEOREM JobsInvariant == Spec => []IndInv
<1>1. IndInv /\ [Next]_vars => IndInv'
  <2> SUFFICES ASSUME IndInv, [Next]_vars PROVE IndInv'
    OBVIOUS
  <2>1. TypeOK'
    BY TypeStep DEF IndInv, JobsInv
  <2>2. RowInv' /\ OneActivePerTarget' /\ ArtifactOfLastClaim' /\ FailureBudget'
    BY RowInvStep
  <2>3. AttemptInv' /\ ClaimInv' /\ LateInv'
    BY AttemptInvStep, ClaimInvStep, LateInvStep
  <2>4. WaitingJobsAreIdle' /\ GlobalLimit' /\ OwnerLimit'
    BY WaitingStep, GlobalStep, OwnerStep
  <2> QED
    BY <2>1, <2>2, <2>3, <2>4 DEF IndInv, JobsInv
<1> QED
  BY <1>1, InitJobs, PTL DEF Spec

(* Whatever crashes, stalls and storage failures there are, a target has   *)
(* one active job, no job runs once its failures are used up, and the      *)
(* runner stays within globalConcurrency and ownerConcurrency (enqueue,    *)
(* #retry, #drain, #owner).                                                *)
THEOREM JobsCorrect == Spec => []JobsInv
<1>1. IndInv => JobsInv
  BY DEF IndInv
<1> QED
  BY <1>1, JobsInvariant, PTL

(* A completed job has the artifact of its last claim: a superseded or     *)
(* stalled attempt never publishes (#lockClaim in settle).                 *)
THEOREM LastClaimPublishes == Spec => []ArtifactOfLastClaim
<1>1. IndInv => ArtifactOfLastClaim
  BY DEF IndInv
<1> QED
  BY <1>1, JobsInvariant, PTL

(* A late pause, requeue or returned claim never puts aside a job that a   *)
(* newer attempt works on (#pause's revision, #lockClaim's generation).    *)
THEOREM WaitingIsIdle == Spec => []WaitingJobsAreIdle
<1>1. IndInv => WaitingJobsAreIdle
  BY DEF IndInv
<1> QED
  BY <1>1, JobsInvariant, PTL

(* A terminal row is never written again, whichever write comes last.      *)
THEOREM TerminalStays == Spec => TerminalIsFinal
<1>1. IndInv /\ [Next]_vars =>
        [\A j \in Jobs : rows[j].state \in Terminal => rows'[j] = rows[j]]_vars
  <2> SUFFICES ASSUME IndInv, [Next]_vars, NEW k \in Jobs, rows[k].state \in Terminal
               PROVE  rows'[k] = rows[k]
    OBVIOUS
  <2>1. ~RowMoves(k) /\ ~RowCompleted(k)
    BY DEF RowMoves, RowEnqueued, RowClaimed, RowExpired, RowEnded, RowWaits, RowCompleted,
           Active, Terminal
  <2> QED
    BY <2>1, RowStep
<1> QED
  BY <1>1, JobsInvariant, PTL DEF Spec, TerminalIsFinal
=============================================================================
