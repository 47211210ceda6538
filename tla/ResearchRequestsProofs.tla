----------------------- MODULE ResearchRequestsProofs -----------------------
(***************************************************************************)
(* The research request, for any workloads.  ResearchInv and ToldTruly are *)
(* inductive together.  A step is split by what it does to the request's   *)
(* row and jobs (RowStep) and by what it does to the queue of operations   *)
(* (LockStep); each part of the invariant follows from these two and from  *)
(* little else, so that few actions have to be looked at more than once.   *)
(***************************************************************************)
EXTENDS ResearchRequests, FiniteSetTheorems, TLAPS

\* What every step preserves.
IndInv == ResearchInv /\ ToldTruly

-----------------------------------------------------------------------------
(* What a step does to the row and its jobs.                               *)

RowSame ==
    /\ jobs' = jobs /\ ws'.evidence = ws.evidence /\ ws'.answer = ws.answer
    /\ ws'.rev = ws.rev /\ ws'.pub = ws.pub /\ ws' \in RowRecords

JobEnded ==
    /\ ws' = ws
    /\ \E j \in 1 .. Len(jobs), s \in States \ {"active"} :
          jobs[j].state = "active" /\ jobs' = [jobs EXCEPT ![j].state = s]

Enqueued ==
    /\ ws' = ws
    /\ \E role \in Roles :
          /\ ActiveJobs(role) = {} /\ Keyed(role) = {}
          /\ role = "evidence" => ws.evidence = 0
          /\ role = "answer" => NeedsAnswer
          /\ \E d \in Nat : jobs' = Append(jobs, [role |-> role, rev |-> ws.rev, doc |-> d,
                                                  state |-> "active"])

Linked ==
    /\ jobs' = jobs /\ lock # <<>> /\ Head(lock).at = "link"
    /\ ws' = [ws EXCEPT ![Head(lock).role] = Head(lock).new, !.rev = @ + 1]

Published ==
    /\ jobs' = jobs /\ NeedsPublish
    /\ ws' = [ws EXCEPT !.pub = TRUE, !.rev = @ + 1]

WasReset ==
    /\ jobs' = jobs /\ ~ws.pub /\ Retryable
    /\ ws' = [ws EXCEPT !.evidence = 0, !.answer = 0, !.rev = @ + 1]

RowStep == RowSame \/ JobEnded \/ Enqueued \/ Linked \/ Published \/ WasReset

\* Jobs stay what they are, and in the state they ended in.
JobsKept ==
    /\ Len(jobs) \in Nat /\ Len(jobs') \in Nat /\ Len(jobs) <= Len(jobs')
    /\ \A j \in 1 .. Len(jobs) :
          /\ jobs'[j].role = jobs[j].role /\ jobs'[j].rev = jobs[j].rev
          /\ jobs[j].state # "active" => jobs'[j].state = jobs[j].state
    /\ \A j \in 1 .. Len(jobs') : j > Len(jobs) => jobs'[j].state = "active"

(* The types of a row, its jobs and its linked ones, one by one.           *)
LEMMA RowTypes ==
    ASSUME TypeOK
    PROVE  /\ ws.made \in BOOLEAN /\ ws.ref \in {"none", "pending", "placed"}
           /\ ws.rev \in Nat /\ ws.pub \in BOOLEAN
           /\ ws.evidence \in 0 .. Len(jobs) /\ ws.answer \in 0 .. Len(jobs)
           /\ Len(jobs) \in Nat
           /\ \A j \in 1 .. Len(jobs) : /\ jobs[j].role \in Roles /\ jobs[j].rev \in Nat
                                        /\ jobs[j].state \in States
<1>1. /\ ws \in RowRecords /\ ws.evidence \in 0 .. Len(jobs) /\ ws.answer \in 0 .. Len(jobs)
      /\ jobs \in Seq(JobRecords) /\ Len(jobs) \in Nat
  BY DEF TypeOK
<1>2. \A j \in 1 .. Len(jobs) : jobs[j] \in JobRecords
  BY <1>1
<1> QED
  BY <1>1, <1>2 DEF RowRecords, JobRecords

(* A job that ends leaves the others alone.                                *)
LEMMA EndedJob ==
    ASSUME TypeOK, NEW j \in 1 .. Len(jobs), NEW s \in States \ {"active"},
           jobs[j].state = "active", jobs' = [jobs EXCEPT ![j].state = s]
    PROVE  /\ jobs' \in Seq(JobRecords) /\ Len(jobs') = Len(jobs)
           /\ jobs'[j].state = s
           /\ \A k \in 1 .. Len(jobs) : /\ jobs'[k].role = jobs[k].role /\ jobs'[k].rev = jobs[k].rev
                                        /\ k # j => jobs'[k] = jobs[k]
<1>1. jobs \in Seq(JobRecords) /\ jobs[j] \in JobRecords
  BY DEF TypeOK
<1>2. [jobs[j] EXCEPT !.state = s] \in JobRecords
  BY <1>1 DEF JobRecords
<1>3. /\ [jobs[j] EXCEPT !.state = s].state = s
      /\ [jobs[j] EXCEPT !.state = s].role = jobs[j].role
      /\ [jobs[j] EXCEPT !.state = s].rev = jobs[j].rev
  BY <1>1 DEF JobRecords
<1> DEFINE r == [jobs[j] EXCEPT !.state = s]
<1>4. jobs' = [jobs EXCEPT ![j] = r]
  BY <1>1
<1>5. r \in JobRecords /\ r.state = s /\ r.role = jobs[j].role /\ r.rev = jobs[j].rev
  BY <1>2, <1>3
<1> HIDE DEF r
<1>6. jobs' \in Seq(JobRecords) /\ Len(jobs') = Len(jobs)
  BY <1>1, <1>4, <1>5
<1>7. \A k \in 1 .. Len(jobs) : jobs'[k] = IF k = j THEN r ELSE jobs[k]
  BY <1>1, <1>4
<1> QED
  BY <1>5, <1>6, <1>7

(* So does one that is enqueued.                                           *)
LEMMA NewJob ==
    ASSUME TypeOK, NEW role \in Roles, NEW d \in Nat,
           jobs' = Append(jobs, [role |-> role, rev |-> ws.rev, doc |-> d, state |-> "active"])
    PROVE  /\ jobs' \in Seq(JobRecords) /\ Len(jobs') = Len(jobs) + 1
           /\ \A k \in 1 .. Len(jobs) : jobs'[k] = jobs[k]
           /\ jobs'[Len(jobs) + 1].role = role
           /\ jobs'[Len(jobs) + 1].rev = ws.rev
           /\ jobs'[Len(jobs) + 1].state = "active"
<1> DEFINE r == [role |-> role, rev |-> ws.rev, doc |-> d, state |-> "active"]
<1>1. r \in JobRecords /\ r.role = role /\ r.rev = ws.rev /\ r.state = "active"
  BY RowTypes DEF JobRecords, States
<1>2. jobs \in Seq(JobRecords) /\ jobs' = Append(jobs, r)
  BY DEF TypeOK
<1> HIDE DEF r
<1> QED
  BY <1>1, <1>2

(* Whatever happens to the row, its jobs are kept.                         *)
LEMMA RowStepKeeps ==
    ASSUME TypeOK, RowStep
    PROVE  JobsKept /\ jobs' \in Seq(JobRecords)
<1>1. jobs \in Seq(JobRecords) /\ Len(jobs) \in Nat
  BY DEF TypeOK
<1>2. CASE jobs' = jobs
  BY <1>1, <1>2 DEF JobsKept
<1>3. CASE JobEnded
  <2>1. PICK j \in 1 .. Len(jobs), s \in States \ {"active"} :
            jobs[j].state = "active" /\ jobs' = [jobs EXCEPT ![j].state = s]
    BY <1>3 DEF JobEnded
  <2>2. /\ jobs' \in Seq(JobRecords) /\ Len(jobs') = Len(jobs)
        /\ \A k \in 1 .. Len(jobs) : /\ jobs'[k].role = jobs[k].role /\ jobs'[k].rev = jobs[k].rev
                                     /\ k # j => jobs'[k] = jobs[k]
    BY <2>1, EndedJob
  <2> QED
    BY <1>1, <2>1, <2>2 DEF JobsKept
<1>4. CASE Enqueued
  <2>1. PICK role \in Roles, d \in Nat :
            jobs' = Append(jobs, [role |-> role, rev |-> ws.rev, doc |-> d, state |-> "active"])
    BY <1>4 DEF Enqueued
  <2> QED
    BY <1>1, <2>1, NewJob DEF JobsKept
<1> QED
  BY <1>2, <1>3, <1>4 DEF RowStep, RowSame, Linked, Published, WasReset

-----------------------------------------------------------------------------
(* The rows: KeysInv, LinkedInv, ActiveInv and PublishedIsAnswered.        *)

RowsInv == KeysInv /\ LinkedInv /\ ActiveInv /\ PublishedIsAnswered

\* Of and State, spelled out.
LEMMA Linkage ==
    ASSUME TypeOK, LinkedInv
    PROVE  /\ ws.evidence # 0 => /\ ws.evidence \in 1 .. Len(jobs)
                                 /\ jobs[ws.evidence].role = "evidence"
                                 /\ State(ws.evidence) = jobs[ws.evidence].state
           /\ ws.answer # 0 => /\ ws.answer \in 1 .. Len(jobs) /\ jobs[ws.answer].role = "answer"
                               /\ State(ws.answer) = jobs[ws.answer].state
           /\ ws.answer # 0 \/ State(ws.evidence) = "completed" => ws.evidence # 0
           /\ State(ws.answer) # "none" => ws.answer # 0
  BY RowTypes DEF LinkedInv, Of, State

(* Two jobs that run at once would be of one role, and both its newest.    *)
LEMMA AtMostOne ==
    ASSUME TypeOK, LinkedInv, ActiveInv
    PROVE  OneAttempt
<1> DEFINE A == {j \in 1 .. Len(jobs) : jobs[j].state = "active"}
<1>1. ASSUME NEW j \in A, NEW k \in A PROVE j = k
  <2>1. CASE jobs[j].role = jobs[k].role
    BY <2>1, RowTypes DEF ActiveInv, Current, Of
  <2>2. ASSUME NEW a \in A, NEW b \in A, jobs[a].role = "evidence", jobs[b].role = "answer"
        PROVE  FALSE
    BY <2>2, Linkage DEF ActiveInv, State
  <2> QED
    BY <2>1, <2>2, RowTypes DEF Roles
<1>2. CASE A = {}
  BY <1>2, FS_EmptySet DEF OneAttempt
<1>3. CASE A # {}
  <2>1. PICK a \in A : TRUE
    BY <1>3
  <2>2. A = {a}
    BY <1>1, <2>1
  <2>3. Cardinality(A) = 1
    BY <2>2, FS_Singleton
  <2> QED
    BY <2>3 DEF OneAttempt
<1> QED
  BY <1>2, <1>3

(* A row that stays as it is, apart from whether it is made or placed.     *)
LEMMA SameRows ==
    ASSUME TypeOK, RowsInv, RowSame
    PROVE  RowsInv'
<1>1. /\ ws'.evidence = ws.evidence /\ ws'.answer = ws.answer /\ ws'.rev = ws.rev
      /\ ws'.pub = ws.pub /\ jobs' = jobs
  BY DEF RowSame
<1>2. KeysInv'
  BY <1>1 DEF RowsInv, KeysInv
<1>3. LinkedInv' /\ PublishedIsAnswered'
  BY <1>1 DEF RowsInv, LinkedInv, PublishedIsAnswered, Of, Current, State
<1>4. ActiveInv'
  BY <1>1 DEF RowsInv, ActiveInv, Of, Current, State
<1> QED
  BY <1>2, <1>3, <1>4 DEF RowsInv

(* A job ends: no other state changes, and no completed job runs.          *)
LEMMA EndedRows ==
    ASSUME TypeOK, RowsInv, JobEnded
    PROVE  RowsInv'
<1>1. PICK j \in 1 .. Len(jobs), s \in States \ {"active"} :
          jobs[j].state = "active" /\ jobs' = [jobs EXCEPT ![j].state = s]
  BY DEF JobEnded
<1>2. /\ Len(jobs') = Len(jobs) /\ jobs'[j].state = s /\ ws' = ws
      /\ \A k \in 1 .. Len(jobs) : /\ jobs'[k].role = jobs[k].role /\ jobs'[k].rev = jobs[k].rev
                                   /\ k # j => jobs'[k] = jobs[k]
  BY <1>1, EndedJob DEF JobEnded
<1>3. \A k \in 1 .. Len(jobs) : Current(k)' <=> Current(k)
  BY <1>2 DEF Current, Of
<1>4. /\ \A r : Of(r)' = Of(r)
      /\ State(ws.evidence) = "completed" => State(ws.evidence)' = "completed"
      /\ State(ws.answer) = "completed" => State(ws.answer)' = "completed"
  BY <1>1, <1>2, RowTypes DEF Of, State
<1>5. KeysInv'
  BY <1>2 DEF RowsInv, KeysInv
<1>6. LinkedInv' /\ PublishedIsAnswered'
  BY <1>2, <1>3, <1>4, Linkage DEF RowsInv, LinkedInv, PublishedIsAnswered
<1>7. ActiveInv'
  BY <1>1, <1>2, <1>3, <1>4 DEF RowsInv, ActiveInv
<1> QED
  BY <1>5, <1>6, <1>7 DEF RowsInv

(* A job is enqueued only when none runs, and is then the newest.          *)
LEMMA EnqueuedRows ==
    ASSUME TypeOK, RowsInv, Enqueued
    PROVE  RowsInv'
<1>0. PICK n \in Nat : n = Len(jobs) + 1
  BY RowTypes
<1>1. PICK role \in Roles :
          /\ ActiveJobs(role) = {} /\ Keyed(role) = {}
          /\ role = "evidence" => ws.evidence = 0
          /\ role = "answer" => NeedsAnswer
          /\ \E d \in Nat : jobs' = Append(jobs, [role |-> role, rev |-> ws.rev, doc |-> d,
                                                  state |-> "active"])
  BY DEF Enqueued
<1>2. /\ Len(jobs') = n /\ ws' = ws
      /\ \A k \in 1 .. Len(jobs) : jobs'[k] = jobs[k]
      /\ jobs'[n].role = role /\ jobs'[n].rev = ws.rev /\ jobs'[n].state = "active"
  BY <1>0, <1>1, NewJob DEF Enqueued
<1>3. /\ \A k \in 1 .. Len(jobs) : jobs[k].state # "active"
      /\ \A k \in 1 .. Len(jobs) : jobs[k].role = role => jobs[k].rev # ws.rev
  <2>1. \A k \in 1 .. Len(jobs) : jobs[k].role = role => jobs[k].state # "active"
    BY <1>1 DEF ActiveJobs, Of, RowsInv, ActiveInv
  <2>2. ASSUME NEW k \in 1 .. Len(jobs), jobs[k].state = "active", jobs[k].role # role PROVE FALSE
    <3>1. CASE role = "evidence"
      BY <1>1, <2>2, <3>1, RowTypes, Linkage DEF RowsInv, ActiveInv, Roles
    <3>2. CASE role = "answer"
      BY <1>1, <2>2, <3>2, RowTypes, Linkage DEF RowsInv, ActiveInv, Roles, NeedsAnswer
    <3> QED
      BY <3>1, <3>2 DEF Roles
  <2> QED
    BY <1>1, <2>1, <2>2 DEF Keyed, Of
<1>4. \A k \in 1 .. Len(jobs) : jobs[k].role # role => (Current(k)' <=> Current(k))
  BY <1>0, <1>2, RowTypes DEF Current, Of
<1>5. Current(n)'
  BY <1>0, <1>2, RowTypes DEF Current, Of
<1>6. KeysInv'
  <2>1. \A k \in 1 .. n : jobs'[k].rev <= ws'.rev
    BY <1>0, <1>2, RowTypes DEF RowsInv, KeysInv
  <2>2. ASSUME NEW j \in 1 .. n, NEW k \in 1 .. n, jobs'[j].role = jobs'[k].role, j < k
        PROVE  jobs'[j].rev < jobs'[k].rev
    <3>1. CASE k = n
      BY <1>0, <1>2, <1>3, <2>2, <3>1, RowTypes DEF RowsInv, KeysInv
    <3>2. CASE k # n
      BY <1>0, <1>2, <2>2, <3>2, RowTypes DEF RowsInv, KeysInv
    <3> QED
      BY <3>1, <3>2
  <2> QED
    BY <1>2, <2>1, <2>2 DEF KeysInv
<1>7. /\ ws.evidence # 0 => jobs[ws.evidence].role # role
      /\ ws.answer # 0 => jobs[ws.answer].role # role
  BY <1>1, Linkage DEF RowsInv, NeedsAnswer, Roles
<1>8. /\ ws.evidence # 0 => ws.evidence \in Of("evidence")' /\ Current(ws.evidence)'
      /\ ws.answer # 0 => ws.answer \in Of("answer")' /\ Current(ws.answer)'
      /\ State(ws.evidence)' = State(ws.evidence) /\ State(ws.answer)' = State(ws.answer)
  BY <1>0, <1>2, <1>4, <1>7, Linkage, RowTypes DEF RowsInv, LinkedInv, Of, State
<1>9. LinkedInv' /\ PublishedIsAnswered'
  BY <1>2, <1>8, Linkage DEF RowsInv, LinkedInv, PublishedIsAnswered
<1>10. ActiveInv'
  <2>1. \A k \in 1 .. n : jobs'[k].state = "active" => k = n
    BY <1>0, <1>2, <1>3, RowTypes
  <2>2. role = "evidence" => ws.answer = 0 /\ ws.evidence = 0
    BY <1>1, Linkage DEF RowsInv
  <2>3. role = "answer" => ws.answer = 0 /\ State(ws.evidence)' = "completed"
    BY <1>1, <1>8 DEF NeedsAnswer
  <2>4. ws'.evidence = ws.evidence /\ ws'.answer = ws.answer
    BY <1>2
  <2> SUFFICES ASSUME NEW k \in 1 .. Len(jobs'), jobs'[k].state = "active"
               PROVE  /\ Current(k)'
                      /\ jobs'[k].role = "evidence" => ws'.answer = 0 /\ ws'.evidence \in {0, k}
                      /\ jobs'[k].role = "answer" => /\ ws'.answer \in {0, k}
                                                    /\ State(ws.evidence)' = "completed"
    BY DEF ActiveInv
  <2>5. k = n /\ jobs'[k].role = role
    BY <1>2, <2>1
  <2> QED
    BY <1>5, <2>2, <2>3, <2>4, <2>5
<1> QED
  BY <1>6, <1>9, <1>10 DEF RowsInv

(* Who holds the lock.                                                     *)
LEMMA HeadOfLock ==
    ASSUME TypeOK, lock # <<>>
    PROVE  /\ lock[1] = Head(lock) /\ 1 \in DOMAIN lock /\ Head(lock) \in Ops
           /\ Tail(lock) \in Seq(Ops) /\ lock \in Seq(Ops) /\ Len(lock) \in Nat \ {0}
           /\ DOMAIN lock = 1 .. Len(lock)
<1>1. lock \in Seq(Ops)
  BY DEF TypeOK
<1>2. \A S : \A q \in Seq(S) : q # <<>> =>
         /\ q[1] = Head(q) /\ 1 \in DOMAIN q /\ Head(q) \in S /\ Tail(q) \in Seq(S)
         /\ Len(q) \in Nat \ {0} /\ DOMAIN q = 1 .. Len(q)
  OBVIOUS
<1> QED
  BY <1>1, <1>2

(* The fields of a row that is linked, published or reset.                 *)
LEMMA LinkFields ==
    ASSUME NEW r \in RowRecords, NEW n \in Nat, NEW role \in Roles
    PROVE  \A q : q = [r EXCEPT ![role] = n, !.rev = @ + 1] =>
              /\ q \in RowRecords /\ q.rev = r.rev + 1 /\ q.pub = r.pub
              /\ role = "evidence" => q.evidence = n /\ q.answer = r.answer
              /\ role = "answer" => q.answer = n /\ q.evidence = r.evidence
<1>1. PICK m \in Nat : m = r.rev + 1
  BY DEF RowRecords
<1> TAKE q
<1> HAVE q = [r EXCEPT ![role] = n, !.rev = @ + 1]
<1>2. CASE role = "evidence"
  <2>1. q = [r EXCEPT !.evidence = n, !.rev = m]
    BY <1>1, <1>2 DEF RowRecords
  <2>2. q \in RowRecords /\ q.rev = m /\ q.pub = r.pub /\ q.evidence = n /\ q.answer = r.answer
    BY <2>1 DEF RowRecords
  <2> QED
    BY <1>1, <1>2, <2>2
<1>3. CASE role = "answer"
  <2>1. q = [r EXCEPT !.answer = n, !.rev = m]
    BY <1>1, <1>3 DEF RowRecords
  <2>2. q \in RowRecords /\ q.rev = m /\ q.pub = r.pub /\ q.answer = n /\ q.evidence = r.evidence
    BY <2>1 DEF RowRecords
  <2> QED
    BY <1>1, <1>3, <2>2
<1> QED
  BY <1>2, <1>3 DEF Roles

LEMMA RowFields ==
    ASSUME NEW r \in RowRecords
    PROVE  /\ LET q == [r EXCEPT !.pub = TRUE, !.rev = @ + 1] IN
              /\ q \in RowRecords /\ q.rev = r.rev + 1 /\ q.pub
              /\ q.evidence = r.evidence /\ q.answer = r.answer
           /\ LET q == [r EXCEPT !.evidence = 0, !.answer = 0, !.rev = @ + 1] IN
              /\ q \in RowRecords /\ q.rev = r.rev + 1 /\ q.pub = r.pub
              /\ q.evidence = 0 /\ q.answer = 0
<1>1. PICK m \in Nat : m = r.rev + 1
  BY DEF RowRecords
<1>2. LET q == [r EXCEPT !.pub = TRUE, !.rev = @ + 1] IN
         /\ q \in RowRecords /\ q.rev = r.rev + 1 /\ q.pub
         /\ q.evidence = r.evidence /\ q.answer = r.answer
  <2>1. [r EXCEPT !.pub = TRUE, !.rev = @ + 1] = [r EXCEPT !.pub = TRUE, !.rev = m]
    BY <1>1 DEF RowRecords
  <2>2. /\ [r EXCEPT !.pub = TRUE, !.rev = m] \in RowRecords
        /\ [r EXCEPT !.pub = TRUE, !.rev = m].rev = m
        /\ [r EXCEPT !.pub = TRUE, !.rev = m].pub
        /\ [r EXCEPT !.pub = TRUE, !.rev = m].evidence = r.evidence
        /\ [r EXCEPT !.pub = TRUE, !.rev = m].answer = r.answer
    BY DEF RowRecords
  <2> QED
    BY <1>1, <2>1, <2>2
<1>3. LET q == [r EXCEPT !.evidence = 0, !.answer = 0, !.rev = @ + 1] IN
         /\ q \in RowRecords /\ q.rev = r.rev + 1 /\ q.pub = r.pub
         /\ q.evidence = 0 /\ q.answer = 0
  <2>1. [r EXCEPT !.evidence = 0, !.answer = 0, !.rev = @ + 1]
           = [r EXCEPT !.evidence = 0, !.answer = 0, !.rev = m]
    BY <1>1 DEF RowRecords
  <2>2. /\ [r EXCEPT !.evidence = 0, !.answer = 0, !.rev = m] \in RowRecords
        /\ [r EXCEPT !.evidence = 0, !.answer = 0, !.rev = m].rev = m
        /\ [r EXCEPT !.evidence = 0, !.answer = 0, !.rev = m].pub = r.pub
        /\ [r EXCEPT !.evidence = 0, !.answer = 0, !.rev = m].evidence = 0
        /\ [r EXCEPT !.evidence = 0, !.answer = 0, !.rev = m].answer = 0
    BY DEF RowRecords
  <2> QED
    BY <1>1, <2>1, <2>2
<1> QED
  BY <1>2, <1>3

(* Linking the newest job of a role.                                       *)
LEMMA LinkedRows ==
    ASSUME TypeOK, RowsInv, LinkInv, Linked
    PROVE  RowsInv' /\ ws' \in RowRecords /\ {ws'.evidence, ws'.answer} \subseteq 0 .. Len(jobs)
<1> DEFINE role == Head(lock).role
           new == Head(lock).new
<1>1. /\ role \in Roles /\ new \in Of(role) /\ Current(new) /\ new \in 1 .. Len(jobs)
      /\ role = "evidence" => ws.evidence = 0
      /\ role = "answer" => NeedsAnswer
  <2>1. lock[1] = Head(lock) /\ 1 \in DOMAIN lock /\ Head(lock) \in Ops
    BY HeadOfLock DEF Linked
  <2>2. Head(lock).at = "link" /\ Head(lock).role \in Roles
    BY <2>1 DEF Linked, Ops
  <2> QED
    BY <2>1, <2>2 DEF LinkInv, Of
<1>2. jobs' = jobs /\ ws' = [ws EXCEPT ![role] = new, !.rev = @ + 1]
  BY DEF Linked
<1> HIDE DEF role, new
<1>3. /\ ws' \in RowRecords /\ ws'.rev = ws.rev + 1 /\ ws'.pub = ws.pub
      /\ role = "evidence" => ws'.evidence = new /\ ws'.answer = ws.answer
      /\ role = "answer" => ws'.answer = new /\ ws'.evidence = ws.evidence
  <2>1. ws \in RowRecords /\ new \in Nat /\ role \in Roles
    BY <1>1, RowTypes DEF TypeOK
  <2>2. \A q : q = [ws EXCEPT ![role] = new, !.rev = @ + 1] =>
           /\ q \in RowRecords /\ q.rev = ws.rev + 1 /\ q.pub = ws.pub
           /\ role = "evidence" => q.evidence = new /\ q.answer = ws.answer
           /\ role = "answer" => q.answer = new /\ q.evidence = ws.evidence
    BY <2>1, LinkFields, Zenon
  <2> QED
    BY <1>2, <2>2, Zenon
<1>4. /\ \A k : Current(k)' <=> Current(k)
      /\ \A r : Of(r)' = Of(r)
      /\ State(0)' = "none" /\ \A k : State(k)' = State(k)
  BY <1>2 DEF Current, Of, State
<1>5. KeysInv'
  <2>1. jobs' = jobs /\ ws'.rev = ws.rev + 1
    BY <1>2, <1>3
  <2> QED
    BY <2>1, RowTypes DEF RowsInv, KeysInv
<1>6. CASE role = "evidence"
  <2>1. ws.answer = 0 /\ ws'.answer = 0 /\ ws'.evidence = new /\ ~ws'.pub
    BY <1>1, <1>3, <1>6, Linkage DEF RowsInv, PublishedIsAnswered
  <2>2. LinkedInv' /\ PublishedIsAnswered'
    BY <1>1, <1>4, <1>6, <2>1 DEF LinkedInv, PublishedIsAnswered
  <2>3. ActiveInv'
    <3> SUFFICES ASSUME NEW k \in 1 .. Len(jobs), jobs[k].state = "active"
                 PROVE  Current(k) /\ jobs[k].role = "evidence" /\ k = new
      BY <1>2, <1>4, <2>1 DEF ActiveInv
    <3>1. Current(k) /\ jobs[k].role = "evidence"
      BY <1>1, <1>6, RowTypes, Linkage DEF RowsInv, ActiveInv, Roles
    <3> QED
      BY <1>1, <1>6, <3>1 DEF Current, Of
  <2> QED
    BY <1>1, <1>3, <1>5, <2>1, <2>2, <2>3, RowTypes DEF RowsInv
<1>7. CASE role = "answer"
  <2>1. /\ ws.answer = 0 /\ ws'.answer = new /\ ws'.evidence = ws.evidence /\ ~ws'.pub
        /\ State(ws.evidence) = "completed"
    BY <1>1, <1>3, <1>7, Linkage DEF RowsInv, PublishedIsAnswered, NeedsAnswer
  <2>2. LinkedInv' /\ PublishedIsAnswered'
    BY <1>1, <1>4, <1>7, <2>1, Linkage DEF RowsInv, LinkedInv, PublishedIsAnswered
  <2>3. ActiveInv'
    <3> SUFFICES ASSUME NEW k \in 1 .. Len(jobs), jobs[k].state = "active"
                 PROVE  Current(k) /\ jobs[k].role = "answer" /\ k = new
      BY <1>2, <1>4, <2>1 DEF ActiveInv
    <3>1. Current(k) /\ jobs[k].role = "answer"
      BY <2>1, RowTypes, Linkage DEF RowsInv, ActiveInv, Roles
    <3> QED
      BY <1>1, <1>7, <3>1 DEF Current, Of
  <2> QED
    BY <1>1, <1>3, <1>5, <2>1, <2>2, <2>3, RowTypes DEF RowsInv
<1> QED
  BY <1>1, <1>6, <1>7 DEF Roles

(* A completed answer is published.                                        *)
LEMMA PublishedRows ==
    ASSUME TypeOK, RowsInv, Published
    PROVE  RowsInv' /\ ws' \in RowRecords /\ {ws'.evidence, ws'.answer} \subseteq 0 .. Len(jobs)
<1>1. /\ jobs' = jobs /\ ws' \in RowRecords /\ ws'.rev = ws.rev + 1 /\ ws'.pub
      /\ ws'.evidence = ws.evidence /\ ws'.answer = ws.answer
  BY RowFields DEF Published, TypeOK, Roles
<1>2. State(ws.answer) = "completed" /\ ws.answer # 0
  BY Linkage DEF RowsInv, Published, NeedsPublish
<1>3. KeysInv'
  BY <1>1, RowTypes DEF RowsInv, KeysInv
<1>4. LinkedInv' /\ PublishedIsAnswered'
  BY <1>1, <1>2, Linkage DEF RowsInv, LinkedInv, PublishedIsAnswered, Of, Current, State
<1>5. ActiveInv'
  BY <1>1 DEF RowsInv, ActiveInv, Of, Current, State
<1> QED
  BY <1>1, <1>3, <1>4, <1>5, RowTypes DEF RowsInv

(* What can be retried has no running job, linked or not.                  *)
LEMMA RetryableIsIdle ==
    ASSUME TypeOK, RowsInv, Retryable
    PROVE  /\ \A k \in 1 .. Len(jobs) : jobs[k].state = "active" =>
                 jobs[k].role = "evidence" /\ ws.evidence = 0 /\ ws.answer = 0
           /\ ws.answer # 0 => State(ws.answer) # "completed"
<1> DEFINE S == {State(j) : j \in {ws.evidence, ws.answer} \ {0}}
<1>1. /\ "active" \notin S
      /\ S = {} \/ S \cap {"failed", "cancelled"} # {}
  BY DEF Retryable
<1>2. ws.answer # 0 => State(ws.answer) # "completed"
  BY <1>1, Linkage DEF RowsInv, LinkedInv
<1>3. ASSUME NEW k \in 1 .. Len(jobs), jobs[k].state = "active"
      PROVE  jobs[k].role = "evidence" /\ ws.evidence = 0 /\ ws.answer = 0
  <2>1. State(k) = "active"
    BY <1>3, RowTypes DEF State
  <2>2. ws.evidence # k /\ ws.answer # k
    BY <1>1, <2>1
  <2>3. CASE jobs[k].role = "evidence"
    BY <1>3, <2>2, <2>3 DEF RowsInv, ActiveInv
  <2>4. CASE jobs[k].role = "answer"
    <3>1. ws.answer = 0 /\ State(ws.evidence) = "completed" /\ ws.evidence # 0
      BY <1>3, <2>2, <2>4, Linkage DEF RowsInv, ActiveInv
    <3>2. S = {"completed"}
      BY <3>1
    <3> QED
      BY <1>1, <3>2
  <2> QED
    BY <2>3, <2>4, RowTypes DEF Roles
<1> QED
  BY <1>2, <1>3

(* A retry forgets jobs that ended.                                        *)
LEMMA ResetRows ==
    ASSUME TypeOK, RowsInv, WasReset
    PROVE  RowsInv' /\ ws' \in RowRecords /\ {ws'.evidence, ws'.answer} \subseteq 0 .. Len(jobs)
<1>1. /\ jobs' = jobs /\ ws' \in RowRecords /\ ws'.rev = ws.rev + 1 /\ ~ws'.pub
      /\ ws'.evidence = 0 /\ ws'.answer = 0
  BY RowFields DEF WasReset, TypeOK, Roles
<1>2. KeysInv'
  BY <1>1, RowTypes DEF RowsInv, KeysInv
<1>3. LinkedInv' /\ PublishedIsAnswered'
  BY <1>1 DEF LinkedInv, PublishedIsAnswered
<1>4. ActiveInv'
  <2>1. \A k : Current(k)' <=> Current(k)
    BY <1>1 DEF Current, Of
  <2>2. \A k \in 1 .. Len(jobs) : jobs[k].state = "active" => Current(k) /\ jobs[k].role = "evidence"
    BY RetryableIsIdle DEF WasReset, RowsInv, ActiveInv
  <2> QED
    BY <1>1, <2>1, <2>2 DEF ActiveInv
<1> QED
  BY <1>1, <1>2, <1>3, <1>4, RowTypes DEF RowsInv

(* Whatever a step does to the row and its jobs, they stay in order.       *)
LEMMA RowStepInv ==
    ASSUME TypeOK, RowsInv, LinkInv, RowStep
    PROVE  /\ RowsInv' /\ ws' \in RowRecords /\ {ws'.evidence, ws'.answer} \subseteq 0 .. Len(jobs')
           /\ jobs' \in Seq(JobRecords) /\ JobsKept
<1>1. JobsKept /\ jobs' \in Seq(JobRecords)
  BY RowStepKeeps
<1>2. ws' = ws \/ RowSame => ws' \in RowRecords /\ {ws'.evidence, ws'.answer} \subseteq 0 .. Len(jobs')
  BY <1>1, RowTypes DEF TypeOK, RowSame, JobsKept
<1> QED
  BY <1>1, <1>2, SameRows, EndedRows, EnqueuedRows, LinkedRows, PublishedRows, ResetRows
  DEF RowStep, JobEnded, Enqueued, Linked, Published, WasReset

-----------------------------------------------------------------------------
(* What a step does to the queue of operations.                            *)

\* An operation that joins the queue.
Fresh(o) ==
    /\ o \in Ops /\ o.at \notin {"link", "act"}
    /\ o.do = "changed" => o.job \in 1 .. Len(jobs) /\ jobs[o.job].state # "active"

\* What the head may become.
Ready(o) ==
    /\ o \in Ops
    /\ o.at = "link" => /\ o.new \in 1 .. Len(jobs') /\ jobs'[o.new].role = o.role
                        /\ Current(o.new)'
                        /\ o.role = "evidence" => ws'.evidence = 0
                        /\ o.role = "answer" => NeedsAnswer'
    /\ o.at = "act" /\ o.do = "changed" => load'.cut \/ ~NeedsPublish'

Idle == RowSame \/ JobEnded

Pushed ==
    \E s \in Seq(Ops) : (\A i \in DOMAIN s : Fresh(s[i])) /\ lock' = lock \o s

PoppedTo(s) == /\ lock # <<>> /\ s \in Seq(Ops) /\ (\A i \in DOMAIN s : Fresh(s[i]))
               /\ lock' = Tail(lock) \o s

\* A change is not dropped unheard: a finished answer's leaves its notice.
Popped ==
    /\ \E s \in Seq(Ops) : PoppedTo(s)
    /\ \/ Head(lock).do # "changed" \/ load'.cut
       \/ Head(lock).job = ws.answer /\ State(ws.answer) = "completed"
          => [stage |-> "ready", job |-> ws.answer] \in notices'

Turned ==
    /\ lock # <<>>
    /\ \E o \in Ops : /\ Ready(o) /\ o.do = Head(lock).do /\ o.job = Head(lock).job
                      /\ lock' = <<o>> \o Tail(lock)

LockStep ==
    \/ (lock' = lock \/ Pushed) /\ Idle
    \/ lock' = <<>> /\ load'.cut
    \/ Popped \/ Turned

\* What is to be looked up has ended; a loss stays one.
CallStep == \A j \in calls' : j \in calls \/ (j \in 1 .. Len(jobs') /\ jobs'[j].state # "active")
CutStep  == load.cut => load'.cut

(* Sequences that grow at the end, lose their head, or change it.          *)
LEMMA SeqPush ==
    ASSUME NEW S, NEW q \in Seq(S), NEW s \in Seq(S)
    PROVE  /\ q \o s \in Seq(S)
           /\ \A i \in DOMAIN q : i \in DOMAIN (q \o s) /\ (q \o s)[i] = q[i]
           /\ \A i \in DOMAIN (q \o s) : i \in DOMAIN q \/ \E k \in DOMAIN s : (q \o s)[i] = s[k]
           /\ \A k \in DOMAIN s : \E i \in DOMAIN (q \o s) : (q \o s)[i] = s[k]
<1> DEFINE t == q \o s
<1>1. /\ t \in Seq(S) /\ Len(t) = Len(q) + Len(s) /\ Len(q) \in Nat /\ Len(s) \in Nat
      /\ DOMAIN t = 1 .. Len(t) /\ DOMAIN q = 1 .. Len(q) /\ DOMAIN s = 1 .. Len(s)
      /\ \A i \in 1 .. Len(t) : t[i] = IF i <= Len(q) THEN q[i] ELSE s[i - Len(q)]
  OBVIOUS
<1> HIDE DEF t
<1>2. ASSUME NEW i \in DOMAIN t, i \notin DOMAIN q PROVE \E k \in DOMAIN s : t[i] = s[k]
  <2>1. i - Len(q) \in DOMAIN s /\ t[i] = s[i - Len(q)]
    BY <1>1, <1>2
  <2> QED
    BY <2>1
<1>3. ASSUME NEW k \in DOMAIN s PROVE \E i \in DOMAIN t : t[i] = s[k]
  <2>1. Len(q) + k \in DOMAIN t /\ t[Len(q) + k] = s[k]
    BY <1>1, <1>3
  <2> QED
    BY <2>1
<1>4. t \in Seq(S) /\ \A i \in DOMAIN q : i \in DOMAIN t /\ t[i] = q[i]
  BY <1>1
<1> QED
  BY <1>2, <1>3, <1>4 DEF t

LEMMA SeqPop ==
    ASSUME NEW S, NEW q \in Seq(S), q # <<>>, NEW s \in Seq(S)
    PROVE  /\ Tail(q) \o s \in Seq(S)
           /\ \A i \in DOMAIN q : i # 1 => i - 1 \in DOMAIN (Tail(q) \o s) /\ (Tail(q) \o s)[i - 1] = q[i]
           /\ \A i \in DOMAIN (Tail(q) \o s) :
                 \/ \E k \in DOMAIN q : k # 1 /\ (Tail(q) \o s)[i] = q[k]
                 \/ \E k \in DOMAIN s : (Tail(q) \o s)[i] = s[k]
           /\ \A k \in DOMAIN s : \E i \in DOMAIN (Tail(q) \o s) : (Tail(q) \o s)[i] = s[k]
<1>1. /\ Tail(q) \in Seq(S) /\ Len(q) \in Nat \ {0} /\ Len(Tail(q)) = Len(q) - 1
      /\ DOMAIN q = 1 .. Len(q) /\ DOMAIN Tail(q) = 1 .. Len(q) - 1
      /\ \A i \in 1 .. Len(q) - 1 : Tail(q)[i] = q[i + 1]
  OBVIOUS
<1> DEFINE p == Tail(q)
<1>2. p \in Seq(S)
  BY <1>1
<1> HIDE DEF p
<1>3. /\ p \o s \in Seq(S)
      /\ \A i \in DOMAIN p : i \in DOMAIN (p \o s) /\ (p \o s)[i] = p[i]
      /\ \A i \in DOMAIN (p \o s) : i \in DOMAIN p \/ \E k \in DOMAIN s : (p \o s)[i] = s[k]
      /\ \A k \in DOMAIN s : \E i \in DOMAIN (p \o s) : (p \o s)[i] = s[k]
  BY <1>2, SeqPush
<1>4. /\ \A i \in DOMAIN q : i # 1 => i - 1 \in DOMAIN p /\ p[i - 1] = q[i]
      /\ \A i \in DOMAIN p : i + 1 \in DOMAIN q /\ i + 1 # 1 /\ p[i] = q[i + 1]
  BY <1>1 DEF p
<1>5. \A i \in DOMAIN q : i # 1 => i - 1 \in DOMAIN (p \o s) /\ (p \o s)[i - 1] = q[i]
  BY <1>3, <1>4
<1>6. \A i \in DOMAIN (p \o s) :
         \/ \E k \in DOMAIN q : k # 1 /\ (p \o s)[i] = q[k]
         \/ \E k \in DOMAIN s : (p \o s)[i] = s[k]
  <2> TAKE i \in DOMAIN (p \o s)
  <2>1. CASE i \in DOMAIN p
    <3>1. i + 1 \in DOMAIN q /\ i + 1 # 1 /\ (p \o s)[i] = q[i + 1]
      BY <1>3, <1>4, <2>1
    <3> QED
      BY <3>1
  <2> QED
    BY <1>3, <2>1
<1> QED
  BY <1>3, <1>5, <1>6 DEF p

LEMMA SeqTurn ==
    ASSUME NEW S, NEW q \in Seq(S), q # <<>>, NEW o \in S
    PROVE  /\ <<o>> \o Tail(q) \in Seq(S)
           /\ DOMAIN (<<o>> \o Tail(q)) = DOMAIN q /\ 1 \in DOMAIN q
           /\ (<<o>> \o Tail(q))[1] = o
           /\ \A i \in DOMAIN q : i # 1 => (<<o>> \o Tail(q))[i] = q[i]
<1>1. /\ Tail(q) \in Seq(S) /\ Len(q) \in Nat \ {0} /\ Len(Tail(q)) = Len(q) - 1
      /\ DOMAIN q = 1 .. Len(q)
      /\ \A i \in 1 .. Len(q) - 1 : Tail(q)[i] = q[i + 1]
  OBVIOUS
<1> DEFINE p == Tail(q)
<1>2. p \in Seq(S) /\ Len(p) = Len(q) - 1 /\ \A i \in 1 .. Len(q) - 1 : p[i] = q[i + 1]
  BY <1>1
<1> HIDE DEF p
<1>3. /\ <<o>> \o p \in Seq(S) /\ Len(<<o>> \o p) = 1 + Len(p)
      /\ DOMAIN (<<o>> \o p) = 1 .. 1 + Len(p)
      /\ (<<o>> \o p)[1] = o
      /\ \A i \in 2 .. 1 + Len(p) : (<<o>> \o p)[i] = p[i - 1]
  BY <1>2
<1>4. DOMAIN (<<o>> \o p) = DOMAIN q /\ 1 \in DOMAIN q
  <2>1. 1 + Len(p) = Len(q) /\ 1 \in 1 .. Len(q)
    BY <1>1, <1>2
  <2> QED
    BY <1>1, <1>3, <2>1
<1>5. ASSUME NEW i \in DOMAIN q, i # 1 PROVE (<<o>> \o p)[i] = q[i]
  <2>1. i \in 2 .. 1 + Len(p) /\ i - 1 \in 1 .. Len(q) - 1 /\ (i - 1) + 1 = i
    BY <1>1, <1>2, <1>5
  <2>2. (<<o>> \o p)[i] = p[i - 1] /\ p[i - 1] = q[i]
    BY <1>2, <1>3, <2>1
  <2> QED
    BY <2>2
<1> QED
  BY <1>3, <1>4, <1>5 DEF p

(* While no row is written, what a link found still holds.                 *)
LEMMA IdleKeeps ==
    ASSUME TypeOK, RowsInv, Idle
    PROVE  /\ Len(jobs') = Len(jobs) /\ ws'.evidence = ws.evidence /\ ws'.answer = ws.answer
           /\ \A k \in 1 .. Len(jobs) : /\ Current(k)' <=> Current(k)
                                        /\ jobs'[k].role = jobs[k].role
           /\ NeedsAnswer => NeedsAnswer'
           /\ ~NeedsPublish /\ ws.answer # 0 /\ jobs[ws.answer].state # "active" => ~NeedsPublish'
<1>1. /\ Len(jobs') = Len(jobs) /\ ws'.evidence = ws.evidence /\ ws'.answer = ws.answer
      /\ ws'.pub = ws.pub
      /\ \A k \in 1 .. Len(jobs) : /\ jobs'[k].role = jobs[k].role
                                   /\ jobs[k].state # "active" => jobs'[k] = jobs[k]
  <2>1. CASE RowSame
    BY <2>1 DEF RowSame
  <2>2. CASE JobEnded
    <3>1. PICK j \in 1 .. Len(jobs), s \in States \ {"active"} :
              jobs[j].state = "active" /\ jobs' = [jobs EXCEPT ![j].state = s]
      BY <2>2 DEF JobEnded
    <3>2. /\ Len(jobs') = Len(jobs)
          /\ \A k \in 1 .. Len(jobs) : jobs'[k].role = jobs[k].role /\ (k # j => jobs'[k] = jobs[k])
      BY <3>1, EndedJob
    <3> QED
      BY <2>2, <3>1, <3>2 DEF JobEnded
  <2> QED
    BY <2>1, <2>2 DEF Idle
<1>2. \A k \in 1 .. Len(jobs) : Current(k)' <=> Current(k)
  BY <1>1 DEF Current, Of
<1>3. State(ws.evidence) = "completed" => State(ws.evidence)' = "completed"
  BY <1>1, RowTypes DEF State
<1>4. ws.answer # 0 /\ jobs[ws.answer].state # "active" => State(ws.answer)' = State(ws.answer)
  BY <1>1, RowTypes DEF State
<1> QED
  BY <1>1, <1>2, <1>3, <1>4 DEF NeedsAnswer, NeedsPublish

\* The part of the invariant that is about one operation, at one place in the queue.
OpOK(o, i) ==
    /\ o.at = "link" => /\ i = 1 /\ o.new \in 1 .. Len(jobs) /\ jobs[o.new].role = o.role
                        /\ Current(o.new)
                        /\ o.role = "evidence" => ws.evidence = 0
                        /\ o.role = "answer" => NeedsAnswer
    /\ o.at = "act" => i = 1
    /\ o.do = "changed" =>
          /\ o.job \in 1 .. Len(jobs) /\ jobs[o.job].state # "active"
          /\ o.at = "act" /\ ~load.cut => ~NeedsPublish \/ o.job # ws.answer

\* The same of the next state.
OpOKNext(o, i) ==
    /\ o.at = "link" => /\ i = 1 /\ o.new \in 1 .. Len(jobs') /\ jobs'[o.new].role = o.role
                        /\ \A k \in 1 .. Len(jobs') : jobs'[k].role = o.role => k <= o.new
                        /\ o.role = "evidence" => ws'.evidence = 0
                        /\ o.role = "answer" => NeedsAnswer'
    /\ o.at = "act" => i = 1
    /\ o.do = "changed" =>
          /\ o.job \in 1 .. Len(jobs') /\ jobs'[o.job].state # "active"
          /\ o.at = "act" /\ ~load'.cut => ~NeedsPublish' \/ o.job # ws'.answer

(* An operation that is not at the point of writing stays in order.        *)
LEMMA OpKept ==
    ASSUME JobsKept, NEW o, NEW i, NEW k, OpOK(o, k), k # 1 \/ Fresh(o)
    PROVE  OpOKNext(o, i)
  BY DEF OpOK, OpOKNext, JobsKept, Fresh

LEMMA FreshKept ==
    ASSUME JobsKept, NEW o, NEW i, Fresh(o)
    PROVE  OpOKNext(o, i)
  BY DEF OpOKNext, JobsKept, Fresh

(* Nor does any, while no row is written.                                  *)
LEMMA OpIdle ==
    ASSUME TypeOK, RowsInv, JobsKept, Idle, CutStep, NEW o, NEW i, OpOK(o, i)
    PROVE  OpOKNext(o, i)
<1>1. o.at = "link" => /\ i = 1 /\ o.new \in 1 .. Len(jobs') /\ jobs'[o.new].role = o.role
                       /\ \A k \in 1 .. Len(jobs') : jobs'[k].role = o.role => k <= o.new
                       /\ o.role = "evidence" => ws'.evidence = 0
                       /\ o.role = "answer" => NeedsAnswer'
  BY IdleKeeps DEF OpOK, Current, Of
<1>2. ASSUME o.do = "changed"
      PROVE  o.job \in 1 .. Len(jobs') /\ jobs'[o.job].state # "active"
  BY <1>2 DEF OpOK, JobsKept
<1>3. ASSUME o.do = "changed", o.at = "act", ~load'.cut, o.job = ws'.answer PROVE ~NeedsPublish'
  <2>1. /\ o.job = ws.answer /\ ws.answer # 0 /\ jobs[ws.answer].state # "active" /\ ~NeedsPublish
    BY <1>3, IdleKeeps, RowTypes DEF OpOK, CutStep
  <2> QED
    BY <2>1, IdleKeeps
<1> QED
  BY <1>1, <1>2, <1>3 DEF OpOK, OpOKNext

(* The queue: LinkInv and ChangedInv.                                      *)
LEMMA LockInv ==
    ASSUME TypeOK, RowsInv, LinkInv, ChangedInv, RowStep, LockStep, CallStep, CutStep
    PROVE  LinkInv' /\ ChangedInv' /\ lock' \in Seq(Ops) /\ calls' \subseteq 1 .. Len(jobs')
<1>1. JobsKept
  BY RowStepKeeps
<1>2. lock \in Seq(Ops) /\ calls \subseteq 1 .. Len(jobs)
  BY DEF TypeOK
<1>4. \A i \in DOMAIN lock : OpOK(lock[i], i)
  <2> TAKE i \in DOMAIN lock
  <2>1. lock[i].at = "link" => /\ i = 1 /\ lock[i].new \in 1 .. Len(jobs)
                               /\ jobs[lock[i].new].role = lock[i].role
                               /\ Current(lock[i].new)
                               /\ lock[i].role = "evidence" => ws.evidence = 0
                               /\ lock[i].role = "answer" => NeedsAnswer
    BY DEF LinkInv, Of
  <2>2. lock[i].do = "changed" => jobs[lock[i].job].state # "active"
    BY RowTypes DEF ChangedInv, State
  <2> QED
    BY <2>1, <2>2 DEF OpOK, ChangedInv
<1>5. lock' \in Seq(Ops) /\ \A i \in DOMAIN lock' : OpOKNext(lock'[i], i)
  <2>1. CASE lock' = lock /\ Idle
    BY <1>1, <1>2, <1>4, <2>1, OpIdle
  <2>2. CASE Pushed /\ Idle
    <3>1. PICK s \in Seq(Ops) : (\A i \in DOMAIN s : Fresh(s[i])) /\ lock' = lock \o s
      BY <2>2 DEF Pushed
    <3>2. /\ lock' \in Seq(Ops)
          /\ \A i \in DOMAIN lock : i \in DOMAIN lock' /\ lock'[i] = lock[i]
          /\ \A i \in DOMAIN lock' : i \in DOMAIN lock \/ \E k \in DOMAIN s : lock'[i] = s[k]
      BY <1>2, <3>1, SeqPush
    <3>3. ASSUME NEW i \in DOMAIN lock' PROVE OpOKNext(lock'[i], i)
      <4>1. CASE i \in DOMAIN lock
        BY <1>1, <1>4, <2>2, <3>2, <4>1, OpIdle
      <4>2. CASE \E k \in DOMAIN s : lock'[i] = s[k]
        BY <1>1, <3>1, <4>2, FreshKept
      <4> QED
        BY <3>2, <4>1, <4>2
    <3> QED
      BY <3>2, <3>3
  <2>3. CASE lock' = <<>>
    BY <2>3
  <2>4. CASE Popped
    <3>1. PICK s \in Seq(Ops) : PoppedTo(s)
      BY <2>4 DEF Popped
    <3>2. lock # <<>> /\ (\A i \in DOMAIN s : Fresh(s[i])) /\ lock' = Tail(lock) \o s
      BY <3>1 DEF PoppedTo
    <3>3. /\ lock' \in Seq(Ops)
          /\ \A i \in DOMAIN lock' : \/ \E k \in DOMAIN lock : k # 1 /\ lock'[i] = lock[k]
                                     \/ \E k \in DOMAIN s : lock'[i] = s[k]
      <4>1. lock # <<>>
        BY <3>2
      <4>2. /\ Tail(lock) \o s \in Seq(Ops)
            /\ \A i \in DOMAIN (Tail(lock) \o s) :
                  \/ \E k \in DOMAIN lock : k # 1 /\ (Tail(lock) \o s)[i] = lock[k]
                  \/ \E k \in DOMAIN s : (Tail(lock) \o s)[i] = s[k]
        BY <1>2, <4>1, SeqPop
      <4> QED
        BY <3>2, <4>2
    <3>4. ASSUME NEW i \in DOMAIN lock' PROVE OpOKNext(lock'[i], i)
      <4>1. CASE \E k \in DOMAIN lock : k # 1 /\ lock'[i] = lock[k]
        BY <1>1, <1>4, <4>1, OpKept
      <4>2. CASE \E k \in DOMAIN s : lock'[i] = s[k]
        BY <1>1, <3>2, <4>2, FreshKept
      <4> QED
        BY <3>3, <4>1, <4>2
    <3> QED
      BY <3>3, <3>4
  <2>5. CASE Turned
    <3>1. lock # <<>>
      BY <2>5 DEF Turned
    <3>2. PICK o \in Ops : /\ Ready(o) /\ o.do = Head(lock).do /\ o.job = Head(lock).job
                           /\ lock' = <<o>> \o Tail(lock)
      BY <2>5 DEF Turned
    <3>3. /\ lock' \in Seq(Ops) /\ DOMAIN lock' = DOMAIN lock /\ 1 \in DOMAIN lock /\ lock'[1] = o
          /\ \A i \in DOMAIN lock : i # 1 => lock'[i] = lock[i]
      BY <1>2, <3>1, <3>2, SeqTurn
    <3>4. OpOKNext(o, 1)
      <4>1. OpOK(Head(lock), 1)
        BY <1>4, <3>1, HeadOfLock
      <4>2. o.do = "changed" => o.job \in 1 .. Len(jobs') /\ jobs'[o.job].state # "active"
        BY <1>1, <3>2, <4>1 DEF OpOK, JobsKept
      <4> QED
        BY <3>2, <4>2 DEF Ready, OpOKNext, Current, Of
    <3>5. ASSUME NEW i \in DOMAIN lock', i # 1 PROVE OpOKNext(lock'[i], i)
      BY <1>1, <1>4, <3>3, <3>5, OpKept
    <3> QED
      BY <3>3, <3>4, <3>5
  <2> QED
    BY <2>1, <2>2, <2>3, <2>4, <2>5 DEF LockStep
<1>6. LinkInv'
  <2> SUFFICES ASSUME NEW i \in DOMAIN lock', lock'[i].at = "link"
               PROVE  /\ i = 1 /\ lock'[i].new \in Of(lock[i].role)' /\ Current(lock[i].new)'
                      /\ lock'[i].role = "evidence" => ws'.evidence = 0
                      /\ lock'[i].role = "answer" => NeedsAnswer'
    BY DEF LinkInv
  <2> QED
    BY <1>5 DEF OpOKNext, Current, Of
<1>7. \A j \in calls' : j \in 1 .. Len(jobs') /\ jobs'[j].state # "active"
  <2>1. \A j \in calls : j \in 1 .. Len(jobs) /\ jobs[j].state # "active"
    BY <1>2, RowTypes DEF ChangedInv, State
  <2> QED
    BY <1>1, <2>1 DEF CallStep, JobsKept
<1>8. ChangedInv'
  <2>1. \A j \in calls' : State(j)' # "active"
    BY <1>7 DEF State
  <2>2. ASSUME NEW i \in DOMAIN lock', lock'[i].do = "changed"
        PROVE  lock'[i].job \in 1 .. Len(jobs') /\ State(lock[i].job)' # "active"
    BY <1>5, <2>2 DEF OpOKNext, State
  <2> QED
    BY <1>5, <2>1, <2>2 DEF OpOKNext, ChangedInv
<1> QED
  BY <1>5, <1>6, <1>7, <1>8

-----------------------------------------------------------------------------
(* What is told of the request: DueInv, HeardInv and ToldTruly.            *)

\* Notices stay; whatever ends, and whatever is called, leads to a change in the queue.
DueStep ==
    ~load'.cut =>
        /\ notices \subseteq notices'
        /\ \A j \in 1 .. Len(jobs) :
              jobs[j].state = "active" /\ jobs'[j].state = "completed" => j \in calls'
        /\ \A j \in calls : \/ j \in calls'
                            \/ /\ j \in {ws.evidence, ws.answer}
                               /\ \E i \in DOMAIN lock' : lock'[i].do = "changed" /\ lock'[i].job = j

\* What is told is the stage the request is in, or that it was asked with.
TellStep ==
    /\ \/ notices' = notices
       \/ /\ ws' = ws /\ jobs' = jobs
          /\ \E j \in 1 .. Len(jobs) : Noted(j) /\ notices' = notices \cup {[stage |-> Stage, job |-> j]}
    /\ seen' \in {seen, NoStage, Stage}
    /\ \A s \in told' : s \in told \/ (s \in Snapshots /\ s.stage \in {Stage, seen})
    /\ finding' = "ready" => finding = "ready" \/ \E s \in told : s.stage = "ready"

\* The types of the rest.
RestOK ==
    /\ doc \in Nat /\ {archived, timer} \subseteq BOOLEAN
    /\ finding \in {"none", "running", "ready", "failed", "stopped"}
    /\ seen \in Stages /\ boot \in {"none", "pending", "terminal"} /\ load \in LoadRecords

Effects ==
    /\ RowStep /\ LockStep /\ CallStep /\ CutStep
    /\ DueStep /\ TellStep /\ RestOK'

(* A request whose stage is ready has its report.                          *)
LEMMA StageTruly ==
    ASSUME TypeOK, RowsInv
    PROVE  /\ Stage \in Stages /\ (Stage = "ready" => ws.pub) /\ (ws.pub => Stage = "ready")
<1>1. State(ws.answer) \in States \cup {"none"} /\ State(ws.evidence) \in States \cup {"none"}
  BY RowTypes DEF State
<1>2. ws.pub => /\ ws.answer # 0 /\ ws.evidence # 0 /\ State(ws.answer) = "completed"
  BY Linkage DEF RowsInv, PublishedIsAnswered
<1> QED
  BY <1>1, <1>2, RowTypes DEF Stage, Stages, Final, States, NoStage

(* An answer that is complete stays the request's answer, and its report   *)
(* is there for good.                                                      *)
LEMMA AnswerStays ==
    ASSUME TypeOK, RowsInv, LinkInv, RowStep, State(ws.answer) = "completed"
    PROVE  ws'.answer = ws.answer /\ (ws.pub => ws'.pub) /\ State(ws.answer)' = "completed"
<1>1. ws.answer # 0 /\ ws.evidence # 0
  BY Linkage DEF RowsInv
<1>2. ws'.answer = ws.answer /\ (ws.pub => ws'.pub)
  <2>1. CASE RowSame \/ JobEnded \/ Enqueued
    BY <2>1 DEF RowSame, JobEnded, Enqueued
  <2>2. CASE Linked
    <3>1. lock[1] = Head(lock) /\ 1 \in DOMAIN lock /\ Head(lock) \in Ops /\ Head(lock).at = "link"
      BY <2>2, HeadOfLock DEF Linked
    <3>2. Head(lock).role \in Roles
      BY <3>1 DEF Ops
    <3> QED
      BY <1>1, <3>1, <3>2 DEF LinkInv, Roles, NeedsAnswer
  <2>3. CASE Published
    BY <2>3, RowFields DEF Published, TypeOK
  <2>4. CASE WasReset
    BY <1>1, <2>4, RetryableIsIdle DEF WasReset
  <2> QED
    BY <2>1, <2>2, <2>3, <2>4 DEF RowStep
<1>3. JobsKept
  BY RowStepKeeps
<1> QED
  BY <1>1, <1>2, <1>3, Linkage DEF RowsInv, JobsKept, State

(* A change that is queued stays queued, or has its notice.                *)
LEMMA ChangeStays ==
    ASSUME TypeOK, LockStep, ~load'.cut, State(ws.answer) = "completed",
           NEW i \in DOMAIN lock, lock[i].do = "changed", lock[i].job = ws.answer
    PROVE  \/ [stage |-> "ready", job |-> ws.answer] \in notices'
           \/ \E k \in DOMAIN lock' : lock'[k].do = "changed" /\ lock'[k].job = ws.answer
<1>1. lock \in Seq(Ops) /\ lock # <<>>
  BY DEF TypeOK
<1>2. CASE lock' = lock
  BY <1>2
<1>3. CASE Pushed
  <2>1. PICK s \in Seq(Ops) : lock' = lock \o s
    BY <1>3 DEF Pushed
  <2>2. i \in DOMAIN lock' /\ lock'[i] = lock[i]
    BY <1>1, <2>1, SeqPush
  <2> QED
    BY <2>2
<1>4. CASE Popped
  <2>1. PICK s \in Seq(Ops) : lock' = Tail(lock) \o s
    BY <1>4 DEF Popped, PoppedTo
  <2>2. i # 1 => i - 1 \in DOMAIN lock' /\ lock'[i - 1] = lock[i]
    BY <1>1, <2>1, SeqPop
  <2>3. i = 1 => lock[i] = Head(lock)
    BY <1>1, HeadOfLock
  <2>4. CASE i = 1
    BY <1>4, <2>3, <2>4 DEF Popped
  <2> QED
    BY <2>2, <2>4
<1>5. CASE Turned
  <2>1. PICK o \in Ops : /\ o.do = Head(lock).do /\ o.job = Head(lock).job
                         /\ lock' = <<o>> \o Tail(lock)
    BY <1>5 DEF Turned
  <2>2. /\ DOMAIN lock' = DOMAIN lock /\ lock'[1] = o
        /\ \A k \in DOMAIN lock : k # 1 => lock'[k] = lock[k]
    BY <1>1, <2>1, SeqTurn
  <2>3. lock[1] = Head(lock) /\ 1 \in DOMAIN lock
    BY <1>1, HeadOfLock
  <2> QED
    BY <2>1, <2>2, <2>3
<1> QED
  BY <1>2, <1>3, <1>4, <1>5 DEF LockStep

(* A finished answer's notice is posted, or on its way.                    *)
LEMMA Due ==
    ASSUME TypeOK, RowsInv, LinkInv, DueInv, RowStep, LockStep, CutStep, DueStep
    PROVE  DueInv'
<1>1. JobsKept
  BY RowStepKeeps
<1> SUFFICES ASSUME ~load'.cut, NEW j \in 1 .. Len(jobs'), jobs'[j].role = "answer",
                    State(j)' = "completed"
             PROVE  \/ j \in calls'
                    \/ [stage |-> "ready", job |-> j] \in notices'
                    \/ j = ws'.answer /\ \E i \in DOMAIN lock' : lock'[i].do = "changed" /\ lock'[i].job = j
  BY DEF DueInv, Of
<1>2. jobs'[j].state = "completed" /\ j \in 1 .. Len(jobs) /\ jobs[j].role = "answer"
  BY <1>1 DEF State, JobsKept
<1>3. CASE jobs[j].state = "active"
  BY <1>2, <1>3 DEF DueStep
<1>4. CASE jobs[j].state # "active"
  <2>1. State(j) = "completed" /\ j \in Of("answer") /\ ~load.cut
    BY <1>1, <1>2, <1>4 DEF State, JobsKept, Of, CutStep
  <2>2. j = ws.answer => j = ws'.answer
    BY <2>1, AnswerStays
  <2>3. CASE j \in calls
    <3>1. j # ws.evidence \/ ws.evidence = 0
      BY <1>2, Linkage DEF RowsInv
    <3> QED
      BY <1>2, <2>2, <2>3, <3>1 DEF DueStep
  <2>4. CASE [stage |-> "ready", job |-> j] \in notices
    BY <2>4 DEF DueStep
  <2>5. ASSUME j = ws.answer, NEW i \in DOMAIN lock, lock[i].do = "changed", lock[i].job = j
        PROVE  \/ [stage |-> "ready", job |-> j] \in notices'
               \/ \E k \in DOMAIN lock' : lock'[k].do = "changed" /\ lock'[k].job = j
    BY <2>1, <2>5, ChangeStays
  <2> QED
    BY <2>1, <2>2, <2>3, <2>4, <2>5 DEF DueInv
<1> QED
  BY <1>3, <1>4

(* What was told stays true.                                               *)
LEMMA Told ==
    ASSUME TypeOK, RowsInv, LinkInv, HeardInv, ToldTruly, RowStep, TellStep
    PROVE  /\ HeardInv'
           /\ notices' \subseteq [stage: {"ready", "failed"}, job: 1 .. Len(jobs')]
           /\ told' \subseteq Snapshots
           /\ \A n \in notices' : /\ n.stage = "ready" => ws'.pub /\ n.job = ws'.answer
                                  /\ n.stage = "failed" => State(n.job)' = "failed"
           /\ finding' = "ready" => ws'.pub
<1>1. JobsKept
  BY RowStepKeeps
<1>2. ws.pub => ws'.pub /\ ws'.answer = ws.answer
  BY AnswerStays DEF RowsInv, PublishedIsAnswered
<1>3. (Stage = "ready" => ws.pub) /\ Stage \in Stages
  BY StageTruly
<1>4. seen = "ready" => ws.pub
  BY DEF HeardInv
<1>5. HeardInv'
  <2>1. seen' = "ready" => ws.pub
    BY <1>3, <1>4 DEF TellStep, NoStage
  <2>2. \A s \in told' : s.stage = "ready" => ws.pub
    BY <1>3, <1>4 DEF TellStep, HeardInv
  <2> QED
    BY <1>2, <2>1, <2>2 DEF HeardInv
<1>6. finding' = "ready" => ws'.pub
  BY <1>2 DEF TellStep, HeardInv, ToldTruly
<1>7. told' \subseteq Snapshots
  BY DEF TellStep, TypeOK
<1>8. ASSUME NEW n \in notices'
      PROVE  /\ n \in [stage: {"ready", "failed"}, job: 1 .. Len(jobs')]
             /\ n.stage = "ready" => ws'.pub /\ n.job = ws'.answer
             /\ n.stage = "failed" => jobs'[n.job].state = "failed"
  <2>1. CASE n \in notices
    <3>1. n \in [stage: {"ready", "failed"}, job: 1 .. Len(jobs)]
      BY <2>1 DEF TypeOK
    <3>2. n.job \in 1 .. Len(jobs) /\ n.job \in 1 .. Len(jobs')
      BY <1>1, <3>1 DEF JobsKept
    <3>3. n \in [stage: {"ready", "failed"}, job: 1 .. Len(jobs')]
      BY <3>1, <3>2
    <3>4. n.stage = "ready" => ws.pub /\ n.job = ws.answer
      BY <2>1 DEF ToldTruly
    <3>5. n.stage = "failed" => jobs[n.job].state = "failed"
      BY <2>1, <3>2, RowTypes DEF ToldTruly, State
    <3> QED
      BY <1>1, <1>2, <3>2, <3>3, <3>4, <3>5 DEF JobsKept
  <2>2. CASE n \notin notices
    <3>1. PICK j \in 1 .. Len(jobs) : Noted(j) /\ n = [stage |-> Stage, job |-> j]
      BY <1>8, <2>2 DEF TellStep
    <3>2. ws' = ws /\ jobs' = jobs
      BY <1>8, <2>2 DEF TellStep
    <3>3. \/ Stage = "ready" /\ j = ws.answer
          \/ Stage = "failed" /\ jobs[j].state = "failed"
      BY <3>1, RowTypes DEF Noted, State
    <3> QED
      BY <1>3, <3>1, <3>2, <3>3
  <2> QED
    BY <2>1, <2>2
<1>9. \A n \in notices' : n.stage = "failed" => State(n.job)' = "failed"
  <2> SUFFICES ASSUME NEW n \in notices', n.stage = "failed" PROVE State(n.job)' = "failed"
    OBVIOUS
  <2>1. n.job # 0 /\ jobs'[n.job].state = "failed"
    BY <1>8
  <2> QED
    BY <2>1 DEF State
<1> QED
  BY <1>5, <1>6, <1>7, <1>8, <1>9

(* The invariant, from the effects of a step.                              *)
LEMMA EffectsKeep ==
    ASSUME IndInv, Effects
    PROVE  IndInv'
<1>1. TypeOK /\ RowsInv /\ LinkInv /\ ChangedInv /\ DueInv /\ HeardInv /\ ToldTruly
  BY DEF IndInv, ResearchInv, RowsInv
<1>2. RowStep /\ LockStep /\ CallStep /\ CutStep /\ DueStep /\ TellStep /\ RestOK'
  BY DEF Effects
<1>3. /\ RowsInv' /\ ws' \in RowRecords /\ {ws'.evidence, ws'.answer} \subseteq 0 .. Len(jobs')
      /\ jobs' \in Seq(JobRecords)
  BY <1>1, <1>2, RowStepInv
<1>4. LinkInv' /\ ChangedInv' /\ lock' \in Seq(Ops) /\ calls' \subseteq 1 .. Len(jobs')
  BY <1>1, <1>2, LockInv
<1>5. DueInv'
  BY <1>1, <1>2, Due
<1>6. /\ HeardInv'
      /\ notices' \subseteq [stage: {"ready", "failed"}, job: 1 .. Len(jobs')]
      /\ told' \subseteq Snapshots
      /\ \A n \in notices' : /\ n.stage = "ready" => ws'.pub /\ n.job = ws'.answer
                             /\ n.stage = "failed" => State(n.job)' = "failed"
      /\ finding' = "ready" => ws'.pub
  BY <1>1, <1>2, Told
<1>7. TypeOK'
  BY <1>2, <1>3, <1>4, <1>6 DEF TypeOK, RestOK
<1>8. lock' = <<>> /\ calls' = {} /\ ~load'.cut /\ ws'.pub /\ ws'.ref = "placed"
      => [stage |-> "ready", job |-> ws'.answer] \in notices'
  <2> SUFFICES ASSUME lock' = <<>>, calls' = {}, ~load'.cut, ws'.pub
               PROVE  [stage |-> "ready", job |-> ws'.answer] \in notices'
    OBVIOUS
  <2>1. State(ws.answer)' = "completed"
    BY <1>3 DEF RowsInv, PublishedIsAnswered
  <2>2. ws'.answer # 0 /\ ws'.answer \in Of("answer")'
    BY <1>3, <2>1 DEF RowsInv, LinkedInv, State
  <2>3. ~ \E i \in DOMAIN lock' : lock'[i].do = "changed" /\ lock'[i].job = ws'.answer
    OBVIOUS
  <2> QED
    BY <1>5, <2>1, <2>2, <2>3 DEF DueInv
<1>9. ToldTruly'
  BY <1>6, <1>8 DEF ToldTruly
<1>10. OneAttempt'
  <2>1. (TypeOK /\ LinkedInv /\ ActiveInv => OneAttempt)'
    BY AtMostOne, PTL
  <2> QED
    BY <1>3, <1>7, <2>1 DEF RowsInv
<1> QED
  BY <1>3, <1>4, <1>5, <1>6, <1>7, <1>9, <1>10 DEF IndInv, ResearchInv, RowsInv

-----------------------------------------------------------------------------
(* Bounds, and the ways an operation joins, leaves and turns.              *)

Bounds == {"starts", "retries", "cancels", "follows", "edits", "archives", "defers", "faults", "crashes"}

LEMMA LoadTypes ==
    ASSUME NEW l \in LoadRecords
    PROVE  /\ \A k \in Bounds : l[k] > 0 => [l EXCEPT ![k] = @ - 1] \in LoadRecords
                                            /\ [l EXCEPT ![k] = @ - 1].cut = l.cut
           /\ [l EXCEPT !.cut = TRUE] \in LoadRecords /\ [l EXCEPT !.cut = TRUE].cut
           /\ [l EXCEPT !.cut = TRUE, !.failed = TRUE] \in LoadRecords
           /\ [l EXCEPT !.cut = TRUE, !.failed = TRUE].cut
<1>1. ASSUME NEW k \in Bounds, l[k] > 0
      PROVE  [l EXCEPT ![k] = @ - 1] \in LoadRecords /\ [l EXCEPT ![k] = @ - 1].cut = l.cut
  <2>1. PICK m \in Nat : m = l[k] - 1
    BY <1>1 DEF Bounds, LoadRecords
  <2>2. [l EXCEPT ![k] = @ - 1] = [l EXCEPT ![k] = m]
    BY <2>1 DEF LoadRecords
  <2>3. [l EXCEPT ![k] = m] \in LoadRecords /\ [l EXCEPT ![k] = m].cut = l.cut
    <3>1. CASE k = "starts"
      BY <3>1 DEF LoadRecords
    <3>2. CASE k = "retries"
      BY <3>2 DEF LoadRecords
    <3>3. CASE k = "cancels"
      BY <3>3 DEF LoadRecords
    <3>4. CASE k = "follows"
      BY <3>4 DEF LoadRecords
    <3>5. CASE k = "edits"
      BY <3>5 DEF LoadRecords
    <3>6. CASE k = "archives"
      BY <3>6 DEF LoadRecords
    <3>7. CASE k = "defers"
      BY <3>7 DEF LoadRecords
    <3>8. CASE k = "faults"
      BY <3>8 DEF LoadRecords
    <3>9. CASE k = "crashes"
      BY <3>9 DEF LoadRecords
    <3> QED
      BY <3>1, <3>2, <3>3, <3>4, <3>5, <3>6, <3>7, <3>8, <3>9 DEF Bounds
  <2> QED
    BY <2>2, <2>3
<1>2. /\ [l EXCEPT !.cut = TRUE] \in LoadRecords /\ [l EXCEPT !.cut = TRUE].cut
      /\ [l EXCEPT !.cut = TRUE, !.failed = TRUE] \in LoadRecords
      /\ [l EXCEPT !.cut = TRUE, !.failed = TRUE].cut
  BY DEF LoadRecords
<1> QED
  BY <1>1, <1>2

LEMMA LossTypes ==
    ASSUME NEW l \in LoadRecords
    PROVE  /\ l.faults > 0 => [l EXCEPT !.faults = @ - 1, !.cut = TRUE] \in LoadRecords
           /\ [l EXCEPT !.faults = @ - 1, !.cut = TRUE].cut
           /\ l.faults > 0 => [l EXCEPT !.faults = @ - 1, !.cut = TRUE, !.failed = TRUE] \in LoadRecords
           /\ [l EXCEPT !.faults = @ - 1, !.cut = TRUE, !.failed = TRUE].cut
           /\ l.crashes > 0 => [l EXCEPT !.crashes = @ - 1, !.cut = TRUE] \in LoadRecords
           /\ [l EXCEPT !.crashes = @ - 1, !.cut = TRUE].cut
           /\ \A b \in BOOLEAN : /\ l.defers > 0 => [l EXCEPT !.defers = @ - 1, !.failed = @ \/ b] \in LoadRecords
                                 /\ [l EXCEPT !.defers = @ - 1, !.failed = @ \/ b].cut = l.cut
<1>1. ASSUME l.faults > 0
      PROVE  /\ [l EXCEPT !.faults = @ - 1, !.cut = TRUE] \in LoadRecords
             /\ [l EXCEPT !.faults = @ - 1, !.cut = TRUE, !.failed = TRUE] \in LoadRecords
  <2>1. PICK m \in Nat : m = l.faults - 1
    BY <1>1 DEF LoadRecords
  <2>2. /\ [l EXCEPT !.faults = @ - 1, !.cut = TRUE] = [l EXCEPT !.faults = m, !.cut = TRUE]
        /\ [l EXCEPT !.faults = @ - 1, !.cut = TRUE, !.failed = TRUE]
              = [l EXCEPT !.faults = m, !.cut = TRUE, !.failed = TRUE]
    BY <2>1 DEF LoadRecords
  <2>3. /\ [l EXCEPT !.faults = m, !.cut = TRUE] \in LoadRecords
        /\ [l EXCEPT !.faults = m, !.cut = TRUE, !.failed = TRUE] \in LoadRecords
    BY DEF LoadRecords
  <2> QED
    BY <2>2, <2>3
<1>2. ASSUME l.crashes > 0 PROVE [l EXCEPT !.crashes = @ - 1, !.cut = TRUE] \in LoadRecords
  <2>1. PICK m \in Nat : m = l.crashes - 1
    BY <1>2 DEF LoadRecords
  <2>2. [l EXCEPT !.crashes = @ - 1, !.cut = TRUE] = [l EXCEPT !.crashes = m, !.cut = TRUE]
    BY <2>1 DEF LoadRecords
  <2>3. [l EXCEPT !.crashes = m, !.cut = TRUE] \in LoadRecords
    BY DEF LoadRecords
  <2> QED
    BY <2>2, <2>3
<1>3. ASSUME NEW b \in BOOLEAN, l.defers > 0
      PROVE  [l EXCEPT !.defers = @ - 1, !.failed = @ \/ b] \in LoadRecords
  <2>1. PICK m \in Nat : m = l.defers - 1
    BY <1>3 DEF LoadRecords
  <2>2. PICK c \in BOOLEAN : c = (l.failed \/ b)
    BY DEF LoadRecords
  <2>3. [l EXCEPT !.defers = @ - 1, !.failed = @ \/ b] = [l EXCEPT !.defers = m, !.failed = c]
    BY <2>1, <2>2 DEF LoadRecords
  <2>4. [l EXCEPT !.defers = m, !.failed = c] \in LoadRecords
    BY DEF LoadRecords
  <2> QED
    BY <2>3, <2>4
<1>4. /\ [l EXCEPT !.faults = @ - 1, !.cut = TRUE].cut
      /\ [l EXCEPT !.faults = @ - 1, !.cut = TRUE, !.failed = TRUE].cut
      /\ [l EXCEPT !.crashes = @ - 1, !.cut = TRUE].cut
      /\ \A b \in BOOLEAN : [l EXCEPT !.defers = @ - 1, !.failed = @ \/ b].cut = l.cut
  BY DEF LoadRecords
<1> QED
  BY <1>1, <1>2, <1>3, <1>4

(* A bound that is spent.                                                  *)
LEMMA Spent ==
    ASSUME TypeOK, NEW k \in Bounds, Spend(k)
    PROVE  load' \in LoadRecords /\ CutStep
  BY LoadTypes DEF TypeOK, Spend, CutStep

Whys == {"none", "settle", "sweep", "follow", "stop", "refused"}

(* Operations as they are made.                                            *)
LEMMA OpTypes ==
    ASSUME NEW do \in {"start", "recover", "changed", "cancel", "retry", "read", "view"},
           NEW at \in {"place", "evidence", "link", "pass", "act", "end"},
           NEW then \in {"act", "end"}, NEW j \in Nat, NEW why \in Whys
    PROVE  /\ Op(do, at, then, j, why) \in Ops
           /\ Op(do, at, then, j, why).do = do /\ Op(do, at, then, j, why).at = at
           /\ Op(do, at, then, j, why).job = j
  BY DEF Op, Ops, Roles, Whys

LEMMA FreshOps ==
    /\ \A why \in Whys : Fresh(View(why)) /\ Fresh(Op("cancel", "pass", "act", 0, why))
    /\ Fresh(Op("retry", "pass", "act", 0, "none")) /\ Fresh(Op("read", "pass", "end", 0, "none"))
    /\ Fresh(Op("recover", "place", "end", 0, "none"))
    /\ \A at \in {"place", "evidence"} : Fresh(Op("start", at, "end", 0, "none"))
    /\ \A j \in 1 .. Len(jobs) : jobs[j].state # "active" /\ Len(jobs) \in Nat
                                 => Fresh(Op("changed", "pass", "act", j, "none"))
<1>1. "none" \in Whys /\ 0 \in Nat
  BY DEF Whys
<1>2. \A why \in Whys : Fresh(View(why)) /\ Fresh(Op("cancel", "pass", "act", 0, why))
  BY <1>1, OpTypes DEF Fresh, View
<1>3. /\ Fresh(Op("retry", "pass", "act", 0, "none")) /\ Fresh(Op("read", "pass", "end", 0, "none"))
      /\ Fresh(Op("recover", "place", "end", 0, "none"))
      /\ \A at \in {"place", "evidence"} : Fresh(Op("start", at, "end", 0, "none"))
  BY <1>1, OpTypes DEF Fresh
<1>4. ASSUME NEW j \in 1 .. Len(jobs), jobs[j].state # "active", Len(jobs) \in Nat
      PROVE  Fresh(Op("changed", "pass", "act", j, "none"))
  BY <1>1, <1>4, OpTypes DEF Fresh
<1> QED
  BY <1>2, <1>3, <1>4

(* Joining the queue.                                                      *)
LEMMA Joins ==
    ASSUME TypeOK, NEW o, Fresh(o), lock' = Append(lock, o)
    PROVE  Pushed
<1>1. lock \in Seq(Ops) /\ o \in Ops
  BY DEF TypeOK, Fresh
<1>2. lock' = lock \o <<o>> /\ <<o>> \in Seq(Ops) /\ DOMAIN <<o>> = {1} /\ <<o>>[1] = o
  BY <1>1
<1> QED
  BY <1>2 DEF Pushed

LEMMA JoinsRecovering ==
    ASSUME TypeOK, lock' = lock \o Recovering
    PROVE  Pushed
<1>1. CASE Listed
  <2> DEFINE o == Op("recover", "place", "end", 0, "none")
  <2>1. Fresh(o) /\ o \in Ops /\ lock' = lock \o <<o>>
    BY <1>1, FreshOps DEF Recovering, Fresh
  <2> HIDE DEF o
  <2>2. <<o>> \in Seq(Ops) /\ DOMAIN <<o>> = {1} /\ <<o>>[1] = o
    BY <2>1
  <2> QED
    BY <2>1, <2>2 DEF Pushed
<1>2. CASE ~Listed
  <2>1. lock' = lock \o <<>> /\ <<>> \in Seq(Ops) /\ DOMAIN <<>> = {}
    BY <1>2 DEF Recovering
  <2> QED
    BY <2>1 DEF Pushed
<1> QED
  BY <1>1, <1>2

(* Leaving it, for nothing or for one that joins.                          *)
LEMMA Leaving ==
    ASSUME TypeOK, lock # <<>>
    PROVE  /\ lock' = Tail(lock) => \E s \in Seq(Ops) : PoppedTo(s)
           /\ \A o : Fresh(o) /\ (lock' = Append(Tail(lock), o) \/ lock' = Tail(lock) \o <<o>>)
                     => \E s \in Seq(Ops) : PoppedTo(s)
<1>1. Tail(lock) \in Seq(Ops)
  BY HeadOfLock
<1>2. ASSUME lock' = Tail(lock) PROVE \E s \in Seq(Ops) : PoppedTo(s)
  <2>1. lock' = Tail(lock) \o <<>> /\ <<>> \in Seq(Ops) /\ DOMAIN <<>> = {}
    BY <1>1, <1>2
  <2> QED
    BY <2>1 DEF PoppedTo
<1>3. ASSUME NEW o, Fresh(o), lock' = Append(Tail(lock), o) \/ lock' = Tail(lock) \o <<o>>
      PROVE  \E s \in Seq(Ops) : PoppedTo(s)
  <2>1. o \in Ops
    BY <1>3 DEF Fresh
  <2>2. <<o>> \in Seq(Ops) /\ DOMAIN <<o>> = {1} /\ <<o>>[1] = o
    BY <2>1
  <2>3. \A q \in Seq(Ops) : Append(q, o) = q \o <<o>>
    BY <2>1
  <2>4. lock' = Tail(lock) \o <<o>>
    BY <1>1, <1>3, <2>3
  <2> QED
    BY <1>3, <2>2, <2>4 DEF PoppedTo
<1> QED
  BY <1>2, <1>3

LEMMA Throwing ==
    ASSUME TypeOK, lock # <<>>, Throws
    PROVE  \E s \in Seq(Ops) : PoppedTo(s)
<1>1. CASE Head(lock).why = "stop"
  <2>1. lock' = Tail(lock) \o <<View("refused")>> /\ Fresh(View("refused"))
    BY <1>1, FreshOps DEF Throws, Whys
  <2> QED
    BY <2>1, Leaving
<1>2. CASE Head(lock).why # "stop"
  <2>1. lock' = Tail(lock) \o <<>> /\ Tail(lock) \in Seq(Ops)
    BY <1>2, HeadOfLock DEF Throws
  <2>2. lock' = Tail(lock)
    BY <2>1
  <2> QED
    BY <2>2, Leaving
<1> QED
  BY <1>1, <1>2

(* A storage call that fails.                                              *)
LEMMA Breaking ==
    ASSUME TypeOK, lock # <<>>, Breaks
    PROVE  Popped /\ load' \in LoadRecords /\ load'.cut
  BY Throwing, LossTypes DEF TypeOK, Breaks, Popped

(* Turning: the head goes on, or starts a link.                            *)
LEMMA Going ==
    ASSUME TypeOK, lock # <<>>, NEW at \in {"place", "evidence", "pass", "act", "end"},
           Goes(at), at = "act" /\ Head(lock).do = "changed" => load'.cut \/ ~NeedsPublish'
    PROVE  Turned
<1>0. [Head(lock) EXCEPT !.at = at] \in Ops
  BY HeadOfLock DEF Ops
<1>1. PICK o \in Ops : o = [Head(lock) EXCEPT !.at = at]
  BY <1>0
<1>2. o.at = at /\ o.do = Head(lock).do /\ o.job = Head(lock).job /\ lock' = <<o>> \o Tail(lock)
  BY <1>1, HeadOfLock DEF Goes, Ops
<1>3. Ready(o)
  BY <1>2 DEF Ready
<1> QED
  BY <1>2, <1>3 DEF Turned

(* A step that nobody hears of.                                            *)
LEMMA Silent ==
    ASSUME TypeOK, notices' = notices, calls' = calls, UNCHANGED people,
           \A j \in 1 .. Len(jobs) : jobs[j].state = "active" => jobs'[j].state # "completed"
    PROVE  CallStep /\ DueStep /\ TellStep
  BY DEF CallStep, DueStep, TellStep, people

LEMMA Still ==
    ASSUME TypeOK, UNCHANGED <<doc, archived, people, boot, timer>>, load' \in LoadRecords
    PROVE  RestOK'
  BY DEF TypeOK, RestOK, people

LEMMA SameLoad ==
    ASSUME TypeOK, UNCHANGED load
    PROVE  load' \in LoadRecords /\ CutStep
  BY DEF TypeOK, CutStep

LEMMA SameRow ==
    ASSUME TypeOK, ws' = ws, jobs' = jobs
    PROVE  RowSame /\ Idle /\ RowStep
  BY DEF TypeOK, RowSame, Idle, RowStep

-----------------------------------------------------------------------------
(* The actions.                                                            *)

LEMMA StartStep == ASSUME IndInv, Start PROVE Effects
<1>1. TypeOK
  BY DEF IndInv, ResearchInv
<1>2. RowSame
  <2>1. \A r \in RowRecords : \A x \in {"none", "pending"} :
           LET q == [r EXCEPT !.made = TRUE, !.ref = x] IN
           /\ q \in RowRecords /\ q.evidence = r.evidence /\ q.answer = r.answer
           /\ q.rev = r.rev /\ q.pub = r.pub
    BY DEF RowRecords
  <2> QED
    BY <1>1, <2>1 DEF RowSame, Start, durable, TypeOK
<1>3. Pushed
  <2>1. PICK at \in {"place", "evidence"} : lock' = Append(lock, Op("start", at, "end", 0, "none"))
    BY DEF Start
  <2> QED
    BY <1>1, <2>1, FreshOps, Joins
<1>4. load' \in LoadRecords /\ CutStep
  BY <1>1, Spent DEF Start, Bounds
<1>5. CallStep /\ DueStep /\ TellStep
  BY <1>1, <1>2, Silent DEF Start, RowSame, server
<1>6. RestOK'
  BY <1>1, <1>4, Still DEF Start, outside, server
<1> QED
  BY <1>2, <1>3, <1>4, <1>5, <1>6 DEF Effects, RowStep, LockStep, Idle

(* A member asks, or somebody reads.                                       *)
LEMMA AskStep ==
    ASSUME IndInv, Cancel \/ Retry \/ Read \/ Follow \/ Sweep
    PROVE  Effects
<1>1. TypeOK
  BY DEF IndInv, ResearchInv
<1>2. UNCHANGED <<durable, outside, people, server>>
  BY DEF Cancel, Retry, Read, Follow, Sweep
<1>3. Pushed
  <2>1. PICK o : Fresh(o) /\ lock' = Append(lock, o)
    <3>1. CASE Cancel
      BY <3>1, FreshOps DEF Cancel, Whys
    <3>2. CASE Retry \/ Read \/ Follow \/ Sweep
      BY <3>2, FreshOps DEF Retry, Read, Follow, Sweep, Whys
    <3> QED
      BY <3>1, <3>2
  <2> QED
    BY <1>1, <2>1, Joins
<1>4. load' \in LoadRecords /\ CutStep
  BY <1>1, Spent, SameLoad DEF Cancel, Retry, Read, Follow, Sweep, Bounds
<1>5. RowStep /\ Idle
  BY <1>1, <1>2, SameRow DEF durable
<1>6. CallStep /\ DueStep /\ TellStep
  BY <1>1, <1>2, Silent DEF durable, server
<1>7. RestOK'
  BY <1>1, <1>2, <1>4, Still DEF outside, server
<1> QED
  BY <1>3, <1>4, <1>5, <1>6, <1>7 DEF Effects, LockStep

(* A recovery joins the queue.                                             *)
LEMMA RecoverStep ==
    ASSUME IndInv, Restore \/ Timer \/ BootPending
    PROVE  Effects
<1>1. TypeOK
  BY DEF IndInv, ResearchInv
<1>2. UNCHANGED <<durable, people, calls, load>> /\ lock' = lock \o Recovering
  BY DEF Restore, Timer, BootPending, server
<1>3. Pushed
  BY <1>1, <1>2, JoinsRecovering
<1>4. RowStep /\ Idle /\ load' \in LoadRecords /\ CutStep
  BY <1>1, <1>2, SameRow, SameLoad DEF durable
<1>5. CallStep /\ DueStep /\ TellStep
  BY <1>1, <1>2, Silent DEF durable
<1>6. RestOK'
  BY <1>1, <1>4 DEF Restore, Timer, BootPending, TypeOK, RestOK, durable, outside, people, server
<1> QED
  BY <1>3, <1>4, <1>5, <1>6 DEF Effects, LockStep

(* The document is edited or archived; a finding is stored.                *)
LEMMA AsideStep ==
    ASSUME IndInv, Edit \/ Archive \/ Store
    PROVE  Effects
<1>1. TypeOK
  BY DEF IndInv, ResearchInv
<1>2. UNCHANGED <<durable, lock, server>>
  BY DEF Edit, Archive, Store
<1>3. RowStep /\ Idle
  BY <1>1, <1>2, SameRow DEF durable
<1>4. load' \in LoadRecords /\ CutStep
  BY <1>1, Spent, SameLoad DEF Edit, Archive, Store, Bounds
<1>5. CallStep /\ DueStep
  BY <1>2 DEF CallStep, DueStep, durable, server
<1>6. TellStep /\ RestOK'
  <2>1. CASE Edit \/ Archive
    <3>1. TellStep
      BY <1>2, <2>1 DEF Edit, Archive, TellStep, durable, people
    <3>2. doc' \in Nat /\ archived' \in BOOLEAN
      <4>1. doc \in Nat /\ archived \in BOOLEAN
        BY <1>1 DEF TypeOK
      <4>2. (doc' = doc \/ doc' = doc + 1) /\ (archived' = archived \/ archived' = TRUE)
        BY <2>1 DEF Edit, Archive
      <4>3. doc' \in Nat
        BY <4>1, <4>2
      <4>4. archived' \in BOOLEAN
        BY <4>1, <4>2, Zenon
      <4> QED
        BY <4>3, <4>4
    <3> QED
      BY <1>1, <1>2, <1>4, <2>1, <3>1, <3>2 DEF Edit, Archive, RestOK, TypeOK, people, server
  <2>2. CASE Store
    <3>1. seen \in Stages /\ [stage |-> seen, stop |-> FALSE] \in Snapshots
      BY <1>1 DEF TypeOK, Snapshots
    <3>2. TellStep
      <4>1. notices' = notices /\ finding' = "running" /\ seen' = NoStage
        BY <1>2, <2>2 DEF Store, durable
      <4>2. ASSUME NEW s \in told', s \notin told
            PROVE  s \in Snapshots /\ s.stage = seen
        <5>1. told' = told \cup {[stage |-> seen, stop |-> FALSE]}
          BY <2>2 DEF Store
        <5>2. s = [stage |-> seen, stop |-> FALSE]
          BY <4>2, <5>1
        <5> QED
          BY <3>1, <5>2
      <4> QED
        BY <4>1, <4>2 DEF TellStep
    <3>3. seen' \in Stages
      BY <2>2 DEF Store, Stages
    <3> QED
      BY <1>1, <1>2, <1>4, <2>2, <3>2, <3>3 DEF Store, RestOK, TypeOK, outside, server
  <2> QED
    BY <2>1, <2>2 DEF Store
<1> QED
  BY <1>2, <1>3, <1>4, <1>5, <1>6 DEF Effects, LockStep

LEMMA DeliverStep == ASSUME IndInv, NEW s \in told, Deliver(s) PROVE Effects
<1>1. TypeOK
  BY DEF IndInv, ResearchInv
<1>2. UNCHANGED <<durable, lock, server, load>> /\ seen' = seen /\ told' \subseteq told
  BY DEF Deliver
<1>3. RowStep /\ Idle /\ load' \in LoadRecords /\ CutStep
  BY <1>1, <1>2, SameRow, SameLoad DEF durable
<1>4. CallStep /\ DueStep
  BY <1>2 DEF CallStep, DueStep, durable, server
<1>5. finding' \in {finding, "ready", "failed", "stopped"} /\ (finding' = "ready" => finding = "ready" \/ s.stage = "ready")
  BY DEF Deliver, Settled
<1>6. TellStep
  BY <1>2, <1>5 DEF TellStep, durable
<1>7. RestOK'
  BY <1>1, <1>2, <1>3, <1>5 DEF Deliver, TypeOK, RestOK, outside, server
<1> QED
  BY <1>2, <1>3, <1>4, <1>6, <1>7 DEF Effects, LockStep

(* The process dies; it starts again with what has ended.                  *)
LEMMA CrashStep == ASSUME IndInv, Crash PROVE Effects
<1>1. TypeOK
  BY DEF IndInv, ResearchInv
<1>2. RowStep
  BY <1>1, SameRow DEF Crash, durable
<1>3. load' \in LoadRecords /\ load'.cut
  BY <1>1, LossTypes DEF Crash, TypeOK
<1>4. LockStep /\ CutStep /\ CallStep /\ DueStep
  BY <1>3 DEF Crash, LockStep, CutStep, CallStep, DueStep
<1>5. TellStep
  BY DEF Crash, TellStep, durable
<1>6. RestOK'
  BY <1>1, <1>3 DEF Crash, TypeOK, RestOK, outside, Stages
<1> QED
  BY <1>2, <1>3, <1>4, <1>5, <1>6 DEF Effects

LEMMA BootTerminalStep == ASSUME IndInv, BootTerminal PROVE Effects
<1>1. TypeOK /\ RowsInv
  BY DEF IndInv, ResearchInv, RowsInv
<1>2. UNCHANGED <<durable, people, lock, load>> /\ calls \subseteq calls'
  BY DEF BootTerminal
<1>3. RowStep /\ Idle /\ load' \in LoadRecords /\ CutStep
  BY <1>1, <1>2, SameRow, SameLoad DEF durable
<1>4. \A j \in TerminalJob : j \in 1 .. Len(jobs) /\ jobs[j].state # "active"
  BY <1>1, RowTypes DEF TerminalJob, State
<1>5. CallStep /\ DueStep /\ TellStep
  BY <1>2, <1>4 DEF BootTerminal, CallStep, DueStep, TellStep, durable, people
<1>6. RestOK'
  BY <1>1, <1>3 DEF BootTerminal, TypeOK, RestOK, outside, people
<1> QED
  BY <1>2, <1>3, <1>5, <1>6 DEF Effects, LockStep

(* A job ends, and its change is looked up.                                *)
LEMMA JobEndsStep == ASSUME IndInv, NEW j, NEW s, JobEnds(j, s) PROVE Effects
<1>1. TypeOK
  BY DEF IndInv, ResearchInv
<1>2. /\ j \in 1 .. Len(jobs) /\ s \in States \ {"active"} /\ jobs[j].state = "active"
      /\ jobs' = [jobs EXCEPT ![j].state = s]
      /\ calls' = calls \cup {j} \/ (s = "cancelled" /\ calls' = calls)
      /\ UNCHANGED <<ws, notices, outside, people, lock, boot, timer>>
  BY DEF JobEnds, States
<1>3. JobEnded
  BY <1>2 DEF JobEnded
<1>4. /\ Len(jobs') = Len(jobs) /\ jobs'[j].state = s
      /\ \A k \in 1 .. Len(jobs) : k # j => jobs'[k] = jobs[k]
  BY <1>1, <1>2, EndedJob
<1>5. load' \in LoadRecords /\ CutStep
  BY <1>1, Spent, SameLoad DEF JobEnds, Bounds
<1>6. CallStep
  BY <1>2, <1>4 DEF CallStep
<1>7. DueStep
  BY <1>2, <1>4 DEF DueStep
<1>8. TellStep
  BY <1>2 DEF TellStep, people
<1>9. RestOK'
  BY <1>1, <1>2, <1>5, Still DEF outside
<1> QED
  BY <1>2, <1>3, <1>5, <1>6, <1>7, <1>8, <1>9 DEF Effects, RowStep, LockStep, Idle

LEMMA JobChangedStep == ASSUME IndInv, NEW j, JobChanged(j) PROVE Effects
<1>1. TypeOK /\ ChangedInv
  BY DEF IndInv, ResearchInv
<1>2. j \in calls /\ calls' = calls \ {j} /\ UNCHANGED <<durable, outside, people, boot, timer>>
  BY DEF JobChanged
<1>3. RowStep /\ Idle
  BY <1>1, <1>2, SameRow DEF durable
<1>4. j \in 1 .. Len(jobs) /\ jobs[j].state # "active" /\ Len(jobs) \in Nat /\ lock \in Seq(Ops)
  BY <1>1, <1>2, RowTypes DEF TypeOK, ChangedInv, State
<1>5. CallStep /\ TellStep
  BY <1>2 DEF CallStep, TellStep, durable, people
<1>6. ASSUME j \in {ws.evidence, ws.answer}, UNCHANGED load,
             lock' = Append(lock, Op("changed", "pass", "act", j, "none"))
      PROVE  Effects
  <2> DEFINE o == Op("changed", "pass", "act", j, "none")
  <2>1. Fresh(o) /\ o.do = "changed" /\ o.job = j /\ o \in Ops
    <3>1. Fresh(o)
      BY <1>4, FreshOps
    <3>2. o.do = "changed" /\ o.job = j
      BY DEF Op
    <3> QED
      BY <3>1, <3>2 DEF Fresh
  <2>2. lock' = Append(lock, o)
    BY <1>6
  <2> HIDE DEF o
  <2>3. Pushed
    BY <1>1, <2>1, <2>2, Joins
  <2>4. Len(lock) + 1 \in DOMAIN lock' /\ lock'[Len(lock) + 1] = o
    BY <1>4, <2>1, <2>2
  <2>5. DueStep
    BY <1>2, <1>6, <2>1, <2>4 DEF DueStep, durable
  <2>6. load' \in LoadRecords /\ CutStep
    BY <1>1, <1>6, SameLoad
  <2>7. RestOK'
    BY <1>1, <1>2, <2>6, Still DEF outside
  <2> QED
    BY <1>3, <1>5, <2>3, <2>5, <2>6, <2>7 DEF Effects, LockStep
<1>7. ASSUME load' = [load EXCEPT !.cut = TRUE], UNCHANGED lock PROVE Effects
  <2>1. load' \in LoadRecords /\ load'.cut
    BY <1>1, <1>7, LoadTypes DEF TypeOK
  <2>2. RestOK'
    BY <1>1, <1>2, <2>1, Still DEF outside
  <2> QED
    BY <1>3, <1>5, <1>7, <2>1, <2>2 DEF Effects, LockStep, DueStep, CutStep
<1> QED
  BY <1>6, <1>7 DEF JobChanged

(* A storage call fails before anything is written.                        *)
LEMMA FailsStep == ASSUME IndInv, Fails PROVE Effects
<1>1. TypeOK /\ lock # <<>>
  BY DEF IndInv, ResearchInv, Fails
<1>2. UNCHANGED <<durable, outside, people, server>>
  BY DEF Fails
<1>3. Popped /\ load' \in LoadRecords /\ load'.cut
  BY <1>1, Breaking DEF Fails
<1>4. RowStep
  BY <1>1, <1>2, SameRow DEF durable
<1>5. CallStep /\ DueStep /\ TellStep
  BY <1>1, <1>2, Silent DEF durable, server
<1>6. RestOK'
  BY <1>1, <1>2, <1>3, Still DEF outside, server
<1> QED
  BY <1>3, <1>4, <1>5, <1>6 DEF Effects, LockStep, CutStep

(* The card is placed, deferred, or not looked for.                        *)
LEMMA PlaceStep == ASSUME IndInv, Place PROVE Effects
<1>1. TypeOK
  BY DEF IndInv, ResearchInv
<1>2. /\ lock # <<>> /\ Head(lock).do \in {"start", "recover"}
      /\ UNCHANGED <<jobs, notices, outside, people, calls, boot>>
  BY DEF Place, Runs
<1>3. CallStep /\ DueStep /\ TellStep
  BY <1>1, <1>2, Silent
<1>4. ASSUME lock' = Tail(lock), UNCHANGED ws PROVE RowStep /\ LockStep
  BY <1>1, <1>2, <1>4, SameRow, Leaving DEF LockStep, Popped
<1>5. ASSUME ws' = [ws EXCEPT !.ref = "placed"], Goes("evidence") PROVE RowStep /\ LockStep
  <2>1. \A r \in RowRecords :
           LET q == [r EXCEPT !.ref = "placed"] IN
           /\ q \in RowRecords /\ q.evidence = r.evidence /\ q.answer = r.answer
           /\ q.rev = r.rev /\ q.pub = r.pub
    BY DEF RowRecords
  <2>2. RowSame
    BY <1>1, <1>2, <1>5, <2>1 DEF RowSame, TypeOK
  <2>3. Turned
    BY <1>1, <1>2, <1>5, Going
  <2> QED
    BY <2>2, <2>3 DEF RowStep, LockStep
<1>6. RowStep /\ LockStep
  BY <1>4, <1>5 DEF Place
<1>7. load' \in LoadRecords /\ CutStep /\ timer' \in BOOLEAN
  <2>1. CASE UNCHANGED <<timer, load>>
    BY <1>1, <2>1, SameLoad DEF TypeOK
  <2>2. ASSUME load.defers > 0,
               load' = [load EXCEPT !.defers = @ - 1, !.failed = @ \/ Head(lock).do = "start"],
               timer' = (timer \/ Head(lock).do = "recover")
        PROVE  load' \in LoadRecords /\ CutStep /\ timer' \in BOOLEAN
    <3>1. PICK b \in BOOLEAN : b = (Head(lock).do = "start")
      OBVIOUS
    <3>2. load' = [load EXCEPT !.defers = @ - 1, !.failed = @ \/ b]
      BY <2>2, <3>1
    <3>3. load' \in LoadRecords /\ load'.cut = load.cut
      BY <1>1, <2>2, <3>2, LossTypes DEF TypeOK
    <3>4. timer' \in BOOLEAN
      BY <2>2
    <3> QED
      BY <3>3, <3>4 DEF CutStep
  <2> QED
    BY <2>1, <2>2 DEF Place
<1>8. RestOK'
  BY <1>1, <1>2, <1>7 DEF TypeOK, RestOK, outside, people
<1> QED
  BY <1>3, <1>6, <1>7, <1>8 DEF Effects

(* A job is enqueued, found again, or refused.                             *)
LEMMA EnqueueStep ==
    ASSUME IndInv, lock # <<>>, NEW role \in Roles, Enqueue(role),
           role = "evidence" => ws.evidence = 0,
           role = "answer" => NeedsAnswer,
           UNCHANGED <<ws, notices, outside, people, server>>
    PROVE  Effects
<1>1. TypeOK /\ RowsInv
  BY DEF IndInv, ResearchInv, RowsInv
<1>2. Head(lock) \in Ops /\ Quoted(role) \in Nat
  BY <1>1, HeadOfLock DEF Quoted, TypeOK
<1> DEFINE h == [Head(lock) EXCEPT !.at = "link", !.role = role]
           new == [role |-> role, rev |-> ws.rev, doc |-> Quoted(role), state |-> "active"]
<1>3. ASSUME NEW k \in Nat, Holds([h EXCEPT !.new = k]), k \in 1 .. Len(jobs'),
             jobs'[k].role = role, Current(k)', NeedsAnswer => NeedsAnswer'
      PROVE  Turned
  <2>0. [h EXCEPT !.new = k] \in Ops
    BY <1>2 DEF Ops
  <2>1. PICK o \in Ops : o = [h EXCEPT !.new = k]
    BY <2>0
  <2>2. /\ o.at = "link" /\ o.new = k /\ o.role = role
        /\ o.do = Head(lock).do /\ o.job = Head(lock).job
        /\ lock' = <<o>> \o Tail(lock)
    BY <1>2, <1>3, <2>1 DEF Ops, Holds
  <2>3. Ready(o)
    BY <1>3, <2>2 DEF Ready
  <2> QED
    BY <2>1, <2>2, <2>3 DEF Turned
<1>4. ASSUME NEW k \in Of(role), Current(k), Holds([h EXCEPT !.new = k]), UNCHANGED <<jobs, load>>
      PROVE  RowStep /\ LockStep /\ load' \in LoadRecords /\ CutStep
  <2>1. k \in Nat /\ k \in 1 .. Len(jobs') /\ jobs'[k].role = role /\ Current(k)'
    BY <1>1, <1>4 DEF Of, Current
  <2>2. NeedsAnswer => NeedsAnswer'
    BY <1>4 DEF NeedsAnswer, State
  <2>3. Turned
    BY <1>3, <1>4, <2>1, <2>2
  <2> QED
    BY <1>1, <1>4, <2>3, SameRow, SameLoad DEF LockStep
<1>5. \A k \in Keyed(role) : Current(k)
  <2> SUFFICES ASSUME NEW k \in Keyed(role), NEW i \in Of(role) PROVE i <= k
    BY DEF Current, Keyed, Of
  <2> QED
    BY <1>1, RowTypes DEF Keyed, Of, RowsInv, KeysInv
<1>6. ASSUME Throws, Lost, UNCHANGED jobs
      PROVE  RowStep /\ LockStep /\ load' \in LoadRecords /\ CutStep
  <2>1. load' \in LoadRecords /\ load'.cut
    BY <1>1, <1>6, LoadTypes DEF Lost, TypeOK
  <2>2. Popped
    BY <1>1, <1>6, <2>1, Throwing DEF Popped
  <2> QED
    BY <1>1, <1>6, <2>1, <2>2, SameRow DEF LockStep, CutStep
<1>7. ASSUME ActiveJobs(role) = {}, Keyed(role) = {}, jobs' = Append(jobs, new)
      PROVE  /\ RowStep /\ (\A j \in 1 .. Len(jobs) : jobs'[j] = jobs[j])
             /\ (Holds([h EXCEPT !.new = Len(jobs) + 1]) /\ UNCHANGED load) \/ Breaks
                => LockStep /\ load' \in LoadRecords /\ CutStep
  <2>1. RowStep
    BY <1>2, <1>7 DEF RowStep, Enqueued
  <2>2. PICK n \in Nat : n = Len(jobs) + 1
    BY <1>1, RowTypes
  <2>3. /\ Len(jobs') = n /\ jobs'[n].role = role
        /\ \A k \in 1 .. Len(jobs) : jobs'[k] = jobs[k]
    BY <1>1, <1>2, <1>7, <2>2, NewJob
  <2>4. Current(n)'
    BY <2>2, <2>3 DEF Current, Of
  <2>5. NeedsAnswer => NeedsAnswer'
    BY <1>1, <2>2, <2>3, RowTypes DEF NeedsAnswer, State
  <2>6. ASSUME Holds([h EXCEPT !.new = n]), UNCHANGED load
        PROVE  LockStep /\ load' \in LoadRecords /\ CutStep
    <3>1. n \in 1 .. Len(jobs')
      BY <1>1, <2>2, <2>3, RowTypes
    <3>2. Turned
      BY <1>3, <2>3, <2>4, <2>5, <2>6, <3>1
    <3> QED
      BY <1>1, <2>6, <3>2, SameLoad DEF LockStep
  <2>7. ASSUME Breaks PROVE LockStep /\ load' \in LoadRecords /\ CutStep
    BY <1>1, <2>7, Breaking DEF LockStep, CutStep
  <2> QED
    BY <2>1, <2>2, <2>3, <2>6, <2>7
<1>8. /\ RowStep /\ LockStep /\ load' \in LoadRecords /\ CutStep
      /\ \A j \in 1 .. Len(jobs) : jobs'[j] = jobs[j]
  <2>1. CASE \E j \in ActiveJobs(role) : Holds([h EXCEPT !.new = j]) /\ UNCHANGED <<jobs, load>>
    BY <1>4, <2>1 DEF ActiveJobs
  <2>2. CASE \E j \in Keyed(role) :
                 /\ UNCHANGED jobs
                 /\ \/ Holds([h EXCEPT !.new = j]) /\ UNCHANGED load
                    \/ Throws /\ Lost
    BY <1>4, <1>5, <1>6, <2>2 DEF Keyed
  <2>3. CASE /\ ActiveJobs(role) = {} /\ Keyed(role) = {} /\ jobs' = Append(jobs, new)
             /\ (Holds([h EXCEPT !.new = Len(jobs) + 1]) /\ UNCHANGED load) \/ Breaks
    BY <1>7, <2>3
  <2> QED
    BY <2>1, <2>2, <2>3 DEF Enqueue
<1>9. CallStep /\ DueStep /\ TellStep
  BY <1>1, <1>8, Silent DEF server
<1>10. RestOK'
  BY <1>1, <1>8, Still DEF outside, server
<1> QED
  BY <1>8, <1>9, <1>10 DEF Effects

LEMMA EvidenceStep == ASSUME IndInv, Evidence PROVE Effects
<1>1. TypeOK
  BY DEF IndInv, ResearchInv
<1>2. lock # <<>> /\ UNCHANGED <<ws, notices, outside, people, server>>
  BY DEF Evidence, Runs
<1>3. CASE ws.evidence = 0 /\ Enqueue("evidence")
  BY <1>2, <1>3, EnqueueStep DEF Roles
<1>4. CASE UNCHANGED <<jobs, load>> /\ Goes(IF Head(lock).do = "retry" THEN "pass" ELSE "end")
  <2>1. Turned
    <3>1. CASE Goes("pass")
      BY <1>1, <1>2, <3>1, Going
    <3>2. CASE Goes("end")
      BY <1>1, <1>2, <3>2, Going
    <3> QED
      BY <1>4, <3>1, <3>2
  <2>2. CallStep /\ DueStep /\ TellStep /\ RowStep /\ load' \in LoadRecords /\ CutStep
    BY <1>1, <1>2, <1>4, Silent, SameRow, SameLoad DEF server
  <2>3. RestOK'
    BY <1>1, <1>2, <2>2, Still DEF outside, server
  <2> QED
    BY <2>1, <2>2, <2>3 DEF Effects, LockStep
<1> QED
  BY <1>3, <1>4 DEF Evidence

LEMMA EnsureAnswerStep == ASSUME IndInv, EnsureAnswer PROVE Effects
  BY EnqueueStep DEF EnsureAnswer, Passing, Roles

LEMMA LinkStep == ASSUME IndInv, Link PROVE Effects
<1>1. TypeOK
  BY DEF IndInv, ResearchInv
<1>2. lock # <<>> /\ Linked /\ UNCHANGED <<jobs, notices, outside, people, server>>
  BY DEF Link, Linked
<1>3. PICK at \in {"pass", "end"} : Heard(at)
  BY DEF Link
<1>4. CallStep /\ DueStep /\ TellStep
  BY <1>1, <1>2, Silent DEF server
<1>5. LockStep /\ load' \in LoadRecords /\ CutStep
  <2>1. CASE Goes(at) /\ UNCHANGED load
    BY <1>1, <1>2, <2>1, Going, SameLoad DEF LockStep
  <2>2. CASE Breaks
    BY <1>1, <1>2, <2>2, Breaking DEF LockStep, CutStep
  <2> QED
    BY <1>3, <2>1, <2>2 DEF Heard
<1>6. RestOK'
  BY <1>1, <1>2, <1>5, Still DEF outside, server
<1> QED
  BY <1>2, <1>4, <1>5, <1>6 DEF Effects, RowStep

LEMMA PublishStep == ASSUME IndInv, Publish PROVE Effects
<1>1. TypeOK
  BY DEF IndInv, ResearchInv
<1>2. lock # <<>> /\ UNCHANGED <<jobs, notices, outside, people, server>>
  BY DEF Publish, Passing
<1>3. CallStep /\ DueStep /\ TellStep
  BY <1>1, <1>2, Silent DEF server
<1>4. RowStep /\ LockStep /\ load' \in LoadRecords /\ CutStep
  <2>1. CASE Throws /\ Lost /\ UNCHANGED ws
    <3>1. load' \in LoadRecords /\ load'.cut
      BY <1>1, <2>1, LoadTypes DEF Lost, TypeOK
    <3>2. Popped
      BY <1>1, <1>2, <2>1, <3>1, Throwing DEF Popped
    <3> QED
      BY <1>1, <1>2, <2>1, <3>1, <3>2, SameRow DEF LockStep, CutStep
  <2>2. CASE ws' = [ws EXCEPT !.pub = TRUE, !.rev = @ + 1] /\ Heard("pass")
    <3>1. RowStep
      BY <1>2, <2>2 DEF RowStep, Published, Publish
    <3>2. CASE Goes("pass") /\ UNCHANGED load
      BY <1>1, <1>2, <3>1, <3>2, Going, SameLoad DEF LockStep
    <3>3. CASE Breaks
      BY <1>1, <1>2, <3>1, <3>3, Breaking DEF LockStep, CutStep
    <3> QED
      BY <2>2, <3>2, <3>3 DEF Heard
  <2>3. CASE /\ load.faults > 0 /\ load' = [load EXCEPT !.faults = @ - 1, !.cut = TRUE]
             /\ Goes(Head(lock).then) /\ UNCHANGED ws
    <3>1. load' \in LoadRecords /\ load'.cut
      BY <1>1, <2>3, LossTypes DEF TypeOK
    <3>2. PICK at \in {"act", "end"} : at = Head(lock).then
      BY <1>1, <1>2, HeadOfLock DEF Ops
    <3>3. Turned
      BY <1>1, <1>2, <2>3, <3>1, <3>2, Going
    <3> QED
      BY <1>1, <1>2, <2>3, <3>1, <3>3, SameRow DEF LockStep, CutStep
  <2> QED
    BY <2>1, <2>2, <2>3 DEF Publish
<1>5. RestOK'
  BY <1>1, <1>2, <1>4, Still DEF outside, server
<1> QED
  BY <1>3, <1>4, <1>5 DEF Effects

LEMMA ReconciledStep == ASSUME IndInv, Reconciled PROVE Effects
<1>1. TypeOK
  BY DEF IndInv, ResearchInv
<1>2. lock # <<>> /\ UNCHANGED <<durable, outside, people, server, load>>
  BY DEF Reconciled, Passing
<1>3. PICK at \in {"act", "end"} : at = Head(lock).then
  BY <1>1, <1>2, HeadOfLock DEF Ops
<1>4. ~NeedsPublish'
  BY <1>2 DEF Reconciled, NeedsPublish, State, durable
<1>5. Turned
  BY <1>1, <1>2, <1>3, <1>4, Going DEF Reconciled
<1>6. CallStep /\ DueStep /\ TellStep /\ RowStep /\ load' \in LoadRecords /\ CutStep
  BY <1>1, <1>2, Silent, SameRow, SameLoad DEF durable, server
<1>7. RestOK'
  BY <1>1, <1>2, <1>6, Still DEF outside, server
<1> QED
  BY <1>5, <1>6, <1>7 DEF Effects, LockStep

LEMMA LeavesStep == ASSUME IndInv, Leaves PROVE Effects
<1>1. TypeOK
  BY DEF IndInv, ResearchInv
<1>2. /\ lock # <<>> /\ Head(lock).do # "changed" /\ lock' = Tail(lock)
      /\ UNCHANGED <<durable, outside, people, server, load>>
  BY DEF Leaves
<1>3. Popped
  BY <1>1, <1>2, Leaving DEF Popped
<1>4. CallStep /\ DueStep /\ TellStep /\ RowStep /\ load' \in LoadRecords /\ CutStep
  BY <1>1, <1>2, Silent, SameRow, SameLoad DEF durable, server
<1>5. RestOK'
  BY <1>1, <1>2, <1>4, Still DEF outside, server
<1> QED
  BY <1>3, <1>4, <1>5 DEF Effects, LockStep

(* The notice: a finished answer that was reconciled has been published.   *)
LEMMA AnnounceStep == ASSUME IndInv, Announce PROVE Effects
<1>1. TypeOK /\ RowsInv /\ ChangedInv
  BY DEF IndInv, ResearchInv, RowsInv
<1>2. PICK j : j = Head(lock).job
  OBVIOUS
<1>3. /\ lock # <<>> /\ Head(lock).at = "act" /\ Head(lock).do = "changed"
      /\ notices' = IF Noted(j) THEN notices \cup {[stage |-> Stage, job |-> j]} ELSE notices
      /\ load' = IF Unplaced(j) THEN [load EXCEPT !.cut = TRUE] ELSE load
      /\ lock' = Append(Tail(lock), View("settle"))
      /\ UNCHANGED <<ws, jobs, outside, people, server>>
  BY <1>2 DEF Announce, Runs
<1>4. lock[1] = Head(lock) /\ 1 \in DOMAIN lock
  BY <1>1, <1>3, HeadOfLock
<1>5. /\ j \in 1 .. Len(jobs) /\ State(j) # "active"
      /\ ~load.cut /\ j = ws.answer => ~NeedsPublish
  BY <1>1, <1>2, <1>3, <1>4 DEF ChangedInv
<1>6. load' \in LoadRecords /\ CutStep /\ (Unplaced(j) => load'.cut)
  BY <1>1, <1>3, LoadTypes DEF TypeOK, CutStep
<1>7. ASSUME ~load'.cut, j = ws.answer, State(ws.answer) = "completed"
      PROVE  [stage |-> "ready", job |-> ws.answer] \in notices'
  <2>1. ws.pub
    BY <1>5, <1>6, <1>7 DEF NeedsPublish, CutStep
  <2>2. Stage = "ready"
    BY <1>1, <2>1, StageTruly
  <2>3. ws.ref = "placed"
    BY <1>6, <1>7, <2>2 DEF Unplaced
  <2>4. Noted(j)
    BY <1>7, <2>2, <2>3 DEF Noted
  <2> QED
    BY <1>3, <1>7, <2>2, <2>4
<1>8. Popped
  <2>1. Fresh(View("settle"))
    BY FreshOps DEF Whys
  <2>2. \E s \in Seq(Ops) : PoppedTo(s)
    BY <1>1, <1>3, <2>1, Leaving
  <2> QED
    BY <1>2, <1>7, <2>2 DEF Popped
<1>9. CallStep /\ DueStep
  BY <1>3 DEF CallStep, DueStep, server
<1>10. TellStep
  BY <1>3, <1>5 DEF TellStep, people
<1>11. RowStep
  BY <1>1, <1>3, SameRow
<1>12. RestOK'
  BY <1>1, <1>3, <1>6, Still DEF outside, server
<1> QED
  BY <1>6, <1>8, <1>9, <1>10, <1>11, <1>12 DEF Effects, LockStep

LEMMA CancelActiveStep == ASSUME IndInv, CancelActive PROVE Effects
<1>1. TypeOK /\ RowsInv
  BY DEF IndInv, ResearchInv, RowsInv
<1>2. /\ lock # <<>> /\ Head(lock).do = "cancel" /\ Head(lock) \in Ops
      /\ UNCHANGED <<ws, notices, outside, people, server, load>>
  BY <1>1, HeadOfLock DEF CancelActive, Runs
<1> DEFINE A == {j \in {ws.answer, ws.evidence} : State(j) = "active"}
           again == [Head(lock) EXCEPT !.at = "pass", !.then = "end"]
           x == IF ws.answer \in A THEN ws.answer ELSE ws.evidence
<1>3. ASSUME Holds(again) PROVE Turned
  <2>1. again \in Ops
    BY <1>2 DEF Ops
  <2>2. PICK o \in Ops : o = again
    BY <2>1
  <2>3. /\ o.at = "pass" /\ o.do = Head(lock).do /\ o.job = Head(lock).job
        /\ lock' = <<o>> \o Tail(lock)
    BY <1>2, <1>3, <2>2 DEF Ops, Holds
  <2> QED
    BY <1>2, <2>3 DEF Turned, Ready
<1>4. ASSUME A # {}, jobs' = [jobs EXCEPT ![x].state = "cancelled"]
      PROVE  RowStep /\ \A j \in 1 .. Len(jobs) : jobs[j].state = "active" => jobs'[j].state # "completed"
  <2>1. x \in A
    BY <1>4
  <2>2. PICK j : j = x
    OBVIOUS
  <2>3. j \in 1 .. Len(jobs) /\ jobs[j].state = "active"
    BY <1>1, <2>1, <2>2, RowTypes DEF State
  <2>4. "cancelled" \in States \ {"active"} /\ jobs' = [jobs EXCEPT ![j].state = "cancelled"]
    BY <1>4, <2>2 DEF States
  <2>5. RowStep
    BY <1>2, <2>3, <2>4 DEF RowStep, JobEnded
  <2>6. jobs'[j].state = "cancelled" /\ \A k \in 1 .. Len(jobs) : k # j => jobs'[k] = jobs[k]
    BY <1>1, <2>3, <2>4, EndedJob
  <2> QED
    BY <2>5, <2>6
<1>5. ASSUME UNCHANGED jobs
      PROVE  RowStep /\ \A j \in 1 .. Len(jobs) : jobs[j].state = "active" => jobs'[j].state # "completed"
  BY <1>1, <1>2, <1>5, SameRow
<1>6. ASSUME lock' = Tail(lock) \o (IF Head(lock).why = "stop" THEN <<View("stop")>> ELSE <<>>)
      PROVE  Popped
  <2>1. CASE Head(lock).why = "stop"
    <3>1. lock' = Tail(lock) \o <<View("stop")>> /\ Fresh(View("stop"))
      BY <1>6, <2>1, FreshOps DEF Whys
    <3> QED
      BY <1>1, <1>2, <3>1, Leaving DEF Popped
  <2>2. CASE Head(lock).why # "stop"
    <3>1. Tail(lock) \in Seq(Ops) /\ lock' = Tail(lock) \o <<>>
      BY <1>1, <1>2, <1>6, <2>2, HeadOfLock
    <3>2. lock' = Tail(lock)
      BY <3>1
    <3> QED
      BY <1>1, <1>2, <3>2, Leaving DEF Popped
  <2> QED
    BY <2>1, <2>2
<1>7. ASSUME Throws PROVE Popped
  BY <1>1, <1>2, <1>7, Throwing DEF Popped
<1>8. /\ \/ A # {} /\ jobs' = [jobs EXCEPT ![x].state = "cancelled"]
         \/ UNCHANGED jobs
      /\ \/ Holds(again)
         \/ lock' = Tail(lock) \o (IF Head(lock).why = "stop" THEN <<View("stop")>> ELSE <<>>)
         \/ Throws
  BY DEF CancelActive
<1> HIDE DEF A, again, x
<1>9. /\ RowStep /\ (Turned \/ Popped)
      /\ \A j \in 1 .. Len(jobs) : jobs[j].state = "active" => jobs'[j].state # "completed"
  BY <1>3, <1>4, <1>5, <1>6, <1>7, <1>8
<1>10. CallStep /\ DueStep /\ TellStep /\ load' \in LoadRecords /\ CutStep
  BY <1>1, <1>2, <1>9, Silent, SameLoad DEF server
<1>11. RestOK'
  BY <1>1, <1>2, <1>10, Still DEF outside, server
<1> QED
  BY <1>9, <1>10, <1>11 DEF Effects, LockStep

LEMMA CancelledStep == ASSUME IndInv, Cancelled PROVE Effects
<1>1. TypeOK /\ RowsInv
  BY DEF IndInv, ResearchInv, RowsInv
<1>2. /\ lock # <<>> /\ Head(lock).do # "changed" /\ lock' = Tail(lock)
      /\ UNCHANGED <<durable, outside, finding, seen, server, load>>
  BY DEF Cancelled, Runs
<1>3. Popped /\ RowStep /\ load' \in LoadRecords /\ CutStep
  BY <1>1, <1>2, Leaving, SameRow, SameLoad DEF Popped, durable
<1>4. \A s \in told' : s \in told \/ (s \in Snapshots /\ s.stage = Stage)
  <2>1. Stage \in Stages
    BY <1>1, StageTruly
  <2>2. PICK stop \in BOOLEAN : stop = (Head(lock).why = "stop")
    OBVIOUS
  <2>3. told' = told \/ told' = told \cup {[stage |-> Stage, stop |-> stop]}
    BY <2>2 DEF Cancelled
  <2> QED
    BY <2>1, <2>3 DEF Snapshots
<1>5. TellStep
  BY <1>2, <1>4 DEF TellStep, durable
<1>6. CallStep /\ DueStep
  BY <1>2 DEF CallStep, DueStep, durable, server
<1>7. RestOK'
  BY <1>1, <1>2, <1>3 DEF TypeOK, RestOK, outside, server
<1> QED
  BY <1>3, <1>5, <1>6, <1>7 DEF Effects, LockStep

LEMMA ViewedStep == ASSUME IndInv, Viewed PROVE Effects
<1>1. TypeOK /\ RowsInv
  BY DEF IndInv, ResearchInv, RowsInv
<1>2. /\ lock # <<>> /\ Head(lock).do # "changed" /\ lock' = Tail(lock)
      /\ UNCHANGED <<durable, outside, finding, server, load>>
  BY DEF Viewed, Runs
<1>3. Popped /\ RowStep /\ load' \in LoadRecords /\ CutStep
  BY <1>1, <1>2, Leaving, SameRow, SameLoad DEF Popped, durable
<1>4. Stage \in Stages
  BY <1>1, StageTruly
<1>5. seen' \in {seen, Stage}
  BY DEF Viewed
<1>6. \A s \in told' : s \in told \/ (s \in Snapshots /\ s.stage = Stage)
  <2>1. CASE Head(lock).why \in {"stop", "refused"}
    <3>1. (Head(lock).why \in {"stop", "refused"}) = TRUE
      BY <2>1
    <3>2. told' = told \/ told' = told \cup {[stage |-> Stage, stop |-> TRUE]}
      BY <3>1 DEF Viewed
    <3>3. [stage |-> Stage, stop |-> TRUE] \in Snapshots
      BY <1>4 DEF Snapshots
    <3>4. ASSUME NEW s \in told', s \notin told PROVE s \in Snapshots /\ s.stage = Stage
      <4>1. s = [stage |-> Stage, stop |-> TRUE]
        BY <3>2, <3>4
      <4> QED
        BY <3>3, <4>1
    <3> QED
      BY <3>4
  <2>2. CASE Head(lock).why \notin {"stop", "refused"}
    <3>1. (Head(lock).why \in {"stop", "refused"}) = FALSE
      BY <2>2
    <3>2. told' = told \/ told' = told \cup {[stage |-> Stage, stop |-> FALSE]}
      BY <3>1 DEF Viewed
    <3>3. [stage |-> Stage, stop |-> FALSE] \in Snapshots
      BY <1>4 DEF Snapshots
    <3>4. ASSUME NEW s \in told', s \notin told PROVE s \in Snapshots /\ s.stage = Stage
      <4>1. s = [stage |-> Stage, stop |-> FALSE]
        BY <3>2, <3>4
      <4> QED
        BY <3>3, <4>1
    <3> QED
      BY <3>4
  <2> QED
    BY <2>1, <2>2
<1>7. TellStep
  BY <1>2, <1>5, <1>6 DEF TellStep, durable
<1>8. CallStep /\ DueStep
  BY <1>2 DEF CallStep, DueStep, durable, server
<1>9. RestOK'
  <2>1. seen' \in Stages
    BY <1>1, <1>4, <1>5 DEF TypeOK
  <2> QED
    BY <1>1, <1>2, <1>3, <2>1 DEF TypeOK, RestOK, outside, server
<1> QED
  BY <1>3, <1>7, <1>8, <1>9 DEF Effects, LockStep

(* A step of the head that nobody hears of.                                *)
LEMMA QuietStep ==
    ASSUME TypeOK, RowStep, LockStep, load' \in LoadRecords, CutStep,
           UNCHANGED <<jobs, notices, outside, people, server>>
    PROVE  Effects
<1>1. CallStep /\ DueStep /\ TellStep
  BY Silent DEF server
<1>2. RestOK'
  BY Still DEF outside, server
<1> QED
  BY <1>1, <1>2 DEF Effects

LEMMA ResetStep == ASSUME IndInv, Reset PROVE Effects
<1>1. TypeOK
  BY DEF IndInv, ResearchInv
<1>2. /\ lock # <<>> /\ Head(lock).do = "retry" /\ Head(lock) \in Ops
      /\ UNCHANGED <<jobs, notices, outside, people, server>>
  BY <1>1, HeadOfLock DEF Reset, Runs
<1> DEFINE fresh == [Head(lock) EXCEPT !.at = "evidence", !.then = "end"]
<1>3. ASSUME Holds(fresh) PROVE Turned
  <2>1. fresh \in Ops
    BY <1>2 DEF Ops
  <2>2. PICK o \in Ops : o = fresh
    BY <2>1
  <2>3. /\ o.at = "evidence" /\ o.do = Head(lock).do /\ o.job = Head(lock).job
        /\ lock' = <<o>> \o Tail(lock)
    BY <1>2, <1>3, <2>2 DEF Ops, Holds
  <2> QED
    BY <1>2, <2>3 DEF Turned, Ready
<1>4. CASE lock' = Tail(lock) /\ UNCHANGED <<ws, load>>
  BY <1>1, <1>2, <1>4, Leaving, SameRow, SameLoad, QuietStep DEF LockStep, Popped
<1>5. CASE Holds(fresh) /\ UNCHANGED <<ws, load>>
  BY <1>1, <1>2, <1>3, <1>5, SameRow, SameLoad, QuietStep DEF LockStep
<1>6. CASE /\ MayReset /\ ws' = [ws EXCEPT !.evidence = 0, !.answer = 0, !.rev = @ + 1]
           /\ (Holds(fresh) /\ UNCHANGED load) \/ Breaks
  <2>1. RowStep
    BY <1>2, <1>6 DEF RowStep, WasReset, MayReset
  <2>2. CASE Holds(fresh) /\ UNCHANGED load
    BY <1>1, <1>2, <1>3, <2>1, <2>2, SameLoad, QuietStep DEF LockStep
  <2>3. CASE Breaks
    BY <1>1, <1>2, <2>1, <2>3, Breaking, QuietStep DEF LockStep, CutStep
  <2> QED
    BY <1>6, <2>2, <2>3
<1> QED
  BY <1>4, <1>5, <1>6 DEF Reset

-----------------------------------------------------------------------------
(* The theorems.                                                           *)

LEMMA InitInv == Init => IndInv
<1> SUFFICES ASSUME Init PROVE IndInv
  OBVIOUS
<1>1. /\ ws = [made |-> FALSE, ref |-> "none", rev |-> 0, evidence |-> 0, answer |-> 0, pub |-> FALSE]
      /\ jobs = <<>> /\ doc = 0 /\ archived = FALSE /\ finding = "none" /\ notices = {}
      /\ lock = <<>> /\ calls = {} /\ seen = NoStage /\ told = {} /\ boot = "none" /\ timer = FALSE
      /\ load \in LoadRecords
  BY LoadsAssumption DEF Init
<1>2. TypeOK
  <2>1. ws \in RowRecords /\ {ws.evidence, ws.answer} \subseteq 0 .. Len(jobs)
    BY <1>1 DEF RowRecords
  <2>2. jobs \in Seq(JobRecords) /\ lock \in Seq(Ops)
    BY <1>1
  <2> QED
    BY <1>1, <2>1, <2>2 DEF TypeOK, Stages
<1>3. RowsInv /\ LinkInv /\ ChangedInv
  BY <1>1 DEF RowsInv, KeysInv, LinkedInv, ActiveInv, PublishedIsAnswered, LinkInv, ChangedInv
<1>4. OneAttempt
  BY <1>2, <1>3, AtMostOne DEF RowsInv
<1>5. DueInv /\ HeardInv /\ ToldTruly
  BY <1>1 DEF DueInv, HeardInv, ToldTruly, Of, NoStage
<1> QED
  BY <1>2, <1>3, <1>4, <1>5 DEF IndInv, ResearchInv, RowsInv

LEMMA NextEffects == ASSUME IndInv, Next PROVE Effects
<1>1. CASE Step
  BY <1>1, PlaceStep, EvidenceStep, LinkStep, EnsureAnswerStep, PublishStep, ReconciledStep,
     LeavesStep, AnnounceStep, CancelActiveStep, CancelledStep, ResetStep, ViewedStep DEF Step
<1>2. CASE \E j \in 1 .. Len(jobs) : JobChanged(j) \/ \E s \in States : JobEnds(j, s)
  BY <1>2, JobChangedStep, JobEndsStep
<1>3. CASE \E s \in told : Deliver(s)
  BY <1>3, DeliverStep
<1> QED
  BY <1>1, <1>2, <1>3, FailsStep, StartStep, AskStep, AsideStep, RecoverStep, CrashStep,
     BootTerminalStep DEF Next

(* For any workload, ResearchInv and ToldTruly hold together.              *)
THEOREM Invariant == Spec => []IndInv
<1>1. IndInv /\ [Next]_vars => IndInv'
  <2> SUFFICES ASSUME IndInv, [Next]_vars PROVE IndInv'
    OBVIOUS
  <2>1. CASE Next
    BY <2>1, NextEffects, EffectsKeep
  <2>2. CASE UNCHANGED vars
    <3>1. TypeOK /\ UNCHANGED <<ws, jobs, notices, calls, people, lock, load, outside, server>>
      BY <2>2 DEF IndInv, ResearchInv, vars, outside, people, server
    <3>2. CallStep /\ DueStep /\ TellStep /\ RowStep /\ Idle /\ load' \in LoadRecords /\ CutStep
      BY <3>1, Silent, SameRow, SameLoad
    <3>3. RestOK'
      BY <3>1, <3>2, Still DEF outside, server
    <3>4. Effects
      BY <3>1, <3>2, <3>3 DEF Effects, LockStep
    <3> QED
      BY <3>4, EffectsKeep
  <2> QED
    BY <2>1, <2>2
<1> QED
  BY InitInv, <1>1, PTL DEF Spec

(* A request has one attempt at a time, whatever is retried, replayed,     *)
(* recovered or lost (research/service.ts), and what it publishes is the   *)
(* linked answer to the linked evidence, both complete and the newest.     *)
THEOREM OneAttemptPublished == Spec => []ResearchInv
<1>1. IndInv => ResearchInv
  BY DEF IndInv
<1> QED
  BY <1>1, Invariant, PTL

(* Notices and findings tell how the request ended, and the report of a    *)
(* request that nothing cut short has its notice (jobChanged).             *)
THEOREM TellsTheTruth == Spec => []ToldTruly
<1>1. IndInv => ToldTruly
  BY DEF IndInv
<1> QED
  BY <1>1, Invariant, PTL
=============================================================================
