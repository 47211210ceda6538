------------------------------ MODULE LeaseAndChatProofs -----------------------------
(***************************************************************************)
(* Proofs about a document's two keepers of order: the lease that fences   *)
(* its writes (WriterLease), and the Chat whose turns wait for those       *)
(* writes to end (ChatTurns).  The modules share no state.                 *)
(*                                                                         *)
(* LeaseInv is an inductive invariant of WriterLease, for every set of     *)
(* processes, every Ttl and Safety with Safety < Ttl, and without bounds   *)
(* on time, writes or renewals.  It gives the fencing of committed writes  *)
(* and the safety of the watchdog deadline.  One lemma per conjunct says   *)
(* that no step breaks it.                                                 *)
(*                                                                         *)
(* TurnInv is an inductive invariant of ChatTurns, for every set of        *)
(* messages, invocations, notes, jobs and drafts, every MAX_QUEUE and      *)
(* MAX_PENDING_SENDS, and every load.  It gives one turn at a time, the    *)
(* queue's bound, messages that move into the transcript once, and         *)
(* outcomes that are told once.  One lemma per action says that its step   *)
(* keeps it.                                                               *)
(***************************************************************************)
EXTENDS WriterLease, ChatTurns, FiniteSetTheorems, TLAPS

-----------------------------------------------------------------------------
(* The writer lease.                                                       *)

(* Every step keeps the types.                                             *)
LEMMA TypeStep ==
    ASSUME TypeOK, [Next]_vars
    PROVE  TypeOK'
<1> USE TimingAssumption DEF TypeOK, Times, None
<1>1. CASE Tick \/ UNCHANGED vars
  BY <1>1 DEF Tick, vars, row, locks, proc
<1>2. CASE CommitWrite \/ CommitReset \/ AbortWrite
  <2>1. writer # NoWrite => writer.proc \in Procs /\ writer.token \in Nat /\ writer.at \in Nat
    BY DEF Write
  <2>2. writer' = NoWrite /\ UNCHANGED <<now, owner, fencing, locks, backends, replies, releases>>
    BY <1>2 DEF CommitWrite, CommitReset, AbortWrite, row
  <2>3. writer # NoWrite /\ UNCHANGED <<down, held, anchor, watch, sent>>
    BY <1>2 DEF CommitWrite, CommitReset, AbortWrite, proc
  <2>4. expires' \in Nat
    BY <1>2, <2>1 DEF CommitWrite, CommitReset, AbortWrite, row
  <2>5. log' = log \/ log' = Append(log, writer.token)
    BY <1>2 DEF CommitWrite, CommitReset, AbortWrite
  <2>6. log \in Seq(Nat)
    OBVIOUS
  <2> HIDE DEF TypeOK
  <2>7. log' \in Seq(Nat)
    BY <2>1, <2>3, <2>5, <2>6
  <2> USE DEF TypeOK
  <2>8. \/ pc' = pc \/ pc' = [pc EXCEPT ![writer.proc] = "dropped"]
        \/ pc' = [pc EXCEPT ![writer.proc] = "dropping"]
    BY <1>2 DEF CommitWrite, CommitReset, AbortWrite, proc
  <2>9. pc' \in [Procs -> States]
    BY <2>8 DEF States
  <2>10. requests' \subseteq Request
    BY <1>2, <2>1 DEF CommitWrite, CommitReset, AbortWrite, Request, Kinds
  <2> QED
    BY <2>2, <2>3, <2>4, <2>7, <2>9, <2>10 DEF locks
<1>3. ASSUME NEW r \in requests, AssertLease(r) PROVE TypeOK'
  <2>1. r.proc \in Procs /\ r.token \in Nat /\ r.kind \in Kinds
    BY DEF Request
  <2>2. writer' \in Write \cup {NoWrite}
    BY <1>3, <2>1 DEF AssertLease, Write
  <2> QED
    BY <1>3, <2>2 DEF AssertLease, row, locks, proc
<1>4. ASSUME NEW b \in backends, RenewLock(b) \/ RenewCommit(b) \/ RenewAbort(b) PROVE TypeOK'
  <2>1. b.proc \in Procs /\ b.token \in Nat /\ b.sent \in Nat /\ b.at \in Times
    BY DEF Backend
  <2>2. CASE RenewLock(b)
    BY <2>2 DEF RenewLock, Backend, row, locks, proc
  <2>3. CASE RenewCommit(b)
    <3>1. b.at \in Nat
      BY <2>1, <2>3 DEF RenewCommit
    <3>2. expires' \in Nat
      BY <2>3, <3>1 DEF RenewCommit
    <3>3. replies' \subseteq Reply
      BY <2>1, <2>3 DEF RenewCommit, Reply
    <3> QED
      BY <2>3, <3>2, <3>3 DEF RenewCommit, locks, proc
  <2> QED
    BY <1>4, <2>2, <2>3 DEF RenewAbort, row, locks, proc
<1>5. ASSUME NEW r \in replies, Renewed(r) PROVE TypeOK'
  <2>1. r.proc \in Procs /\ r.token \in Nat /\ r.sent \in Nat
    BY DEF Reply
  <2>2. Deadline(r.sent) \in Nat
    BY <2>1 DEF Deadline
  <2>3. held' = [held EXCEPT ![r.proc] = r.token] \/ held' = [held EXCEPT ![r.proc] = 0]
    BY <1>5 DEF Renewed
  <2>7. held \in [Procs -> Nat]
    OBVIOUS
  <2> HIDE DEF TypeOK
  <2>4. held' \in [Procs -> Nat]
    BY <2>1, <2>3, <2>7
  <2> USE DEF TypeOK
  <2>5. watch' \in [Procs -> Times]
    BY <1>5, <2>1, <2>2 DEF Renewed
  <2>6. sent' \in [Procs -> Times]
    BY <1>5, <2>1 DEF Renewed
  <2> QED
    BY <1>5, <2>4, <2>5, <2>6 DEF Renewed, row, locks
<1>6. ASSUME NEW p \in Procs, Take(p) PROVE TypeOK'
  <2>1. locker.at \in Nat
    BY DEF NoLock
  <2>2. owner' \in Procs \cup {NoProc} /\ fencing' \in Nat /\ expires' \in Nat
    BY <1>6, <2>1 DEF Take, row
  <2>3. pc' \in [Procs -> States] /\ held' \in [Procs -> Nat]
    BY <1>6, <2>2 DEF Take, States
  <2> QED
    BY <1>6, <2>2, <2>3 DEF Take
<1>7. ASSUME NEW p \in Procs, Hold(p) \/ IssueWrite(p) PROVE TypeOK'
  <2>1. requests' \subseteq Request
    BY <1>7 DEF Hold, IssueWrite, Request, Kinds
  <2>2. pc' \in [Procs -> States] /\ anchor' \in [Procs -> Nat]
    BY <1>7 DEF Hold, IssueWrite, States, proc
  <2> QED
    BY <1>7, <2>1, <2>2 DEF Hold, IssueWrite, row, locks, proc
<1>8. ASSUME NEW p \in Procs, RenewSend(p) PROVE TypeOK'
  <2>1. backends' \subseteq Backend
    BY <1>8 DEF RenewSend, Backend
  <2> QED
    BY <1>8, <2>1 DEF RenewSend, row, locks
<1>9. ASSUME NEW p \in Procs, Acquire(p) \/ LockForUpdate(p) PROVE TypeOK'
  <2>1. CASE Acquire(p)
    BY <2>1 DEF Acquire, States, row
  <2>2. CASE LockForUpdate(p)
    BY <2>2 DEF LockForUpdate, row, proc
  <2> QED
    BY <1>9, <2>1, <2>2
<1>10. ASSUME NEW p \in Procs, StartupFails(p) \/ Crash(p) PROVE TypeOK'
  <2>3. Exit(p)
    BY <1>10 DEF StartupFails, Crash
  <2>4. pc' \in [Procs -> States] /\ down' \in [Procs -> Downs]
    BY <2>3 DEF Exit, States, Downs
  <2>5. held' \in [Procs -> Nat] /\ anchor' \in [Procs -> Nat]
    BY <2>3 DEF Exit
  <2>6. watch' \in [Procs -> Times] /\ sent' \in [Procs -> Times] /\ replies' \subseteq Reply
    BY <2>3 DEF Exit
  <2>2. releases' \subseteq Token
    BY <1>10 DEF StartupFails, Crash, Token
  <2> QED
    BY <1>10, <2>2, <2>4, <2>5, <2>6 DEF StartupFails, Crash, row, locks
<1>11. ASSUME NEW p \in Procs,
              Start(p) \/ RenewFailed(p) \/ Watchdog(p) \/ Stop(p) \/ Release(p)
       PROVE TypeOK'
  <2>1. /\ UNCHANGED <<now, owner, fencing, expires, takers, locker, requests, writer,
                       backends, log, anchor>>
        /\ replies' \subseteq replies
    BY <1>11 DEF Start, RenewFailed, Watchdog, Stop, Release, row, locks
  <2>2. pc' \in [Procs -> States]
    BY <1>11 DEF Start, RenewFailed, Watchdog, Stop, Release, States
  <2>7. held' \in [Procs -> Nat]
    <3>1. held' = held \/ held' = [held EXCEPT ![p] = 0]
      BY <1>11 DEF Start, RenewFailed, Watchdog, Stop, Release
    <3>2. held \in [Procs -> Nat]
      OBVIOUS
    <3> HIDE DEF TypeOK
    <3> QED
      BY <3>1, <3>2
  <2>5. down' \in [Procs -> Downs]
    <3>1. \/ down' = down \/ down' = [down EXCEPT ![p] = "stopped"]
          \/ down' = [down EXCEPT ![p] = "releasing"]
      BY <1>11 DEF Start, RenewFailed, Watchdog, Stop, Release
    <3> QED
      BY <3>1 DEF Downs
  <2>6. Deadline(anchor[p]) \in Nat
    BY DEF Deadline
  <2>3. watch' \in [Procs -> Times] /\ sent' \in [Procs -> Times]
    BY <1>11, <2>6 DEF Start, RenewFailed, Watchdog, Stop, Release
  <2>4. releases' \subseteq Token
    BY <1>11 DEF Start, RenewFailed, Watchdog, Stop, Release, Token
  <2> QED
    BY <2>1, <2>2, <2>3, <2>4, <2>5, <2>7
<1>12. ASSUME NEW r \in releases, ReleaseCommit(r) PROVE TypeOK'
  <2>1. expires' \in Nat /\ releases' \subseteq Token
    BY <1>12 DEF ReleaseCommit
  <2>2. down' \in [Procs -> Downs]
    BY <1>12 DEF ReleaseCommit, Downs
  <2> QED
    BY <1>12, <2>1, <2>2 DEF ReleaseCommit, locks
<1> QED
  BY <1>1, <1>2, <1>3, <1>4, <1>5, <1>6, <1>7, <1>8, <1>9, <1>10, <1>11, <1>12 DEF Next

(* The row locks: no step changes the row under a fenced write, except its *)
(* expiry (#assertLease, #acquire, #renew).                                *)
LEMMA LockStep ==
    ASSUME TypeOK, LockInv, [Next]_vars
    PROVE  LockInv'
<1> USE DEF LockInv, None
<1>1. CASE Tick \/ UNCHANGED vars
  BY <1>1 DEF Tick, vars, row, locks
<1>2. CASE CommitWrite \/ CommitReset \/ AbortWrite
  BY <1>2 DEF CommitWrite, CommitReset, AbortWrite, row, locks
<1>3. ASSUME NEW r \in requests, AssertLease(r) PROVE LockInv'
  BY <1>3 DEF AssertLease, MayWrite, row, locks
<1>4. ASSUME NEW b \in backends, RenewLock(b) \/ RenewCommit(b) \/ RenewAbort(b)
      PROVE LockInv'
  <2>1. CASE RenewLock(b)
    <3> DEFINE c == [b EXCEPT !.at = now]
    <3>1. backends' = (backends \ {b}) \cup {c} /\ UNCHANGED <<owner, fencing, locker, writer>>
      BY <2>1 DEF RenewLock, row, locks
    <3>2. locker = NoLock /\ \A d \in backends : d.at = None
      BY <2>1 DEF RenewLock, RowLocked
    <3> HIDE DEF c
    <3> QED
      BY <3>1, <3>2
  <2>2. CASE RenewCommit(b) \/ RenewAbort(b)
    BY <2>2 DEF RenewCommit, RenewAbort, row, locks
  <2> QED
    BY <1>4, <2>1, <2>2
<1>5. ASSUME NEW r \in replies, Renewed(r) PROVE LockInv'
  BY <1>5 DEF Renewed, row, locks
<1>6. ASSUME NEW p \in Procs, LockForUpdate(p) \/ Take(p) PROVE LockInv'
  <2>1. CASE LockForUpdate(p)
    BY <2>1 DEF LockForUpdate, MayTake, RowLocked, row, locks
  <2>2. CASE Take(p)
    <3>1. locker # NoLock
      BY <2>2, NoProcAssumption DEF Take, NoLock
    <3> QED
      BY <2>2, <3>1 DEF Take
  <2> QED
    BY <1>6, <2>1, <2>2
<1>7. ASSUME NEW p \in Procs, RenewSend(p) PROVE LockInv'
  BY <1>7 DEF RenewSend, row, locks
<1>8. ASSUME NEW p \in Procs,
             \/ Acquire(p) \/ Hold(p) \/ IssueWrite(p) \/ StartupFails(p) \/ Start(p)
             \/ RenewFailed(p) \/ Watchdog(p) \/ Stop(p) \/ Release(p) \/ Crash(p)
      PROVE LockInv'
  <2>1. UNCHANGED <<owner, fencing, locker, writer, backends>>
    BY <1>8 DEF Acquire, Hold, IssueWrite, StartupFails, Start, RenewFailed, Watchdog,
                Stop, Release, Crash, row, locks
  <2> QED
    BY <2>1
<1>9. ASSUME NEW r \in releases, ReleaseCommit(r) PROVE LockInv'
  BY <1>9 DEF ReleaseCommit, row, locks
<1> QED
  BY <1>1, <1>2, <1>3, <1>4, <1>5, <1>6, <1>7, <1>8, <1>9 DEF Next

(* Clock readings stay in order, and a row locked by a renewal expires at  *)
(* most Ttl after it was locked, so that a renewal never shortens a lease. *)
LEMMA ClockStep ==
    ASSUME TypeOK, LockInv, ClockInv, [Next]_vars
    PROVE  ClockInv'
<1> USE TimingAssumption DEF ClockInv, None
<1>0. /\ now \in Nat /\ expires \in Nat /\ anchor \in [Procs -> Nat]
      /\ writer.at \in Nat /\ locker.at \in Nat
      /\ \A b \in backends : b.sent \in Nat /\ b.at \in Nat \cup {None}
  <2>1. now \in Nat /\ expires \in Nat /\ anchor \in [Procs -> Nat]
    BY DEF TypeOK
  <2>2. writer.at \in Nat /\ locker.at \in Nat
    BY DEF TypeOK, Write, NoWrite, NoLock
  <2>3. \A b \in backends : b.sent \in Nat /\ b.at \in Nat \cup {None}
    BY DEF TypeOK, Backend, Times
  <2> QED
    BY <2>1, <2>2, <2>3
<1>1. CASE Tick
  <2>1. now' = now + 1 /\ UNCHANGED <<expires, anchor, writer, backends>>
    BY <1>1 DEF Tick, row, proc
  <2> QED
    BY <1>0, <2>1
<1>2. CASE CommitReset
  <2>1. PICK t \in writer.at .. now : expires' = t + Ttl
    BY <1>2 DEF CommitReset
  <2>2. \A b \in backends : b.at = None
    BY <1>2 DEF CommitReset, RowLocked
  <2>3. writer' = NoWrite /\ UNCHANGED <<now, anchor, backends>>
    BY <1>2 DEF CommitReset
  <2> QED
    BY <1>0, <2>1, <2>2, <2>3 DEF NoWrite
<1>3. ASSUME NEW r \in requests, AssertLease(r) PROVE ClockInv'
  <2>1. (writer' = NoWrite \/ writer'.at = now) /\ UNCHANGED <<now, expires, anchor, backends>>
    BY <1>3 DEF AssertLease, row, proc
  <2> QED
    BY <1>0, <2>1 DEF NoWrite
<1>4. ASSUME NEW b \in backends, RenewLock(b) PROVE ClockInv'
  <2> DEFINE c == [b EXCEPT !.at = now]
  <2>1. c.at = now /\ c.sent = b.sent
    BY DEF TypeOK, Backend
  <2>2. backends' = (backends \ {b}) \cup {c} /\ UNCHANGED <<now, expires, anchor, writer>>
    BY <1>4 DEF RenewLock, row, proc
  <2> HIDE DEF c
  <2> QED
    BY <1>0, <2>1, <2>2
<1>5. ASSUME NEW b \in backends, RenewCommit(b) PROVE ClockInv'
  <2>1. \A d \in backends' : d \in backends /\ d.at = None
    BY <1>5 DEF RenewCommit, LockInv
  <2>2. expires' <= now + Ttl /\ UNCHANGED <<now, anchor, writer>>
    BY <1>0, <1>5 DEF RenewCommit, proc
  <2> QED
    BY <1>0, <2>1, <2>2
<1>6. ASSUME NEW p \in Procs, Take(p) PROVE ClockInv'
  <2>1. \A b \in backends : b.at = None
    BY <1>6, NoProcAssumption DEF Take, NoLock, LockInv
  <2>2. expires' <= now + Ttl /\ UNCHANGED <<now, anchor, writer, backends>>
    BY <1>0, <1>6 DEF Take, row
  <2> QED
    BY <1>0, <2>1, <2>2
<1>7. ASSUME NEW p \in Procs, Hold(p) \/ StartupFails(p) \/ Crash(p) PROVE ClockInv'
  <2>1. /\ anchor' = [anchor EXCEPT ![p] = now] \/ anchor' = [anchor EXCEPT ![p] = 0]
        /\ UNCHANGED <<now, expires, writer, backends>>
    BY <1>7 DEF Hold, StartupFails, Crash, Exit, row
  <2> QED
    BY <1>0, <2>1
<1>8. ASSUME NEW p \in Procs, RenewSend(p) PROVE ClockInv'
  <2>1. /\ \A b \in backends' : b \in backends \/ (b.sent = now /\ b.at = None)
        /\ UNCHANGED <<now, expires, anchor, writer>>
    BY <1>8 DEF RenewSend, row
  <2> QED
    BY <1>0, <2>1
<1>9. ASSUME NEW r \in releases, ReleaseCommit(r) PROVE ClockInv'
  <2>1. (expires' = expires \/ expires' = 0) /\ UNCHANGED <<now, anchor, writer, backends>>
    BY <1>9 DEF ReleaseCommit
  <2> QED
    BY <1>0, <2>1
<1>10. CASE /\ backends' \subseteq backends /\ (writer' = writer \/ writer' = NoWrite)
            /\ UNCHANGED <<now, expires, anchor>>
  BY <1>0, <1>10 DEF NoWrite
<1> QED
  <2>1. CASE CommitWrite \/ AbortWrite \/ UNCHANGED vars
    BY <1>10, <2>1 DEF CommitWrite, AbortWrite, vars, row, proc
  <2>2. ASSUME NEW b \in backends, RenewAbort(b) PROVE ClockInv'
    BY <1>10, <2>2 DEF RenewAbort, row, proc
  <2>3. ASSUME NEW r \in replies, Renewed(r) PROVE ClockInv'
    BY <1>10, <2>3 DEF Renewed, row
  <2>4. ASSUME NEW p \in Procs,
               \/ Acquire(p) \/ LockForUpdate(p) \/ IssueWrite(p) \/ Start(p)
               \/ RenewFailed(p) \/ Watchdog(p) \/ Stop(p) \/ Release(p)
        PROVE ClockInv'
    BY <1>10, <2>4 DEF Acquire, LockForUpdate, IssueWrite, Start, RenewFailed, Watchdog,
                       Stop, Release, row, proc
  <2> QED
    BY <1>1, <1>2, <1>3, <1>4, <1>5, <1>6, <1>7, <1>8, <1>9, <2>1, <2>2, <2>3, <2>4 DEF Next

(* A process that waits for the row has done nothing else yet.             *)
LEMMA TakerStep ==
    ASSUME TypeOK, TakerInv, [Next]_vars
    PROVE  TakerInv'
<1> USE NoProcAssumption DEF TakerInv
<1>0. pc \in [Procs -> States] /\ takers \subseteq Procs
  BY DEF TypeOK
<1>1. CASE Tick \/ AbortWrite \/ UNCHANGED vars
  BY <1>1 DEF Tick, AbortWrite, vars, locks, proc
<1>2. CASE CommitWrite \/ CommitReset
  <2>1. writer.proc \in Procs
    BY <1>2 DEF CommitWrite, CommitReset, TypeOK, Write
  <2> QED
    BY <1>0, <1>2, <2>1 DEF CommitWrite, CommitReset, locks
<1>3. ASSUME NEW r \in requests, AssertLease(r) PROVE TakerInv'
  BY <1>3 DEF AssertLease, locks, proc
<1>4. ASSUME NEW b \in backends, RenewLock(b) \/ RenewCommit(b) \/ RenewAbort(b)
      PROVE TakerInv'
  BY <1>4 DEF RenewLock, RenewCommit, RenewAbort, locks, proc
<1>5. ASSUME NEW r \in replies, Renewed(r) PROVE TakerInv'
  BY <1>5 DEF Renewed, locks
<1>6. ASSUME NEW p \in Procs, Acquire(p) \/ LockForUpdate(p) \/ Take(p) PROVE TakerInv'
  <2>1. CASE Acquire(p)
    BY <1>0, <2>1 DEF Acquire
  <2>2. CASE LockForUpdate(p)
    BY <1>0, <2>2 DEF LockForUpdate, proc
  <2>3. CASE Take(p)
    BY <1>0, <2>3 DEF Take, NoLock
  <2> QED
    BY <1>6, <2>1, <2>2, <2>3
<1>7. ASSUME NEW p \in Procs,
             \/ Hold(p) \/ IssueWrite(p) \/ StartupFails(p) \/ Start(p)
             \/ RenewSend(p) \/ RenewFailed(p) \/ Watchdog(p)
             \/ Stop(p) \/ Release(p) \/ Crash(p)
      PROVE TakerInv'
  BY <1>0, <1>7 DEF Hold, IssueWrite, StartupFails, Start, Exit, RenewSend, RenewFailed,
                    Watchdog, Stop, Release, Crash, locks, proc
<1>8. ASSUME NEW r \in releases, ReleaseCommit(r) PROVE TakerInv'
  BY <1>8 DEF ReleaseCommit, locks
<1> QED
  BY <1>1, <1>2, <1>3, <1>4, <1>5, <1>6, <1>7, <1>8 DEF Next

(* A quiet process stays quiet, unless its reset commits.                  *)
LEMMA QuietStep ==
    ASSUME TypeOK, TimerInv, NEW p \in Procs, NEW token \in Nat,
           Quiet(p, token), [Next]_vars,
           ~(CommitReset /\ writer.proc = p)
    PROVE  Quiet(p, token)'
<1> USE DEF Quiet
<1>0. /\ pc \in [Procs -> States] /\ held \in [Procs -> Nat]
      /\ watch[p] = None /\ \A a \in replies : a.proc # p
  BY DEF TypeOK, TimerInv
<1>1. CASE Tick \/ AbortWrite \/ UNCHANGED vars
  BY <1>1 DEF Tick, AbortWrite, vars, proc
<1>2. CASE CommitWrite \/ CommitReset
  <2>1. writer.proc \in Procs
    BY <1>2 DEF CommitWrite, CommitReset, TypeOK, Write
  <2> QED
    BY <1>0, <1>2, <2>1 DEF CommitWrite, CommitReset
<1>3. ASSUME NEW r \in requests, AssertLease(r) PROVE Quiet(p, token)'
  BY <1>3 DEF AssertLease, proc
<1>4. ASSUME NEW b \in backends, RenewLock(b) \/ RenewCommit(b) \/ RenewAbort(b)
      PROVE Quiet(p, token)'
  BY <1>4 DEF RenewLock, RenewCommit, RenewAbort, proc
<1>5. ASSUME NEW r \in replies, Renewed(r) PROVE Quiet(p, token)'
  <2>1. r.proc # p
    BY <1>0
  <2>2. pc' = pc /\ held'[p] = held[p]
    BY <1>0, <1>5, <2>1 DEF Renewed
  <2> QED
    BY <2>2
<1>6. ASSUME NEW q \in Procs,
             \/ Acquire(q) \/ LockForUpdate(q) \/ Take(q) \/ Hold(q)
             \/ IssueWrite(q) \/ StartupFails(q) \/ Start(q)
      PROVE Quiet(p, token)'
  <2>1. CASE Take(q)
    BY <1>0, <2>1 DEF Take
  <2> QED
    BY <1>0, <1>6, <2>1
    DEF Acquire, LockForUpdate, Hold, IssueWrite, StartupFails, Start, Exit, proc
<1>7. ASSUME NEW q \in Procs,
             \/ RenewSend(q) \/ RenewFailed(q) \/ Watchdog(q)
             \/ Stop(q) \/ Release(q) \/ Crash(q)
      PROVE Quiet(p, token)'
  BY <1>0, <1>7 DEF RenewSend, RenewFailed, Watchdog, Stop, Release, Crash, Exit
<1>8. ASSUME NEW r \in releases, ReleaseCommit(r) PROVE Quiet(p, token)'
  BY <1>8 DEF ReleaseCommit
<1> QED
  BY <1>1, <1>2, <1>3, <1>4, <1>5, <1>6, <1>7, <1>8 DEF Next

(* Timers and replies belong to a process that has started, and releases   *)
(* to one that drains or has exited.                                       *)
LEMMA TimerStep ==
    ASSUME TypeOK, TakerInv, TimerInv, [Next]_vars
    PROVE  TimerInv'
<1> USE DEF TimerInv, None
<1>0. /\ pc \in [Procs -> States] /\ down \in [Procs -> Downs]
      /\ watch \in [Procs -> Times] /\ sent \in [Procs -> Times]
      /\ \A a \in replies : a.proc \in Procs
      /\ \A a \in releases : a.proc \in Procs
  BY DEF TypeOK, Reply, Token
<1>1. CASE Tick \/ AbortWrite \/ UNCHANGED vars
  BY <1>1 DEF Tick, AbortWrite, vars, proc
<1>2. CASE CommitWrite \/ CommitReset
  <2>1. writer.proc \in Procs
    BY <1>2 DEF CommitWrite, CommitReset, TypeOK, Write
  <2> QED
    BY <1>0, <1>2, <2>1 DEF CommitWrite, CommitReset
<1>3. ASSUME NEW r \in requests, AssertLease(r) PROVE TimerInv'
  BY <1>3 DEF AssertLease, proc
<1>4. ASSUME NEW b \in backends, RenewLock(b) \/ RenewCommit(b) \/ RenewAbort(b)
      PROVE TimerInv'
  <2>1. b.sent # None /\ b.proc \in Procs
    BY DEF TypeOK, Backend
  <2>2. CASE RenewCommit(b)
    BY <1>0, <2>1, <2>2 DEF RenewCommit, proc
  <2> QED
    BY <1>4, <2>2 DEF RenewLock, RenewAbort, proc
<1>5. ASSUME NEW r \in replies, Renewed(r) PROVE TimerInv'
  <2>1. r.proc \in Procs /\ pc[r.proc] = "started"
    BY <1>0
  <2> QED
    BY <1>0, <1>5, <2>1 DEF Renewed
<1>6. ASSUME NEW p \in Procs, Take(p) PROVE TimerInv'
  BY <1>0, <1>6 DEF Take, TakerInv
<1>7. ASSUME NEW p \in Procs,
             \/ Acquire(p) \/ LockForUpdate(p) \/ Hold(p) \/ IssueWrite(p) \/ Start(p)
      PROVE TimerInv'
  BY <1>0, <1>7 DEF Acquire, LockForUpdate, Hold, IssueWrite, Start, proc
<1>8. ASSUME NEW p \in Procs, RenewSend(p) \/ RenewFailed(p) \/ Watchdog(p) PROVE TimerInv'
  BY <1>0, <1>8 DEF RenewSend, RenewFailed, Watchdog
<1>9. ASSUME NEW p \in Procs, Stop(p) PROVE TimerInv'
  BY <1>0, <1>9 DEF Stop
<1>10. ASSUME NEW p \in Procs, Release(p) PROVE TimerInv'
  <2>1. /\ pc' = pc /\ down' = [down EXCEPT ![p] = "releasing"] /\ down[p] = "stopped"
        /\ UNCHANGED <<watch, sent, replies>>
        /\ \A r \in releases' : r \in releases \/ r.proc = p
    BY <1>10 DEF Release
  <2>2. pc[p] \notin {"idle", "acquiring", "granted", "resetting", "gone"}
    BY <1>10, <2>1 DEF Release, ResetAwaited
  <2> QED
    BY <1>0, <2>1, <2>2
<1>11. ASSUME NEW p \in Procs, StartupFails(p) \/ Crash(p) PROVE TimerInv'
  <2>1. /\ pc' = [pc EXCEPT ![p] = "gone"] /\ down' = [down EXCEPT ![p] = "no"]
        /\ watch' = [watch EXCEPT ![p] = None] /\ sent' = [sent EXCEPT ![p] = None]
        /\ replies' = {r \in replies : r.proc # p}
        /\ \A r \in releases' : r \in releases \/ r.proc = p
    BY <1>11 DEF StartupFails, Crash, Exit
  <2> QED
    BY <1>0, <2>1
<1>12. ASSUME NEW r \in releases, ReleaseCommit(r) PROVE TimerInv'
  <2>1. /\ UNCHANGED <<pc, watch, sent, replies>> /\ releases' \subseteq releases
        /\ \/ down' = down
           \/ down' = [down EXCEPT ![r.proc] = "released"] /\ pc[r.proc] # "gone"
    BY <1>12 DEF ReleaseCommit
  <2>2. pc[r.proc] # "gone" => pc[r.proc] \notin {"idle", "acquiring", "granted", "resetting"}
    BY <1>0
  <2> QED
    BY <1>0, <2>1, <2>2
<1> QED
  BY <1>1, <1>2, <1>3, <1>4, <1>5, <1>6, <1>7, <1>8, <1>9, <1>10, <1>11, <1>12 DEF Next

(* A reset finds its process quiet, and is its only reset.                 *)
LEMMA ResetStep ==
    ASSUME TypeOK, LockInv, ClockInv, TimerInv, ResetInv, [Next]_vars
    PROVE  ResetInv'
<1>0. /\ \A r \in Resets : r.proc \in Procs /\ r.token \in Nat
      /\ writer.kind = "reset" => writer.proc \in Procs /\ writer.token \in Nat
      /\ pc \in [Procs -> States] /\ anchor \in [Procs -> Nat]
  BY DEF TypeOK, Resets, Request, Write, NoWrite
<1>1. ASSUME NEW p \in Procs, Hold(p) PROVE ResetInv'
  <2> DEFINE n == [proc |-> p, token |-> held[p], kind |-> "reset"]
  <2>1. Resets' = Resets \cup {n}
    BY <1>1 DEF Hold, Resets
  <2>2. \A r \in Resets : r.proc # p
    BY <1>1 DEF Hold, ResetInv, Quiet
  <2>3. ~(writer.kind = "reset" /\ writer.proc = p)
    BY <1>1 DEF Hold, ResetInv, Quiet
  <2>4. /\ UNCHANGED <<writer, held>>
        /\ \A q \in Procs : q # p => pc'[q] = pc[q] /\ anchor'[q] = anchor[q]
        /\ pc'[p] = "resetting"
    BY <1>0, <1>1 DEF Hold
  <2>5. n.proc = p /\ n.token = held[p]
    OBVIOUS
  <2> HIDE DEF n
  <2>6. (\A r \in Resets : Quiet(r.proc, r.token))'
    BY <1>0, <2>1, <2>2, <2>4, <2>5 DEF Quiet, ResetInv
  <2>7. (\A r, q \in Resets : r.proc = q.proc => r = q)'
    BY <2>1, <2>2, <2>5 DEF ResetInv
  <2>8. (writer.kind = "reset" =>
            /\ Quiet(writer.proc, writer.token)
            /\ \A r \in Resets : r.proc # writer.proc
            /\ pc[writer.proc] = "resetting" => anchor[writer.proc] <= writer.at)'
    BY <1>0, <2>1, <2>3, <2>4, <2>5 DEF ResetInv, Quiet
  <2> QED
    BY <2>6, <2>7, <2>8 DEF ResetInv
<1>2. ASSUME NEW r \in requests, AssertLease(r) PROVE ResetInv'
  <2>1. Resets' = Resets \ {r} /\ UNCHANGED <<pc, held, anchor>>
    BY <1>2 DEF AssertLease, Resets, proc
  <2>2. \/ writer' = NoWrite
        \/ /\ writer'.proc = r.proc /\ writer'.token = r.token
           /\ writer'.kind = r.kind /\ writer'.at = now
    BY <1>2 DEF AssertLease
  <2>3. (\A q \in Resets : Quiet(q.proc, q.token))'
    BY <2>1 DEF Quiet, ResetInv
  <2>4. ASSUME writer'.kind = "reset"
        PROVE  /\ Quiet(writer.proc, writer.token)'
               /\ \A q \in Resets' : q.proc # writer'.proc
               /\ anchor'[writer'.proc] <= writer'.at
    <3>1. r \in Resets /\ writer'.proc = r.proc /\ writer'.token = r.token /\ writer'.at = now
      BY <2>2, <2>4 DEF NoWrite, Resets
    <3>2. Quiet(writer.proc, writer.token)'
      BY <2>1, <3>1 DEF Quiet, ResetInv
    <3> QED
      BY <1>0, <2>1, <3>1, <3>2 DEF ResetInv, ClockInv
  <2> QED
    BY <2>1, <2>3, <2>4 DEF ResetInv
<1>3. CASE CommitReset
  <2>1. \A r \in Resets : r.proc # writer.proc
    BY <1>3 DEF CommitReset, ResetInv
  <2>2. \A r \in Resets : Quiet(r.proc, r.token)'
    BY <1>0, <2>1, QuietStep DEF ResetInv
  <2>3. writer' = NoWrite /\ Resets' = Resets
    BY <1>3 DEF CommitReset, Resets
  <2> QED
    BY <2>2, <2>3 DEF ResetInv, Quiet, NoWrite
<1>4. CASE /\ ~CommitReset /\ Resets' = Resets
           /\ \/ writer' = NoWrite
              \/ writer' = writer /\ \A p \in Procs : pc'[p] = "resetting" =>
                                        pc[p] = "resetting" /\ anchor'[p] = anchor[p]
  <2>1. \A r \in Resets : Quiet(r.proc, r.token)'
    BY <1>0, <1>4, QuietStep DEF ResetInv
  <2>2. \A q, tok : writer.kind = "reset" /\ q = writer.proc /\ tok = writer.token => Quiet(q, tok)'
    BY <1>0, <1>4, QuietStep DEF ResetInv
  <2>3. (\A r \in Resets : Quiet(r.proc, r.token))'
    BY <1>4, <2>1 DEF Quiet
  <2>4. CASE writer' = NoWrite
    BY <1>4, <2>3, <2>4 DEF ResetInv, NoWrite
  <2>5. CASE writer' = writer /\ \A p \in Procs : pc'[p] = "resetting" =>
                                   pc[p] = "resetting" /\ anchor'[p] = anchor[p]
    BY <1>0, <1>4, <2>2, <2>3, <2>5 DEF ResetInv, Quiet
  <2> QED
    BY <1>4, <2>4, <2>5
<1>5. ASSUME ~CommitReset PROVE
        \/ \E p \in Procs : Hold(p)
        \/ \E r \in requests : AssertLease(r)
        \/ /\ Resets' = Resets
           /\ \/ writer' = NoWrite
              \/ writer' = writer /\ \A p \in Procs : pc'[p] = "resetting" =>
                                        pc[p] = "resetting" /\ anchor'[p] = anchor[p]
  <2>1. CASE Tick \/ UNCHANGED vars
    BY <2>1 DEF Tick, Resets, vars, proc
  <2>2. CASE CommitWrite \/ AbortWrite
    BY <2>2 DEF CommitWrite, AbortWrite, Resets
  <2>3. ASSUME NEW b \in backends, RenewLock(b) \/ RenewCommit(b) \/ RenewAbort(b)
        PROVE Resets' = Resets /\ UNCHANGED <<writer, pc, anchor>>
    BY <2>3 DEF RenewLock, RenewCommit, RenewAbort, Resets, proc
  <2>4. ASSUME NEW r \in replies, Renewed(r)
        PROVE Resets' = Resets /\ UNCHANGED <<writer, pc, anchor>>
    BY <2>4 DEF Renewed, Resets
  <2>5. ASSUME NEW q \in Procs, IssueWrite(q)
        PROVE Resets' = Resets /\ UNCHANGED <<writer, pc, anchor>>
    BY <2>5 DEF IssueWrite, Resets, proc
  <2>6. ASSUME NEW q \in Procs, StartupFails(q) \/ Crash(q)
        PROVE /\ Resets' = Resets /\ UNCHANGED <<writer>>
              /\ \A p \in Procs : pc'[p] = "resetting" =>
                    pc[p] = "resetting" /\ anchor'[p] = anchor[p]
    BY <1>0, <2>6 DEF StartupFails, Crash, Exit, Resets
  <2>7. ASSUME NEW q \in Procs,
               \/ Acquire(q) \/ LockForUpdate(q) \/ Take(q) \/ Start(q)
               \/ RenewSend(q) \/ RenewFailed(q) \/ Watchdog(q) \/ Stop(q) \/ Release(q)
        PROVE /\ Resets' = Resets /\ UNCHANGED <<writer, anchor>>
              /\ \A p \in Procs : pc'[p] = "resetting" => pc[p] = "resetting"
    BY <1>0, <2>7 DEF Acquire, LockForUpdate, Take, Start, RenewSend, RenewFailed, Watchdog,
                      Stop, Release, Resets, proc
  <2>8. ASSUME NEW r \in releases, ReleaseCommit(r)
        PROVE Resets' = Resets /\ UNCHANGED <<writer, pc, anchor>>
    BY <2>8 DEF ReleaseCommit, Resets
  <2> QED
    BY <1>5, <2>1, <2>2, <2>3, <2>4, <2>5, <2>6, <2>7, <2>8 DEF Next
<1> QED
  BY <1>1, <1>2, <1>3, <1>4, <1>5

(* What the watchdog counts on stays true while its process keeps the      *)
(* lease: only an expired row is taken, only a release of its own shortens *)
(* it, and a renewal or a reset only extends it.                           *)
LEMMA FreshStep ==
    ASSUME TypeOK, LockInv, ClockInv, TakerInv, ResetInv, TimerInv, FreshInv, [Next]_vars
    PROVE  FreshInv'
<1> USE TimingAssumption DEF FreshInv, Lasts, None
<1>0. /\ now \in Nat /\ expires \in Nat /\ fencing \in Nat
      /\ pc \in [Procs -> States] /\ down \in [Procs -> Downs]
      /\ held \in [Procs -> Nat] /\ anchor \in [Procs -> Nat]
      /\ watch \in [Procs -> Nat \cup {None}]
      /\ \A a \in replies : a.proc \in Procs /\ a.sent \in Nat
  BY DEF TypeOK, Times, Reply
<1>a. \A p \in Procs : watch[p] # None => pc[p] = "started"
  BY DEF TimerInv
<1>b. \A a \in replies : pc[a.proc] = "started"
  BY DEF TimerInv
\* A step that leaves the row alone, and takes nobody's release back.
<1>1. ASSUME UNCHANGED <<now, owner, fencing, expires>> /\ replies' \subseteq replies,
             \A p \in Procs :
                \/ /\ Keeps(p)' => Keeps(p)
                   /\ held'[p] = held[p] /\ anchor'[p] = anchor[p]
                   /\ watch'[p] = watch[p] \/ watch'[p] = None
                   /\ pc'[p] \in {"dropping", "dropped"} => pc[p] \in {"dropping", "dropped"}
                \/ /\ watch'[p] = None /\ pc'[p] \notin {"dropping", "dropped"}
                   /\ (Keeps(p)' => Keeps(p)) \/ \A a \in replies' : a.proc # p
      PROVE  FreshInv'
  <2>1. \A p \in Procs : watch'[p] # None /\ Keeps(p)' =>
          (owner' = p /\ fencing' = held'[p] /\ expires' >= watch'[p] + Safety)
          \/ now' >= watch'[p] + Safety
    BY <1>0, <1>1
  <2>2. \A p \in Procs : pc'[p] \in {"dropping", "dropped"} /\ Keeps(p)' =>
          (owner' = p /\ fencing' = held'[p] /\ expires' >= anchor'[p] + Ttl)
          \/ now' >= anchor'[p] + Ttl
    BY <1>0, <1>1
  <2>3. \A a \in replies' : a.ok /\ Keeps(a.proc)' =>
          (owner' = a.proc /\ fencing' = a.token /\ expires' >= a.sent + Ttl)
          \/ now' >= a.sent + Ttl
    BY <1>0, <1>1
  <2> QED
    BY <2>1, <2>2, <2>3 DEF Keeps
\* A step that changes the row, and no process.
<1>2. ASSUME UNCHANGED <<pc, held, anchor, watch>>, \A p \in Procs : Keeps(p)' => Keeps(p),
             now' \in Nat /\ now' >= now,
             \A p \in Procs, token, end \in Nat :
                Keeps(p)' /\ (watch[p] # None \/ pc[p] \in {"dropping", "dropped"}
                              \/ \E a \in replies : a.proc = p)
                /\ Lasts(p, token, end) => Lasts(p, token, end)',
             \A a \in replies' : a \in replies
                \/ (a.ok => owner' = a.proc /\ fencing' = a.token /\ expires' >= a.sent + Ttl)
      PROVE  FreshInv'
  <2> HIDE DEF Lasts
  <2>1. \A p \in Procs : watch[p] # None =>
          watch[p] + Safety \in Nat /\ held[p] \in Nat
    BY <1>0
  <2>2. \A p \in Procs : anchor[p] + Ttl \in Nat /\ held[p] \in Nat
    BY <1>0
  <2>3. \A p \in Procs : watch[p] # None /\ Keeps(p)' => Lasts(p, held[p], watch[p] + Safety)'
    BY <1>2, <2>1
  <2>4. \A p \in Procs : pc[p] \in {"dropping", "dropped"} /\ Keeps(p)' =>
          Lasts(p, held[p], anchor[p] + Ttl)'
    BY <1>2, <2>2
  <2>5. \A a \in replies' : a.ok /\ Keeps(a.proc)' => Lasts(a.proc, a.token, a.sent + Ttl)'
    <3> SUFFICES ASSUME NEW a \in replies', a.ok, Keeps(a.proc)'
                 PROVE  Lasts(a.proc, a.token, a.sent + Ttl)'
      OBVIOUS
    <3>1. CASE a \in replies
      <4>1. a.proc \in Procs /\ a.token \in Nat /\ a.sent + Ttl \in Nat
        BY <1>0, <3>1 DEF TypeOK, Reply
      <4> QED
        BY <1>2, <3>1, <4>1
    <3>2. CASE a \notin replies
      BY <1>2, <3>2 DEF Lasts
    <3> QED
      BY <3>1, <3>2
  <2> QED
    BY <1>2, <2>3, <2>4, <2>5 DEF Lasts
<1>3. CASE Tick
  <2>1. now' = now + 1 /\ UNCHANGED <<owner, fencing, expires, replies, pc, down, held, anchor, watch>>
    BY <1>3 DEF Tick, row, proc
  <2> QED
    BY <1>0, <1>2, <2>1 DEF Keeps
<1>4. CASE CommitReset
  <2> DEFINE w == writer.proc
  <2>1. /\ w \in Procs /\ writer.at \in Nat /\ owner = w /\ fencing = writer.token
        /\ pc[w] \in {"resetting", "gone"}
        /\ pc[w] = "resetting" => held[w] = writer.token /\ anchor[w] <= writer.at
    BY <1>4 DEF CommitReset, TypeOK, Write, LockInv, ResetInv, Quiet
  <2>2. PICK t \in writer.at .. now : expires' = t + Ttl
    BY <1>4 DEF CommitReset
  <2>3. UNCHANGED <<now, owner, fencing, replies, down, held, anchor, watch>>
    BY <1>4 DEF CommitReset
  <2>4. \A p \in Procs : p # w => pc'[p] = pc[p]
    BY <1>0, <1>4, <2>1 DEF CommitReset
  <2>5. pc'[w] \in {"dropping", "dropped"} => pc[w] = "resetting"
    BY <1>0, <1>4, <2>1 DEF CommitReset
  <2>6. watch[w] = None /\ \A a \in replies : a.proc # w
    BY <1>a, <1>b, <2>1
  <2> HIDE DEF w
  <2>7. \A p \in Procs : watch'[p] # None /\ Keeps(p)' =>
          (owner' = p /\ fencing' = held'[p] /\ expires' >= watch'[p] + Safety)
          \/ now' >= watch'[p] + Safety
    BY <1>0, <2>1, <2>3, <2>6 DEF Keeps
  <2>8. \A p \in Procs : pc'[p] \in {"dropping", "dropped"} /\ Keeps(p)' =>
          (owner' = p /\ fencing' = held'[p] /\ expires' >= anchor'[p] + Ttl)
          \/ now' >= anchor'[p] + Ttl
    BY <1>0, <2>1, <2>2, <2>3, <2>4, <2>5 DEF Keeps
  <2>9. \A a \in replies' : a.ok /\ Keeps(a.proc)' =>
          (owner' = a.proc /\ fencing' = a.token /\ expires' >= a.sent + Ttl)
          \/ now' >= a.sent + Ttl
    BY <1>0, <2>1, <2>3, <2>6 DEF Keeps
  <2> QED
    BY <2>7, <2>8, <2>9
<1>5. ASSUME NEW b \in backends, RenewCommit(b) PROVE FreshInv'
  <2>1. /\ b.at \in Nat /\ b.sent \in Nat /\ b.proc \in Procs
        /\ b.sent <= b.at /\ expires <= b.at + Ttl
    BY <1>5 DEF RenewCommit, TypeOK, Backend, Times, ClockInv
  <2>2. PICK t \in b.at .. now, ok \in BOOLEAN :
          /\ ok <=> owner = b.proc /\ fencing = b.token /\ expires > t
          /\ expires' = IF ok THEN t + Ttl ELSE expires
          /\ replies' = IF sent[b.proc] = b.sent
                        THEN replies \cup {[proc |-> b.proc, token |-> b.token,
                                            sent |-> b.sent, ok |-> ok]}
                        ELSE replies
    BY <1>5 DEF RenewCommit
  <2>3. UNCHANGED <<now, owner, fencing, pc, down, held, anchor, watch>>
    BY <1>5 DEF RenewCommit, proc
  <2>4. expires' >= expires /\ expires' \in Nat
    BY <1>0, <2>1, <2>2
  <2>5. ok => owner = b.proc /\ fencing = b.token /\ expires' >= b.sent + Ttl
    BY <1>0, <2>1, <2>2
  <2>6. \A a \in replies' : a \in replies \/
          (a.proc = b.proc /\ a.token = b.token /\ a.sent = b.sent /\ a.ok = ok)
    BY <2>2
  <2>7. \A a \in replies' : a \in replies
          \/ (a.ok => owner' = a.proc /\ fencing' = a.token /\ expires' >= a.sent + Ttl)
    BY <2>3, <2>5, <2>6
  <2>8. \A p \in Procs, token, end \in Nat : Lasts(p, token, end) => Lasts(p, token, end)'
    BY <1>0, <2>3, <2>4
  <2> HIDE DEF Lasts
  <2> QED
    BY <1>0, <1>2, <2>3, <2>7, <2>8 DEF Keeps
<1>6. ASSUME NEW q \in Procs, Take(q) PROVE FreshInv'
  <2>1. locker.at \in Nat /\ pc[q] \in {"acquiring", "gone"}
    BY <1>6 DEF Take, TypeOK, NoLock, TakerInv
  <2>2. /\ UNCHANGED <<now, replies, watch, down, anchor>>
        /\ \A p \in Procs : p # q => pc'[p] = pc[p] /\ held'[p] = held[p]
        /\ pc'[q] \notin {"dropping", "dropped"}
    BY <1>0, <1>6, <2>1 DEF Take
  <2>3. UNCHANGED <<owner, fencing, expires>> \/ expires <= now \/ owner = q
    BY <1>0, <1>6, <2>1 DEF Take, row
  <2>4. watch[q] = None /\ \A a \in replies : a.proc # q
    BY <1>a, <1>b, <2>1
  <2>5. \A p \in Procs, token, end \in Nat :
          p # q /\ Lasts(p, token, end) => Lasts(p, token, end)'
    BY <1>0, <2>2, <2>3
  <2>6. \A p \in Procs : watch'[p] # None /\ Keeps(p)' =>
          (owner' = p /\ fencing' = held'[p] /\ expires' >= watch'[p] + Safety)
          \/ now' >= watch'[p] + Safety
    BY <1>0, <2>2, <2>4, <2>5 DEF Keeps
  <2>7. \A p \in Procs : pc'[p] \in {"dropping", "dropped"} /\ Keeps(p)' =>
          (owner' = p /\ fencing' = held'[p] /\ expires' >= anchor'[p] + Ttl)
          \/ now' >= anchor'[p] + Ttl
    BY <1>0, <2>2, <2>5 DEF Keeps
  <2>8. \A a \in replies' : a.ok /\ Keeps(a.proc)' =>
          (owner' = a.proc /\ fencing' = a.token /\ expires' >= a.sent + Ttl)
          \/ now' >= a.sent + Ttl
    <3> SUFFICES ASSUME NEW a \in replies, a.ok, Keeps(a.proc)'
                 PROVE  (owner' = a.proc /\ fencing' = a.token /\ expires' >= a.sent + Ttl)
                        \/ now' >= a.sent + Ttl
      BY <2>2
    <3>1. a.proc \in Procs /\ a.token \in Nat /\ a.sent + Ttl \in Nat /\ a.proc # q
      BY <1>0, <2>4 DEF TypeOK, Reply
    <3>2. Lasts(a.proc, a.token, a.sent + Ttl)
      BY <2>2 DEF Keeps
    <3> QED
      BY <2>5, <3>1, <3>2
  <2> QED
    BY <2>6, <2>7, <2>8
<1>7. ASSUME NEW r \in releases, ReleaseCommit(r) PROVE FreshInv'
  <2>1. /\ r.proc \in Procs
        /\ pc[r.proc] = "gone" \/ down[r.proc] \in {"releasing", "released"}
    BY DEF TypeOK, Token, TimerInv
  <2>2. /\ UNCHANGED <<now, owner, fencing, replies, pc, held, anchor, watch>>
        /\ expires' = expires \/ owner = r.proc
        /\ \A p \in Procs : down'[p] = down[p] \/ (p = r.proc /\ down'[p] = "released")
    BY <1>0, <1>7, <2>1 DEF ReleaseCommit
  <2>3. ASSUME NEW p \in Procs, NEW token \in Nat, NEW end \in Nat, Keeps(p)',
               watch[p] # None \/ pc[p] \in {"dropping", "dropped"}
               \/ \E a \in replies : a.proc = p,
               Lasts(p, token, end)
        PROVE  Lasts(p, token, end)'
    <3>1. pc[p] # "gone"
      BY <1>a, <1>b, <2>3
    <3>2. p # r.proc
      BY <2>1, <2>2, <2>3, <3>1 DEF Keeps
    <3> QED
      BY <2>2, <2>3, <3>2
  <2> HIDE DEF Lasts
  <2> QED
    BY <1>0, <1>2, <2>2, <2>3 DEF Keeps
<1>8. ASSUME NEW r \in replies, Renewed(r) PROVE FreshInv'
  <2>1. /\ r.proc \in Procs /\ r.sent \in Nat /\ pc[r.proc] = "started"
        /\ watch[r.proc] # None \/ watch[r.proc] = None
    BY <1>0, <1>b
  <2>2. /\ replies' \subseteq replies /\ UNCHANGED <<now, owner, fencing, expires, pc, down, anchor>>
        /\ \A p \in Procs : p # r.proc => held'[p] = held[p] /\ watch'[p] = watch[p]
    BY <1>0, <1>8, <2>1 DEF Renewed, row
  <2>3. \/ watch'[r.proc] = None
        \/ /\ r.ok /\ held'[r.proc] = r.token /\ watch'[r.proc] = r.sent + Ttl - Safety
        \/ /\ down[r.proc] = "stopped" /\ watch'[r.proc] = watch[r.proc]
    BY <1>0, <1>8, <2>1 DEF Renewed, Deadline
  <2>4. down[r.proc] = "stopped" => watch[r.proc] = None
    BY <2>1 DEF TimerInv
  <2>5. \A p \in Procs : watch'[p] # None /\ Keeps(p)' =>
          (owner' = p /\ fencing' = held'[p] /\ expires' >= watch'[p] + Safety)
          \/ now' >= watch'[p] + Safety
    BY <1>0, <2>1, <2>2, <2>3, <2>4 DEF Keeps
  <2>6. \A p \in Procs : pc'[p] \in {"dropping", "dropped"} /\ Keeps(p)' =>
          (owner' = p /\ fencing' = held'[p] /\ expires' >= anchor'[p] + Ttl)
          \/ now' >= anchor'[p] + Ttl
    BY <1>0, <2>1, <2>2 DEF Keeps
  <2>7. \A a \in replies' : a.ok /\ Keeps(a.proc)' =>
          (owner' = a.proc /\ fencing' = a.token /\ expires' >= a.sent + Ttl)
          \/ now' >= a.sent + Ttl
    BY <1>0, <2>2 DEF Keeps
  <2> QED
    BY <2>5, <2>6, <2>7
<1>9. ASSUME NEW q \in Procs, Start(q) PROVE FreshInv'
  <2>1. /\ UNCHANGED <<now, owner, fencing, expires, replies, down, held, anchor>>
        /\ \A p \in Procs : p # q => watch'[p] = watch[p] /\ pc'[p] = pc[p]
        /\ pc[q] = "dropped" /\ pc'[q] = "started" /\ watch'[q] = anchor[q] + Ttl - Safety
    BY <1>0, <1>9 DEF Start, Deadline, row
  <2>2. \A p \in Procs : watch'[p] # None /\ Keeps(p)' =>
          (owner' = p /\ fencing' = held'[p] /\ expires' >= watch'[p] + Safety)
          \/ now' >= watch'[p] + Safety
    BY <1>0, <2>1 DEF Keeps
  <2>3. \A p \in Procs : pc'[p] \in {"dropping", "dropped"} /\ Keeps(p)' =>
          (owner' = p /\ fencing' = held'[p] /\ expires' >= anchor'[p] + Ttl)
          \/ now' >= anchor'[p] + Ttl
    BY <1>0, <2>1 DEF Keeps
  <2>4. \A a \in replies' : a.ok /\ Keeps(a.proc)' =>
          (owner' = a.proc /\ fencing' = a.token /\ expires' >= a.sent + Ttl)
          \/ now' >= a.sent + Ttl
    BY <1>0, <2>1 DEF Keeps
  <2> QED
    BY <2>2, <2>3, <2>4
<1> HIDE DEF FreshInv, Lasts
<1>10. CASE CommitWrite \/ AbortWrite \/ UNCHANGED vars
  <2>1. writer # NoWrite => writer.proc \in Procs
    BY DEF TypeOK, Write
  <2>2. /\ UNCHANGED <<now, owner, fencing, expires, replies, down, held, anchor, watch>>
        /\ \A p \in Procs :
             pc'[p] \in {"dropping", "dropped"} => pc[p] \in {"dropping", "dropped"}
    BY <1>0, <1>10, <2>1 DEF CommitWrite, AbortWrite, vars, row, proc
  <2> QED
    BY <1>1, <2>2 DEF Keeps
<1>11. ASSUME NEW r \in requests, AssertLease(r) PROVE FreshInv'
  <2>1. UNCHANGED <<now, owner, fencing, expires, replies, pc, down, held, anchor, watch>>
    BY <1>11 DEF AssertLease, row, proc
  <2> QED
    BY <1>1, <2>1 DEF Keeps
<1>12. ASSUME NEW b \in backends, RenewLock(b) \/ RenewAbort(b) PROVE FreshInv'
  <2>1. UNCHANGED <<now, owner, fencing, expires, replies, pc, down, held, anchor, watch>>
    BY <1>12 DEF RenewLock, RenewAbort, row, proc
  <2> QED
    BY <1>1, <2>1 DEF Keeps
<1>13. ASSUME NEW q \in Procs,
              \/ Acquire(q) \/ LockForUpdate(q) \/ IssueWrite(q)
              \/ RenewSend(q) \/ RenewFailed(q)
       PROVE FreshInv'
  <2>1. /\ UNCHANGED <<now, owner, fencing, expires, down, held, anchor, watch>>
        /\ replies' \subseteq replies
        /\ \A p \in Procs :
             pc'[p] \in {"dropping", "dropped"} => pc[p] \in {"dropping", "dropped"}
    BY <1>0, <1>13 DEF Acquire, LockForUpdate, IssueWrite, RenewSend, RenewFailed, row, proc
  <2> QED
    BY <1>1, <2>1 DEF Keeps
<1>14. ASSUME NEW q \in Procs, Stop(q) \/ Release(q) PROVE FreshInv'
  <2>1. /\ UNCHANGED <<now, owner, fencing, expires, replies, pc, held, anchor>>
        /\ \A p \in Procs : watch'[p] = watch[p] \/ watch'[p] = None
        /\ \A p \in Procs : Keeps(p)' => Keeps(p)
    BY <1>0, <1>14 DEF Stop, Release, Keeps, row
  <2> QED
    BY <1>1, <2>1
<1>15. ASSUME NEW q \in Procs, Hold(q) \/ Watchdog(q) \/ StartupFails(q) \/ Crash(q)
       PROVE FreshInv'
  <2>1. /\ UNCHANGED <<now, owner, fencing, expires>> /\ replies' \subseteq replies
        /\ \A p \in Procs : p # q =>
             /\ pc'[p] = pc[p] /\ down'[p] = down[p] /\ held'[p] = held[p]
             /\ anchor'[p] = anchor[p] /\ watch'[p] = watch[p]
    BY <1>0, <1>15 DEF Hold, Watchdog, StartupFails, Crash, Exit, row
  <2>2. watch'[q] = None /\ pc'[q] \notin {"dropping", "dropped"}
    BY <1>0, <1>a, <1>15 DEF Hold, Watchdog, StartupFails, Crash, Exit
  <2>3. UNCHANGED down \/ \A a \in replies' : a.proc # q
    BY <1>15 DEF Hold, Watchdog, StartupFails, Crash, Exit
  <2> QED
    BY <1>1, <2>1, <2>2, <2>3 DEF Keeps
<1> QED
  BY <1>3, <1>4, <1>5, <1>6, <1>7, <1>8, <1>9, <1>10, <1>11, <1>12, <1>13, <1>14, <1>15 DEF Next

(* A released row stays free of its process: it resets before it releases, *)
(* acquires once, and a renewal finds the row expired.                     *)
LEMMA ReleasedStep ==
    ASSUME TypeOK, TakerInv, ResetInv, LockInv, TimerInv, ReleasedStaysFree, [Next]_vars
    PROVE  ReleasedStaysFree'
<1> SUFFICES ASSUME NEW p \in Procs, down'[p] = "released", owner' = p PROVE expires' = 0
  BY DEF ReleasedStaysFree
<1> USE DEF ReleasedStaysFree
<1>0. /\ down \in [Procs -> Downs] /\ expires \in Nat
      /\ down[p] = "released" =>
           /\ pc[p] \notin {"idle", "acquiring", "granted", "resetting", "gone"}
           /\ owner = p => expires = 0
  BY DEF TypeOK, TimerInv
<1>1. CASE CommitReset
  <2>1. writer.proc = owner /\ pc[owner] \in {"resetting", "gone"}
    BY <1>1 DEF CommitReset, LockInv, ResetInv, Quiet
  <2> QED
    BY <1>0, <1>1, <2>1 DEF CommitReset
<1>2. ASSUME NEW b \in backends, RenewCommit(b) PROVE expires' = 0
  <2>1. b.at \in Nat
    BY <1>2 DEF RenewCommit, TypeOK, Backend, Times
  <2>2. expires = 0
    BY <1>0, <1>2 DEF RenewCommit, proc
  <2> QED
    BY <1>2, <2>1, <2>2 DEF RenewCommit
<1>3. ASSUME NEW q \in Procs, Take(q) PROVE expires' = 0
  <2>1. pc[q] \in {"acquiring", "gone"} /\ down[p] = "released"
    BY <1>3 DEF Take, TakerInv
  <2>2. q # p
    BY <1>0, <2>1
  <2> QED
    BY <1>0, <1>3, <2>1, <2>2 DEF Take, row
<1>4. ASSUME NEW r \in releases, ReleaseCommit(r) PROVE expires' = 0
  BY <1>0, <1>4 DEF ReleaseCommit
<1>5. CASE UNCHANGED <<owner, expires>> /\ (down[p] = "released" \/ down'[p] # "released")
  BY <1>0, <1>5
<1> QED
  <2>1. CASE Tick \/ CommitWrite \/ AbortWrite \/ UNCHANGED vars
    BY <1>5, <2>1 DEF Tick, CommitWrite, AbortWrite, vars, row, proc
  <2>2. ASSUME NEW r \in requests, AssertLease(r) PROVE expires' = 0
    BY <1>5, <2>2 DEF AssertLease, row, proc
  <2>3. ASSUME NEW b \in backends, RenewLock(b) \/ RenewAbort(b) PROVE expires' = 0
    BY <1>5, <2>3 DEF RenewLock, RenewAbort, row, proc
  <2>4. ASSUME NEW r \in replies, Renewed(r) PROVE expires' = 0
    BY <1>5, <2>4 DEF Renewed, row
  <2>5. ASSUME NEW q \in Procs,
               \/ Acquire(q) \/ LockForUpdate(q) \/ Hold(q) \/ IssueWrite(q)
               \/ Start(q) \/ RenewSend(q) \/ RenewFailed(q) \/ Watchdog(q)
        PROVE expires' = 0
    BY <1>5, <2>5 DEF Acquire, LockForUpdate, Hold, IssueWrite, Start, RenewSend,
                      RenewFailed, Watchdog, row, proc
  <2>6. ASSUME NEW q \in Procs, StartupFails(q) \/ Stop(q) \/ Release(q) \/ Crash(q)
        PROVE expires' = 0
    BY <1>0, <1>5, <2>6 DEF StartupFails, Stop, Release, Crash, Exit, row
  <2> QED
    BY <1>1, <1>2, <1>3, <1>4, <2>1, <2>2, <2>3, <2>4, <2>5, <2>6 DEF Next

(* A fenced write commits with the fencing number of the row.              *)
LEMMA LogStep ==
    ASSUME TypeOK, LockInv, WritesFenced, [Next]_vars
    PROVE  WritesFenced'
<1>0. log \in Seq(Nat) /\ fencing \in Nat
  BY DEF TypeOK
<1>1. CASE CommitWrite \/ CommitReset
  <2>1. log' = Append(log, fencing) /\ fencing' = fencing
    BY <1>1 DEF CommitWrite, CommitReset, LockInv, row
  <2> QED
    BY <1>0, <2>1 DEF WritesFenced
<1>2. ASSUME NEW p \in Procs, Take(p) PROVE WritesFenced'
  <2>1. log' = log /\ (fencing' = fencing \/ fencing' = fencing + 1)
    BY <1>2 DEF Take, row
  <2> QED
    BY <1>0, <2>1 DEF WritesFenced
<1>3. CASE UNCHANGED <<log, fencing>>
  BY <1>3 DEF WritesFenced
<1> QED
  <2>1. CASE Tick \/ AbortWrite \/ UNCHANGED vars
    BY <1>3, <2>1 DEF Tick, AbortWrite, vars, row
  <2>2. ASSUME NEW r \in requests, AssertLease(r) PROVE WritesFenced'
    BY <1>3, <2>2 DEF AssertLease, row
  <2>3. ASSUME NEW b \in backends, RenewLock(b) \/ RenewCommit(b) \/ RenewAbort(b)
        PROVE WritesFenced'
    BY <1>3, <2>3 DEF RenewLock, RenewCommit, RenewAbort, row
  <2>4. ASSUME NEW r \in replies, Renewed(r) PROVE WritesFenced'
    BY <1>3, <2>4 DEF Renewed, row
  <2>5. ASSUME NEW p \in Procs,
               \/ Acquire(p) \/ LockForUpdate(p) \/ Hold(p) \/ IssueWrite(p)
               \/ StartupFails(p) \/ Start(p) \/ RenewSend(p) \/ RenewFailed(p) \/ Watchdog(p)
               \/ Stop(p) \/ Release(p) \/ Crash(p)
        PROVE WritesFenced'
    BY <1>3, <2>5 DEF Acquire, LockForUpdate, Hold, IssueWrite, StartupFails, Start, RenewSend,
                      RenewFailed, Watchdog, Stop, Release, Crash, row
  <2>6. ASSUME NEW r \in releases, ReleaseCommit(r) PROVE WritesFenced'
    BY <1>3, <2>6 DEF ReleaseCommit
  <2> QED
    BY <1>1, <1>2, <2>1, <2>2, <2>3, <2>4, <2>5, <2>6 DEF Next

(* The initial state: no row, no process started.                          *)
LEMMA InitLease == Init => LeaseInv
<1> SUFFICES ASSUME Init PROVE LeaseInv
  OBVIOUS
<1> USE NoProcAssumption, TimingAssumption DEF Init, None
<1>1. TypeOK
  BY DEF TypeOK, Times, States, Downs, NoLock, NoWrite
<1>2. LockInv /\ TimerInv
  BY DEF LockInv, TimerInv
<1>3. ClockInv
  BY DEF ClockInv, NoWrite
<1>4. TakerInv
  BY DEF TakerInv, NoLock
<1>5. ResetInv
  BY DEF ResetInv, Resets, NoWrite
<1>6. FreshInv
  BY DEF FreshInv
<1>7. WritesFenced /\ ReleasedStaysFree
  BY DEF WritesFenced, ReleasedStaysFree
<1> QED
  BY <1>1, <1>2, <1>3, <1>4, <1>5, <1>6, <1>7 DEF LeaseInv

(* LeaseInv holds in every reachable state of the writer lease.            *)
THEOREM LeaseInvariant == Spec => []LeaseInv
<1>1. LeaseInv /\ [Next]_vars => LeaseInv'
  BY TypeStep, LockStep, ClockStep, TakerStep, ResetStep, TimerStep, FreshStep, LogStep,
     ReleasedStep
  DEF LeaseInv
<1> QED
  BY <1>1, InitLease, PTL DEF Spec

(* Every reachable state of the lease, its locks and its processes is      *)
(* well typed.                                                             *)
THEOREM LeaseTypes == Spec => []TypeOK
<1>1. LeaseInv => TypeOK
  BY DEF LeaseInv
<1> QED
  BY <1>1, LeaseInvariant, PTL

(* Fencing: committed writes never step back to an earlier lease, for any  *)
(* number of processes and any interleaving of takeover, renewal, reset,   *)
(* crash and delayed write (#assertLease, #acquire).                       *)
THEOREM Fencing == Spec => []WritesFenced
<1>1. LeaseInv => WritesFenced
  BY DEF LeaseInv
<1> QED
  BY <1>1, LeaseInvariant, PTL

(* No late write: a takeover waits for the writes in flight, so a write    *)
(* commits only under the fencing number of the row's present holder       *)
(* (FOR KEY SHARE in #assertLease against FOR UPDATE in #acquire).         *)
THEOREM TakeoverWaits == Spec => NoLateWrite
<1>1. LeaseInv /\ [Next]_vars => [Len(log') > Len(log) => log'[Len(log')] = fencing]_vars
  <2> SUFFICES ASSUME LeaseInv, [Next]_vars, Len(log') > Len(log)
               PROVE  log'[Len(log')] = fencing
    OBVIOUS
  <2>0. log \in Seq(Nat) /\ fencing \in Nat
    BY DEF LeaseInv, TypeOK
  <2>1. log' # log
    BY <2>0
  <2>2. CommitWrite \/ CommitReset
    BY <2>1 DEF Next, Tick, AbortWrite, AssertLease, RenewLock, RenewCommit, RenewAbort, Renewed,
                Acquire, LockForUpdate, Take, Hold, IssueWrite, StartupFails, Start, RenewSend,
                RenewFailed, Watchdog, Stop, Release, ReleaseCommit, Crash, vars
  <2>3. log' = Append(log, fencing)
    BY <2>2 DEF CommitWrite, CommitReset, LeaseInv, LockInv
  <2> QED
    BY <2>0, <2>3
<1> QED
  BY <1>1, LeaseInvariant, PTL DEF Spec, NoLateWrite

(* The watchdog is safe until its process sends its release, however       *)
(* shutting down and startup overlap: until Safety after an armed deadline *)
(* that process owns the unexpired row under its own fencing number        *)
(* (#armWatchdog).                                                         *)
THEOREM WatchdogSafe == Spec => []OwnedUntilDeadline
<1>1. LeaseInv => OwnedUntilDeadline
  <2> SUFFICES ASSUME LeaseInv, NEW p \in Procs,
                      watch[p] # None, now < watch[p] + Safety, Keeps(p)
               PROVE  owner = p /\ fencing = held[p] /\ expires > now
    BY DEF OwnedUntilDeadline, Keeps
  <2>1. now \in Nat /\ expires \in Nat /\ watch[p] \in Nat
    BY DEF LeaseInv, TypeOK, Times
  <2> QED
    BY <2>1, TimingAssumption DEF LeaseInv, FreshInv, Lasts
<1> QED
  BY <1>1, LeaseInvariant, PTL

(* A lease that a shutting-down process gave back stays given back, also   *)
(* when its startup still runs (drain's wait for resettingLease).          *)
THEOREM ReleaseHolds == Spec => []ReleasedStaysFree
<1>1. LeaseInv => ReleasedStaysFree
  BY DEF LeaseInv
<1> QED
  BY <1>1, LeaseInvariant, PTL

(* The writer lease implements the fenced log.  A committed fenced write   *)
(* or reset is an entry of the current term by its holder, a takeover or a *)
(* lease acquired anew is a Grant, and every other step of the processes,  *)
(* the row locks and the timers leaves the log, the term and the holder as *)
(* they were (#acquire, #assertLease and the transactions behind them).    *)
THEOREM Refinement == Spec => ImplementsFencedLog
<1>1. Init => FL!Init
  BY DEF Init, FL!Init
<1>2. LeaseInv /\ [Next]_vars => [FL!Next]_FL!logVars
  <2> SUFFICES ASSUME LeaseInv, [Next]_vars PROVE [FL!Next]_FL!logVars
    OBVIOUS
  <2> USE DEF FL!logVars
  <2>1. CASE CommitWrite \/ CommitReset
    <3>1. writer.proc \in Procs /\ writer.proc = owner /\ writer.token = fencing
      BY <2>1 DEF CommitWrite, CommitReset, LeaseInv, LockInv, TypeOK, Write
    <3>2. owner # NoProc
      BY <3>1, NoProcAssumption
    <3>3. log' = Append(log, fencing) /\ UNCHANGED <<owner, fencing>>
      BY <2>1, <3>1 DEF CommitWrite, CommitReset, row
    <3> QED
      BY <3>2, <3>3 DEF FL!Next, FL!AppendEntry
  <2>2. ASSUME NEW p \in Procs, Take(p) PROVE [FL!Next]_FL!logVars
    <3>1. CASE owner' = p /\ fencing' = fencing + 1
      BY <2>2, <3>1 DEF Take, FL!Next, FL!Grant
    <3>2. CASE UNCHANGED <<owner, fencing>>
      BY <2>2, <3>2 DEF Take
    <3>3. \/ owner' = p /\ fencing' = fencing + 1
          \/ UNCHANGED <<owner, fencing>>
      BY <2>2 DEF Take, row
    <3> QED
      BY <3>1, <3>2, <3>3
  <2>3. CASE UNCHANGED <<owner, fencing, log>>
    BY <2>3
  <2>4. CASE Tick \/ AbortWrite \/ UNCHANGED vars
    BY <2>3, <2>4 DEF Tick, AbortWrite, vars, row
  <2>5. ASSUME NEW r \in requests, AssertLease(r) PROVE [FL!Next]_FL!logVars
    BY <2>3, <2>5 DEF AssertLease, row
  <2>6. ASSUME NEW b \in backends, RenewLock(b) \/ RenewCommit(b) \/ RenewAbort(b)
        PROVE [FL!Next]_FL!logVars
    BY <2>3, <2>6 DEF RenewLock, RenewCommit, RenewAbort, row
  <2>7. ASSUME NEW r \in replies, Renewed(r) PROVE [FL!Next]_FL!logVars
    BY <2>3, <2>7 DEF Renewed, row
  <2>8. ASSUME NEW p \in Procs,
               \/ Acquire(p) \/ LockForUpdate(p) \/ Hold(p) \/ IssueWrite(p)
               \/ StartupFails(p) \/ Start(p) \/ RenewSend(p) \/ RenewFailed(p) \/ Watchdog(p)
               \/ Stop(p) \/ Release(p) \/ Crash(p)
        PROVE [FL!Next]_FL!logVars
    BY <2>3, <2>8 DEF Acquire, LockForUpdate, Hold, IssueWrite, StartupFails, Start, RenewSend,
                      RenewFailed, Watchdog, Stop, Release, Crash, row
  <2>9. ASSUME NEW r \in releases, ReleaseCommit(r) PROVE [FL!Next]_FL!logVars
    BY <2>3, <2>9 DEF ReleaseCommit
  <2> QED
    BY <2>1, <2>2, <2>4, <2>5, <2>6, <2>7, <2>8, <2>9 DEF Next
<1> QED
  BY <1>1, <1>2, LeaseInvariant, PTL DEF Spec, ImplementsFencedLog, FL!Spec

-----------------------------------------------------------------------------
(* Sequences.                                                              *)

\* No value is in the sequence twice; one value is not.
NoDup(q)   == \A k, l \in DOMAIN q : q[k] = q[l] => k = l
Once(q, x) == \A k, l \in DOMAIN q : q[k] = x /\ q[l] = x => k = l

(* The empty sequence is a sequence of anything and holds nothing.         *)
LEMMA EmptyFacts == Range(<<>>) = {} /\ NoDup(<<>>) /\ Len(<<>>) = 0 /\ \A S : <<>> \in Seq(S)
  BY DEF Range, NoDup

(* Indices of a sequence.                                                  *)
LEMMA DomFacts ==
    ASSUME NEW S, NEW q \in Seq(S)
    PROVE  /\ DOMAIN q = 1 .. Len(q) /\ Len(q) \in Nat
           /\ \A k \in DOMAIN q : q[k] \in S /\ q[k] \in Range(q)
           /\ \A x \in Range(q) : x \in S /\ \E k \in DOMAIN q : q[k] = x
           /\ q = <<>> <=> Range(q) = {}
           /\ q # <<>> => 1 \in DOMAIN q /\ Len(q) > 0
  BY DEF Range

(* What Append adds.                                                       *)
LEMMA AppendFacts ==
    ASSUME NEW S, NEW q \in Seq(S), NEW x \in S
    PROVE  /\ Append(q, x) \in Seq(S) /\ Len(Append(q, x)) = Len(q) + 1
           /\ Range(Append(q, x)) = Range(q) \cup {x}
           /\ NoDup(q) /\ x \notin Range(q) => NoDup(Append(q, x))
           /\ \A y : Once(q, y) /\ (y = x => x \notin Range(q)) => Once(Append(q, x), y)
<1> DEFINE d == Append(q, x)
<1>1. /\ d \in Seq(S) /\ Len(d) = Len(q) + 1 /\ DOMAIN d = 1 .. Len(q) + 1
      /\ \A k \in 1 .. Len(q) : d[k] = q[k]
      /\ d[Len(q) + 1] = x
  OBVIOUS
<1>2. DOMAIN q = 1 .. Len(q) /\ Len(q) \in Nat
  OBVIOUS
<1> HIDE DEF d
<1>3. ASSUME NEW y \in Range(d)
      PROVE  y \in Range(q) \cup {x}
  BY <1>1, <1>2 DEF Range
<1>4. ASSUME NEW y \in Range(q)
      PROVE  y \in Range(d)
  BY <1>1, <1>2 DEF Range
<1>5. x \in Range(d)
  BY <1>1, <1>2 DEF Range
<1>6. Range(d) = Range(q) \cup {x}
  BY <1>3, <1>4, <1>5
<1>7. \A k \in 1 .. Len(q) : q[k] \in Range(q)
  BY <1>2 DEF Range
<1>8. \A k \in DOMAIN d : k \in 1 .. Len(q) \/ k = Len(q) + 1
  BY <1>1, <1>2
<1>9. NoDup(q) /\ x \notin Range(q) => NoDup(d)
  BY <1>1, <1>2, <1>7, <1>8 DEF NoDup
<1>10. ASSUME NEW y, Once(q, y), y = x => x \notin Range(q)
       PROVE  Once(d, y)
  BY <1>1, <1>2, <1>7, <1>8, <1>10 DEF Once
<1> QED
  BY <1>1, <1>6, <1>9, <1>10 DEF d

\* The queue behind place n.
Rest(q, n) == SubSeq(q, n + 1, Len(q))

(* What a suffix keeps.                                                    *)
LEMMA DropFacts ==
    ASSUME NEW S, NEW q \in Seq(S), NEW n \in DOMAIN q
    PROVE  /\ Rest(q, n) \in Seq(S) /\ Len(Rest(q, n)) = Len(q) - n
           /\ Range(Rest(q, n)) \subseteq Range(q)
           /\ Range(q) = Range(Rest(q, n)) \cup {q[k] : k \in 1 .. n}
           /\ NoDup(q) => NoDup(Rest(q, n)) /\ \A k \in 1 .. n : q[k] \notin Range(Rest(q, n))
<1> DEFINE c == SubSeq(q, n + 1, Len(q))
<1>1. DOMAIN q = 1 .. Len(q) /\ Len(q) \in Nat /\ n \in 1 .. Len(q)
  OBVIOUS
<1>2. /\ c \in Seq(S) /\ Len(c) = Len(q) - n /\ DOMAIN c = 1 .. Len(q) - n
      /\ \A k \in 1 .. Len(q) - n : c[k] = q[k + n]
  BY <1>1
<1> HIDE DEF c
<1>3. ASSUME NEW y \in Range(c)
      PROVE  \E k \in 1 .. Len(q) : k > n /\ q[k] = y
  <2>1. PICK k \in 1 .. Len(q) - n : c[k] = y
    BY <1>2, <1>3 DEF Range
  <2> QED
    BY <1>1, <1>2, <2>1
<1>4. Range(c) \subseteq Range(q)
  BY <1>1, <1>3 DEF Range
<1>5. ASSUME NEW k \in 1 .. Len(q), k > n
      PROVE  q[k] \in Range(c)
  <2>1. k - n \in 1 .. Len(q) - n /\ c[k - n] = q[k]
    BY <1>1, <1>2, <1>5
  <2> QED
    BY <1>2, <2>1 DEF Range
<1>6. ASSUME NEW y \in Range(q)
      PROVE  y \in Range(c) \cup {q[k] : k \in 1 .. n}
  <2>1. PICK k \in 1 .. Len(q) : q[k] = y
    BY <1>1 DEF Range
  <2> QED
    BY <1>1, <1>5, <2>1
<1>9. 1 .. n \subseteq 1 .. Len(q)
  BY <1>1
<1>7. {q[k] : k \in 1 .. n} \subseteq Range(q)
  BY <1>1, <1>9 DEF Range
<1>8. ASSUME NoDup(q)
      PROVE  NoDup(c) /\ \A k \in 1 .. n : q[k] \notin Range(c)
  <2>1. NoDup(c)
    <3> SUFFICES ASSUME NEW k \in 1 .. Len(q) - n, NEW l \in 1 .. Len(q) - n, c[k] = c[l]
                 PROVE  k = l
      BY <1>2 DEF NoDup
    <3>1. k + n \in DOMAIN q /\ l + n \in DOMAIN q /\ q[k + n] = q[l + n]
      BY <1>1, <1>2
    <3>2. k + n = l + n
      BY <1>8, <3>1 DEF NoDup
    <3> QED
      BY <1>1, <3>2
  <2>2. ASSUME NEW k \in 1 .. n
        PROVE  q[k] \notin Range(c)
    BY <1>1, <1>3, <1>8, <2>2 DEF NoDup
  <2> QED
    BY <2>1, <2>2
<1> QED
  BY <1>2, <1>4, <1>6, <1>7, <1>8 DEF c, Rest

(* What Tail keeps.                                                        *)
LEMMA TailFacts ==
    ASSUME NEW S, NEW q \in Seq(S), q # <<>>
    PROVE  /\ Tail(q) \in Seq(S) /\ Len(Tail(q)) = Len(q) - 1
           /\ Head(q) = q[1] /\ Head(q) \in S /\ Head(q) \in Range(q)
           /\ Range(Tail(q)) \subseteq Range(q)
           /\ Range(q) = Range(Tail(q)) \cup {Head(q)}
           /\ NoDup(q) => NoDup(Tail(q)) /\ Range(Tail(q)) = Range(q) \ {Head(q)}
<1>1. /\ DOMAIN q = 1 .. Len(q) /\ Len(q) \in Nat /\ 1 \in DOMAIN q
      /\ Head(q) = q[1] /\ Tail(q) = SubSeq(q, 2, Len(q))
  OBVIOUS
<1>2. Tail(q) = Rest(q, 1)
  BY <1>1 DEF Rest
<1>3. 1 .. 1 = {1}
  OBVIOUS
<1>7. /\ Rest(q, 1) \in Seq(S) /\ Len(Rest(q, 1)) = Len(q) - 1
      /\ Range(Rest(q, 1)) \subseteq Range(q)
      /\ Range(q) = Range(Rest(q, 1)) \cup {q[k] : k \in 1 .. 1}
      /\ NoDup(q) => NoDup(Rest(q, 1)) /\ \A k \in 1 .. 1 : q[k] \notin Range(Rest(q, 1))
  BY <1>1, DropFacts, Zenon
<1>4. /\ Tail(q) \in Seq(S) /\ Len(Tail(q)) = Len(q) - 1
      /\ Range(Tail(q)) \subseteq Range(q)
      /\ Range(q) = Range(Tail(q)) \cup {q[k] : k \in 1 .. 1}
      /\ NoDup(q) => NoDup(Tail(q)) /\ \A k \in 1 .. 1 : q[k] \notin Range(Tail(q))
  BY <1>2, <1>7, Zenon
<1>5. {q[k] : k \in 1 .. 1} = {Head(q)}
  BY <1>1, <1>3
<1>6. Head(q) \in S /\ Head(q) \in Range(q)
  BY <1>1, <1>4, <1>5
<1> QED
  BY <1>1, <1>3, <1>4, <1>5, <1>6

(* What two sequences make, one after the other.                           *)
LEMMA JoinFacts ==
    ASSUME NEW S, NEW a \in Seq(S), NEW b \in Seq(S)
    PROVE  /\ a \o b \in Seq(S) /\ Len(a \o b) = Len(a) + Len(b)
           /\ \A k \in 1 .. Len(a) + Len(b) :
                 (a \o b)[k] = IF k <= Len(a) THEN a[k] ELSE b[k - Len(a)]
<1>1. a \o b \in Seq(S)
  OBVIOUS
<1>2. Len(a \o b) = Len(a) + Len(b)
  OBVIOUS
<1>3. \A k \in 1 .. Len(a) + Len(b) : (a \o b)[k] = IF k <= Len(a) THEN a[k] ELSE b[k - Len(a)]
  OBVIOUS
<1> QED
  BY <1>1, <1>2, <1>3, Zenon

(* What RemoveAt keeps.                                                    *)
LEMMA RemoveFacts ==
    ASSUME NEW S, NEW q \in Seq(S), NEW n \in DOMAIN q
    PROVE  LET d == RemoveAt(q, n) IN
           /\ d \in Seq(S) /\ Len(d) = Len(q) - 1 /\ DOMAIN d = 1 .. Len(q) - 1
           /\ \A k \in 1 .. Len(q) - 1 : d[k] = IF k < n THEN q[k] ELSE q[k + 1]
<1> DEFINE a == SubSeq(q, 1, n - 1)
           b == SubSeq(q, n + 1, Len(q))
<1>1. DOMAIN q = 1 .. Len(q) /\ Len(q) \in Nat /\ n \in 1 .. Len(q)
  OBVIOUS
<1>2. /\ a \in Seq(S) /\ Len(a) = n - 1
      /\ \A k \in 1 .. n - 1 : a[k] = q[k]
  BY <1>1
<1>3. /\ b \in Seq(S) /\ Len(b) = Len(q) - n
      /\ \A k \in 1 .. Len(q) - n : b[k] = q[k + n]
  BY <1>1
<1>4. RemoveAt(q, n) = a \o b
  BY DEF RemoveAt
<1> HIDE DEF a, b
<1>9. /\ a \o b \in Seq(S) /\ Len(a \o b) = Len(a) + Len(b)
      /\ \A k \in 1 .. Len(a) + Len(b) :
            (a \o b)[k] = IF k <= Len(a) THEN a[k] ELSE b[k - Len(a)]
  BY <1>2, <1>3, JoinFacts, Zenon
<1> PICK d : d = a \o b
  OBVIOUS
<1>10. Len(a) + Len(b) = Len(q) - 1 /\ Len(d) = Len(q) - 1 /\ d \in Seq(S)
  BY <1>1, <1>2, <1>3, <1>9
<1>11. \A k \in 1 .. Len(q) - 1 : d[k] = IF k <= Len(a) THEN a[k] ELSE b[k - Len(a)]
  BY <1>9, <1>10
<1>5. /\ d \in Seq(S) /\ Len(d) = Len(q) - 1 /\ DOMAIN d = 1 .. Len(q) - 1
      /\ \A k \in 1 .. Len(q) - 1 : d[k] = IF k <= n - 1 THEN a[k] ELSE b[k - (n - 1)]
  BY <1>2, <1>10, <1>11
<1>6. ASSUME NEW k \in 1 .. Len(q) - 1
      PROVE  d[k] = IF k < n THEN q[k] ELSE q[k + 1]
  <2>1. /\ \A j \in 1 .. n - 1 : a[j] = q[j]
        /\ \A j \in 1 .. Len(q) - n : b[j] = q[j + n]
        /\ \A j \in 1 .. Len(q) - 1 : d[j] = IF j <= n - 1 THEN a[j] ELSE b[j - (n - 1)]
    BY <1>2, <1>3, <1>5
  <2>2. CASE k < n
    <3>1. k \in 1 .. n - 1 /\ k <= n - 1
      BY <1>1, <2>2
    <3>2. d[k] = a[k] /\ a[k] = q[k]
      BY <2>1, <3>1
    <3> QED
      BY <2>2, <3>2, Zenon
  <2>3. CASE ~(k < n)
    <3>1. k - (n - 1) \in 1 .. Len(q) - n /\ (k - (n - 1)) + n = k + 1 /\ ~(k <= n - 1)
      BY <1>1, <2>3
    <3>2. d[k] = b[k - (n - 1)]
      BY <2>1, <3>1
    <3>3. b[k - (n - 1)] = q[(k - (n - 1)) + n]
      BY <2>1, <3>1
    <3> QED
      BY <2>3, <3>1, <3>2, <3>3, Zenon
  <2> QED
    BY <2>2, <2>3
<1> QED
  BY <1>4, <1>5, <1>6

(* What Without keeps.                                                     *)
LEMMA WithoutFacts ==
    ASSUME NEW S, NEW q \in Seq(S), NEW x
    PROVE  /\ Without(q, x) \in Seq(S)
           /\ x \notin Range(q) => Without(q, x) = q
           /\ x \in Range(q) => Len(Without(q, x)) = Len(q) - 1
           /\ Range(Without(q, x)) \subseteq Range(q)
           /\ Range(q) \ {x} \subseteq Range(Without(q, x))
           /\ \A y : Once(q, y) => Once(Without(q, x), y)
           /\ Once(q, x) => x \notin Range(Without(q, x))
           /\ NoDup(q) => NoDup(Without(q, x)) /\ Range(Without(q, x)) = Range(q) \ {x}
<1>1. CASE x \notin Range(q)
  <2>1. Without(q, x) = q
    BY <1>1 DEF Without
  <2> QED
    BY <1>1, <2>1
<1>2. CASE x \in Range(q)
  <2>1. \E k \in DOMAIN q : q[k] = x
    BY <1>2 DEF Range
  <2>2. PICK n \in DOMAIN q : n = Place(q, x) /\ q[n] = x
    BY <2>1 DEF Place
  <2>3. PICK d : d = RemoveAt(q, n)
    OBVIOUS
  <2>4. Without(q, x) = d
    BY <1>2, <2>2, <2>3 DEF Without
  <2>5. DOMAIN q = 1 .. Len(q) /\ Len(q) \in Nat /\ n \in 1 .. Len(q)
    OBVIOUS
  <2>6. /\ d \in Seq(S) /\ Len(d) = Len(q) - 1 /\ DOMAIN d = 1 .. Len(q) - 1
        /\ \A k \in 1 .. Len(q) - 1 : d[k] = IF k < n THEN q[k] ELSE q[k + 1]
    BY <2>3, RemoveFacts, Zenon
  <2> DEFINE From(k) == IF k < n THEN k ELSE k + 1
  <2>7. ASSUME NEW k \in DOMAIN d
        PROVE  From(k) \in DOMAIN q /\ d[k] = q[From(k)] /\ From(k) # n
    BY <2>5, <2>6
  <2>8. \A k, l \in DOMAIN d : From(k) = From(l) => k = l
    BY <2>5, <2>6
  <2>9. ASSUME NEW k \in DOMAIN q, k # n
        PROVE  \E l \in DOMAIN d : d[l] = q[k]
    <3>1. CASE k < n
      <4>1. k \in 1 .. Len(q) - 1
        BY <2>5, <3>1
      <4> QED
        BY <2>6, <3>1, <4>1
    <3>2. CASE ~(k < n)
      <4>1. k - 1 \in 1 .. Len(q) - 1 /\ ~(k - 1 < n) /\ (k - 1) + 1 = k
        BY <2>5, <2>9, <3>2
      <4>2. d[k - 1] = q[(k - 1) + 1]
        BY <2>6, <4>1
      <4> QED
        BY <2>6, <4>1, <4>2
    <3> QED
      BY <3>1, <3>2
  <2> HIDE DEF From
  <2>10. Range(d) \subseteq Range(q)
    BY <2>7 DEF Range
  <2>11. Range(q) \ {x} \subseteq Range(d)
    BY <2>2, <2>9 DEF Range
  <2>12. ASSUME NEW y, Once(q, y)
         PROVE  Once(d, y)
    BY <2>7, <2>8, <2>12 DEF Once
  <2>13. ASSUME Once(q, x)
         PROVE  x \notin Range(d)
    BY <2>2, <2>7, <2>13 DEF Once, Range
  <2>14. ASSUME NoDup(q)
         PROVE  NoDup(d) /\ x \notin Range(d)
    <3>1. NoDup(d)
      BY <2>7, <2>8, <2>14 DEF NoDup
    <3>2. Once(q, x)
      BY <2>14 DEF NoDup, Once
    <3> QED
      BY <3>1, <3>2, <2>13
  <2>15. d \in Seq(S) /\ Len(d) = Len(q) - 1
    BY <2>6
  <2> QED
    BY <1>2, <2>4, <2>10, <2>11, <2>12, <2>13, <2>14, <2>15, Zenon
<1> QED
  BY <1>1, <1>2

(* What taking the first one away leaves.                                  *)
LEMMA FirstGone ==
    ASSUME NEW S, NEW q \in Seq(S), q # <<>>
    PROVE  /\ RemoveAt(q, 1) \in Seq(S) /\ Len(RemoveAt(q, 1)) = Len(q) - 1
           /\ DOMAIN RemoveAt(q, 1) = 1 .. Len(q) - 1
           /\ \A k \in DOMAIN RemoveAt(q, 1) : k + 1 \in DOMAIN q /\ RemoveAt(q, 1)[k] = q[k + 1]
<1>1. DOMAIN q = 1 .. Len(q) /\ Len(q) \in Nat /\ 1 \in DOMAIN q
  OBVIOUS
<1> PICK d : d = RemoveAt(q, 1)
  OBVIOUS
<1>2. /\ d \in Seq(S) /\ Len(d) = Len(q) - 1 /\ DOMAIN d = 1 .. Len(q) - 1
      /\ \A k \in 1 .. Len(q) - 1 : d[k] = IF k < 1 THEN q[k] ELSE q[k + 1]
  BY <1>1, RemoveFacts, Zenon
<1>3. ASSUME NEW k \in DOMAIN d
      PROVE  k + 1 \in DOMAIN q /\ d[k] = q[k + 1]
  <2>1. k \in 1 .. Len(q) - 1 /\ ~(k < 1) /\ k + 1 \in 1 .. Len(q)
    BY <1>1, <1>2
  <2> QED
    BY <1>1, <1>2, <2>1
<1> QED
  BY <1>2, <1>3, Zenon

-----------------------------------------------------------------------------
(* The inductive invariant.                                                *)

Away(i)       == run[i].at = "none"
Sent          == {sending[k].item : k \in DOMAIN sending}
Pending(f, i) == [for |-> f, item |-> i] \in Range(saves)
Requests      == {"send", "invoke", "followup", "draft"}
Hearers       == Invokes \cup Notes \cup Jobs

\* What a save is for and where its item is meanwhile; the request that waits
\* for its save is the first one, and a send has reserved the turn.
SavesInv ==
    /\ NoDup(saves)
    /\ \A x \in Range(saves) :
        /\ x.for = "end" => run[x.item].at = "saving"
        /\ x.for = "handoff" => run[x.item].at = "handoff"
        /\ x.for = "notice" => x.item \in Notes
        /\ x.for = "send" => x.item \in Messages
        /\ x.for \in {"invoke", "followup"} => x.item \in Invokes
        /\ x.for = "draft" => x.item \in Drafts
        /\ x.for \in Requests => sending # <<>> /\ sending[1] = [item |-> x.item, at |-> "saving"]
        /\ x.for = "send" /\ Open => busy /\ \A i \in Items : Away(i)
    /\ \A x, y \in Range(saves) : x.for \in Requests /\ y.for \in Requests => x = y

\* One turn; chat.job is the job whose turn runs.
RunInv ==
    /\ \A i, j \in Items : ~Away(i) /\ ~Away(j) => i = j
    /\ \A i \in Items : ~Away(i) /\ Open => busy
    /\ live # NoItem => live \in Jobs /\ run[live].at = "working"
    /\ output => live # NoItem
    /\ \A i \in Items : run[i].at = "saving" => run[i].out # "none"

\* Only the first request is past its checks; what it checked still holds.
SendInv ==
    /\ \A k \in DOMAIN sending : k > 1 => sending[k].at = "new"
    /\ \A k, l \in DOMAIN sending :
        sending[k].item = sending[l].item /\ sending[k].item \notin Messages => k = l
    /\ \A k \in DOMAIN sending :
        sending[k].at # "saving" /\ sending[k].item \in Drafts => sending[k].item \notin Range(waiting)
    /\ \A k \in DOMAIN sending :
        sending[k].at = "checked" /\ sending[k].item \in Messages =>
            sending[k].item \notin Range(entries) \cup Range(waiting)

\* A message is in one place, and its turn follows its place in the transcript.
MessageInv == \A m \in Messages :
    /\ Once(entries, m)
    /\ m \in Range(entries) => m \notin Range(waiting)
    /\ started[m] <= 1
    /\ started[m] = 1 => /\ m \in Range(entries) /\ m \in saved
                         /\ ~Pending("send", m) /\ run[m].at # "handoff"
    /\ Pending("send", m) \/ run[m].at = "handoff" => m \in Range(entries)
    /\ Pending("send", m) => run[m].at = "none"

\* The queue exceeds MAX_QUEUE by one invocation, while a turn runs.
WaitInv ==
    /\ NoDup(waiting)
    /\ Len(waiting) <= MaxQueue + 1
    /\ Len(waiting) > MaxQueue =>
        /\ busy /\ \A x \in Range(saves) : x.for \notin {"send", "invoke"}
        /\ \E i \in Invokes : i \in Range(waiting)

\* Whoever hears of a turn is asked for, waits or has its turn, not two of these.
PlaceInv == \A i \in Hearers :
    /\ i \in Range(waiting) => Away(i) /\ i \notin Sent /\ i \notin chain /\ ~Pending("notice", i)
    /\ i \in Sent => Away(i) /\ i \notin chain
    /\ Pending("notice", i) => Away(i)

\* The outcome of i is still to come.
Due(i) ==
    \/ i \in Range(waiting) \/ i \in Sent \/ i \in chain \/ Pending("notice", i)
    \/ i \notin Jobs /\ run[i].at \in {"handoff", "working", "saving"}

ToldInv == \A i \in Items :
    /\ Len(told[i]) <= 1
    /\ i \in Hearers /\ Due(i) => told[i] = <<>>
    /\ i \notin Hearers => told[i] = <<>>

\* Something of i is there, or was.
Seen(i) ==
    ~Away(i) \/ i \in Range(waiting) \/ i \in Sent \/ i \in chain \/ Pending("notice", i) \/ told[i] # <<>>

AskedInv == \A i \in Items \ Messages : load.asks[i] <= 1 /\ (Seen(i) => asked[i] # 0)

\* A cancelled job was told, or its turn ends without an outcome of its own.
JobInv ==
    /\ \A j \in cancelled :
        /\ asked[j] # 0 /\ told[j] # <<"done">>
        /\ \/ told[j] # <<>>
           \/ run[j].at = "working" /\ live # j
           \/ run[j].at = "saving" /\ run[j].out # "done"
    /\ live # NoItem => live \notin cancelled /\ told[live] = <<>>

TurnInv ==
    /\ ChatTypeOK /\ SavesInv /\ RunInv /\ SendInv /\ MessageInv
    /\ WaitInv /\ PlaceInv /\ ToldInv /\ AskedInv /\ JobInv

-----------------------------------------------------------------------------
(* Items, outcomes and turns.                                              *)

(* The kinds of items are apart.                                           *)
LEMMA ItemKinds ==
    /\ \A i \in Items : i # NoItem /\ i \in Messages \cup Invokes \cup Notes \cup Jobs \cup Drafts
    /\ \A i \in Messages : i \in Items /\ i \notin Hearers /\ i \notin Drafts
    /\ \A i \in Drafts : i \in Items /\ i \notin Hearers /\ i \notin Messages
    /\ \A i \in Invokes : i \in Items /\ i \in Hearers /\ i \notin Messages /\ i \notin Drafts
                          /\ i \notin Notes /\ i \notin Jobs
    /\ \A i \in Notes : i \in Items /\ i \in Hearers /\ i \notin Messages /\ i \notin Drafts
                        /\ i \notin Invokes /\ i \notin Jobs
    /\ \A i \in Jobs : i \in Items /\ i \in Hearers /\ i \notin Messages /\ i \notin Drafts
                       /\ i \notin Invokes /\ i \notin Notes
    /\ \A i \in Hearers : i \in Invokes \cup Notes \cup Jobs /\ i \in Items
  BY ItemAssumption DEF Items, Hearers

\* From t to u, only those of I hear, who had heard nothing, and no job is done.
Grows(t, u, I) ==
    /\ u \in [Items -> Seq(Outs)]
    /\ \A i \in Items :
        \/ u[i] = t[i]
        \/ i \in I /\ t[i] = <<>> /\ Len(u[i]) = 1 /\ u[i] # <<>> /\ (i \in Jobs => u[i] # <<"done">>)

(* One outcome.                                                            *)
LEMMA OneOutcome ==
    ASSUME NEW o \in Outs
    PROVE  /\ Append(<<>>, o) = <<o>> /\ <<o>> \in Seq(Outs) /\ Len(<<o>>) = 1 /\ <<o>> # <<>>
           /\ o # "done" => <<o>> # <<"done">>
<1>1. <<o>>[1] = o /\ <<"done">>[1] = "done"
  OBVIOUS
<1> QED
  BY <1>1

(* What Tell tells.                                                        *)
LEMMA TellFacts ==
    ASSUME NEW t \in [Items -> Seq(Outs)], NEW I, NEW out \in Outs
    PROVE  /\ Tell(t, I, out) \in [Items -> Seq(Outs)]
           /\ \A i \in Items : i \notin I \/ (i \in Jobs /\ t[i] # <<>>) => Tell(t, I, out)[i] = t[i]
           /\ \A i \in Items : i \in I /\ t[i] = <<>> => Tell(t, I, out)[i] = <<out>>
           /\ \A i \in Items : i \in I => Tell(t, I, out)[i] # <<>>
<1>1. \A q \in Seq(Outs) : Append(q, out) \in Seq(Outs) /\ Append(q, out) # <<>>
  OBVIOUS
<1> DEFINE u == Tell(t, I, out)
<1>2. \A i \in Items : u[i] = IF i \in I /\ (i \in Jobs => t[i] = <<>>) THEN Append(t[i], out) ELSE t[i]
  BY DEF Tell
<1>3. \A i \in Items : t[i] \in Seq(Outs)
  OBVIOUS
<1>4. u = [i \in Items |-> u[i]]
  BY DEF Tell
<1> HIDE DEF u
<1>5. \A i \in Items : u[i] \in Seq(Outs)
  BY <1>1, <1>2, <1>3
<1>6. u \in [Items -> Seq(Outs)]
  BY <1>4, <1>5
<1>7. ASSUME NEW i \in Items, i \notin I \/ (i \in Jobs /\ t[i] # <<>>)
      PROVE  u[i] = t[i]
  BY <1>2, <1>7
<1>8. ASSUME NEW i \in Items, i \in I, t[i] = <<>>
      PROVE  u[i] = <<out>>
  BY <1>2, <1>8, OneOutcome
<1>9. ASSUME NEW i \in Items, i \in I
      PROVE  u[i] # <<>>
  BY <1>1, <1>2, <1>3, <1>9
<1> QED
  BY <1>6, <1>7, <1>8, <1>9 DEF u

(* Telling those who have heard nothing.                                   *)
LEMMA TellGrows ==
    ASSUME NEW t \in [Items -> Seq(Outs)], NEW I, NEW out \in Outs,
           \A i \in I \cap Items : i \notin Jobs => t[i] = <<>>,
           out = "done" => I \cap Jobs = {}
    PROVE  /\ Grows(t, Tell(t, I, out), I)
           /\ \A i \in I \cap Items : Tell(t, I, out)[i] # <<>>
<1> DEFINE u == Tell(t, I, out)
<1>1. /\ u \in [Items -> Seq(Outs)]
      /\ \A i \in Items : i \notin I \/ (i \in Jobs /\ t[i] # <<>>) => u[i] = t[i]
      /\ \A i \in Items : i \in I /\ t[i] = <<>> => u[i] = <<out>>
      /\ \A i \in Items : i \in I => u[i] # <<>>
  BY TellFacts
<1> HIDE DEF u
<1>2. ASSUME NEW i \in Items
      PROVE  \/ u[i] = t[i]
             \/ i \in I /\ t[i] = <<>> /\ Len(u[i]) = 1 /\ u[i] # <<>> /\ (i \in Jobs => u[i] # <<"done">>)
  <2>1. CASE i \notin I \/ (i \in Jobs /\ t[i] # <<>>)
    BY <1>1, <2>1
  <2>2. CASE i \in I /\ t[i] = <<>>
    <3>1. u[i] = <<out>>
      BY <1>1, <2>2
    <3>2. i \in Jobs => out # "done"
      BY <2>2
    <3> QED
      BY <2>2, <3>1, <3>2, OneOutcome, Zenon
  <2> QED
    BY <2>1, <2>2
<1> QED
  BY <1>1, <1>2 DEF u, Grows

(* Growing twice.                                                          *)
LEMMA GrowsTwice ==
    ASSUME NEW t, NEW u, NEW v, NEW I, NEW J, Grows(t, u, I), Grows(u, v, J)
    PROVE  Grows(t, v, I \cup J)
  BY DEF Grows

(* Nobody is told anything.                                                *)
LEMMA GrowsNot ==
    ASSUME NEW t \in [Items -> Seq(Outs)], NEW I
    PROVE  Grows(t, t, I)
  BY DEF Grows

(* Outcomes stay told at most once while only those hear whose outcome     *)
(* was due and is due no more.                                             *)
LEMMA ToldKeeps ==
    ASSUME ToldInv, NEW I, Grows(told, told', I), I \cap Items \subseteq Hearers,
           \A i \in Hearers : Due(i)' => (Due(i) \/ told[i] = <<>>) /\ i \notin I
    PROVE  ToldInv'
<1> SUFFICES ASSUME NEW i \in Items
             PROVE  /\ Len(told'[i]) <= 1
                    /\ i \in Hearers /\ Due(i)' => told'[i] = <<>>
                    /\ i \notin Hearers => told'[i] = <<>>
  BY DEF ToldInv, Hearers
<1>1. /\ Len(told[i]) <= 1
      /\ i \in Hearers /\ Due(i) => told[i] = <<>>
      /\ i \notin Hearers => told[i] = <<>>
  BY DEF ToldInv
<1>2. told'[i] = told[i] \/ (i \in I /\ Len(told'[i]) = 1)
  BY DEF Grows
<1>3. Len(told'[i]) <= 1
  <2>1. CASE told'[i] = told[i]
    BY <1>1, <2>1, Zenon
  <2>2. CASE Len(told'[i]) = 1
    <3>1. 1 <= 1
      OBVIOUS
    <3> QED
      BY <2>2, <3>1, Zenon
  <2> QED
    BY <1>2, <2>1, <2>2
<1>4. i \in Hearers /\ Due(i)' => told'[i] = <<>>
  <2>1. ASSUME i \in Hearers, Due(i)'
        PROVE  told'[i] = <<>>
    <3>1. (Due(i) \/ told[i] = <<>>) /\ i \notin I
      BY <2>1, Zenon
    <3> QED
      BY <1>1, <1>2, <2>1, <3>1, Zenon
  <2> QED
    BY <2>1
<1>5. i \notin Hearers => told'[i] = <<>>
  BY <1>1, <1>2
<1> QED
  BY <1>3, <1>4, <1>5

(* What was asked for stays so.                                            *)
LEMMA AskedKeeps ==
    ASSUME AskedInv, UNCHANGED asked, load'.asks = load.asks,
           \A i \in Items \ Messages : Seen(i)' => Seen(i)
    PROVE  AskedInv'
  BY DEF AskedInv, Items

(* Nobody forgets a cancellation: jobs hear something else, and where a    *)
(* cancelled job's turn is, its outcome stays.                             *)
LEMMA CancelledKeeps ==
    ASSUME JobInv, UNCHANGED <<asked, cancelled>>, cancelled \subseteq Jobs,
           NEW I, Grows(told, told', I),
           \A j \in cancelled : told[j] = <<>> =>
                \/ told'[j] # <<>>
                \/ (run[j].at = "working" /\ live # j) /\ (run'[j].at = "working" /\ live' # j)
                \/ run'[j].at = "saving" /\ run'[j].out # "done",
           live' # NoItem => live' \notin cancelled /\ told'[live'] = <<>>
    PROVE  JobInv'
<1>1. ASSUME NEW j \in cancelled
      PROVE  /\ asked'[j] # 0 /\ told'[j] # <<"done">>
             /\ \/ told'[j] # <<>>
                \/ run'[j].at = "working" /\ live' # j
                \/ run'[j].at = "saving" /\ run'[j].out # "done"
  <2>1. j \in Items /\ j \in Jobs
    BY ItemKinds
  <2>2. told'[j] = told[j] \/ (told[j] = <<>> /\ told'[j] # <<>> /\ told'[j] # <<"done">>)
    BY <2>1 DEF Grows
  <2>3. asked[j] # 0 /\ told[j] # <<"done">>
    BY DEF JobInv
  <2> QED
    BY <2>2, <2>3
<1> QED
  BY <1>1 DEF JobInv

-----------------------------------------------------------------------------
(* What a conjunct depends on.                                             *)

(* What a step leaves alone keeps its part of the invariant: the saves,    *)
LEMMA SameSaves ==
    ASSUME SavesInv, UNCHANGED <<saves, run, sending, busy, closed>>
    PROVE  SavesInv'
  BY DEF SavesInv, Away, Open

(* the turns,                                                              *)
LEMMA SameRun ==
    ASSUME RunInv, UNCHANGED <<run, busy, closed, live, output>>
    PROVE  RunInv'
  BY DEF RunInv, Away, Open

(* the requests,                                                           *)
LEMMA SameSend ==
    ASSUME SendInv, UNCHANGED <<sending, waiting, entries>>
    PROVE  SendInv'
  BY DEF SendInv

(* the messages,                                                           *)
LEMMA SameMessage ==
    ASSUME MessageInv, UNCHANGED <<entries, waiting, started, saved, saves, run>>
    PROVE  MessageInv'
  BY DEF MessageInv, Pending

(* the queue,                                                              *)
LEMMA SameWait ==
    ASSUME WaitInv, UNCHANGED <<waiting, busy, saves>>
    PROVE  WaitInv'
  BY DEF WaitInv

(* where those who hear of a turn are,                                     *)
LEMMA SamePlace ==
    ASSUME PlaceInv, UNCHANGED <<waiting, run, sending, chain, saves>>
    PROVE  PlaceInv'
  BY DEF PlaceInv, Away, Sent, Pending

(* what they were told,                                                    *)
LEMMA SameTold ==
    ASSUME ToldInv, UNCHANGED <<waiting, run, sending, chain, saves, told>>
    PROVE  ToldInv'
  BY DEF ToldInv, Due, Sent, Pending

(* what was asked for,                                                     *)
LEMMA SameAsked ==
    ASSUME AskedInv, UNCHANGED <<waiting, run, sending, chain, saves, told, asked>>, load'.asks = load.asks
    PROVE  AskedInv'
  BY DEF AskedInv, Seen, Away, Sent, Pending

(* and the jobs that were cancelled.                                       *)
LEMMA SameJob ==
    ASSUME JobInv, UNCHANGED <<cancelled, asked, told, run, live>>
    PROVE  JobInv'
  BY DEF JobInv

(* Types of what the sequences hold.                                       *)
LEMMA SaveTypes ==
    ASSUME ChatTypeOK
    PROVE  /\ saves \in Seq([for: Fors, item: Items])
           /\ \A x \in Range(saves) : /\ x \in [for: Fors, item: Items] /\ x.for \in Fors /\ x.item \in Items
                                      /\ x = [for |-> x.for, item |-> x.item]
<1> DEFINE R == [for: Fors, item: Items]
<1>1. saves \in Seq(R)
  BY DEF ChatTypeOK
<1>2. \A r \in R : r.for \in Fors /\ r.item \in Items /\ r = [for |-> r.for, item |-> r.item]
  OBVIOUS
<1> HIDE DEF R
<1>3. \A x \in Range(saves) : x \in R
  BY <1>1, DomFacts
<1> QED
  BY <1>1, <1>2, <1>3 DEF R

(* The requests and their fields.                                          *)
LEMMA SendTypes ==
    ASSUME ChatTypeOK
    PROVE  /\ sending \in Seq([item: Messages \cup Invokes \cup Drafts, at: {"new", "checked", "saving"}])
           /\ DOMAIN sending = 1 .. Len(sending) /\ Len(sending) \in Nat
           /\ sending # <<>> <=> Len(sending) > 0
           /\ \A k \in DOMAIN sending :
                /\ sending[k] \in [item: Messages \cup Invokes \cup Drafts, at: {"new", "checked", "saving"}]
                /\ sending[k] = [item |-> sending[k].item, at |-> sending[k].at]
                /\ sending[k].item \in Messages \cup Invokes \cup Drafts /\ sending[k].item \in Items
                /\ sending[k].at \in {"new", "checked", "saving"} /\ sending[k].item \in Sent
<1>1. sending \in Seq([item: Messages \cup Invokes \cup Drafts, at: {"new", "checked", "saving"}])
  BY DEF ChatTypeOK
<1> DEFINE R == [item: Messages \cup Invokes \cup Drafts, at: {"new", "checked", "saving"}]
<1>2. \A r \in R : /\ r.item \in Messages \cup Invokes \cup Drafts /\ r.item \in Items
                   /\ r.at \in {"new", "checked", "saving"} /\ r = [item |-> r.item, at |-> r.at]
  BY DEF Items
<1>3. sending \in Seq(R)
  BY <1>1
<1> HIDE DEF R
<1>4. /\ DOMAIN sending = 1 .. Len(sending) /\ Len(sending) \in Nat
      /\ sending # <<>> <=> Len(sending) > 0
      /\ \A k \in DOMAIN sending : sending[k] \in R
  BY <1>3
<1>5. \A k \in DOMAIN sending : sending[k].item \in Sent
  BY DEF Sent
<1> QED
  BY <1>1, <1>2, <1>4, <1>5 DEF R

-----------------------------------------------------------------------------
(* Steps that move little.                                                 *)

(* A comment thread is resolved.                                           *)
LEMMA ResolveKeeps ==
    ASSUME TurnInv, NEW n \in Notes, Resolve(n)
    PROVE  TurnInv'
<1>1. /\ UNCHANGED <<entries, saved, waiting, sending, saves, busy, run, chain, started, closed,
                     fatal, load, live, output, stop, draft, asked, cancelled, told, folded>>
      /\ spent' = spent \cup {n}
  BY DEF Resolve, transcript, turns, ends, job, words
<1>2. ChatTypeOK'
  BY <1>1 DEF TurnInv, ChatTypeOK
<1> QED
  BY <1>1, <1>2, SameSaves, SameRun, SameSend, SameMessage, SameWait, SamePlace, SameTold, SameAsked,
     SameJob, Zenon DEF TurnInv

(* A job's tool reports.                                                   *)
LEMMA SubmitKeeps ==
    ASSUME TurnInv, JobSubmits
    PROVE  TurnInv'
<1>1. /\ UNCHANGED <<entries, saved, waiting, sending, saves, busy, run, chain, started, closed,
                     fatal, load, live, stop, draft, asked, spent, cancelled, told, folded>>
      /\ output' = TRUE /\ live # NoItem
  BY DEF JobSubmits, transcript, turns, ends, people, words
<1>2. ChatTypeOK'
  BY <1>1 DEF TurnInv, ChatTypeOK
<1>3. RunInv'
  BY <1>1 DEF TurnInv, RunInv, Away, Open
<1> QED
  BY <1>1, <1>2, <1>3, SameSaves, SameSend, SameMessage, SameWait, SamePlace, SameTold, SameAsked,
     SameJob DEF TurnInv

(* The running turn is stopped or interrupted.                             *)
LEMMA StopKeeps ==
    ASSUME TurnInv, NEW how \in {"stopped", "interrupted"}, StopTurn(how)
    PROVE  TurnInv'
<1>1. /\ UNCHANGED <<entries, saved, waiting, sending, saves, busy, run, chain, started, closed,
                     fatal, load, draft, asked, spent, cancelled, told, folded>>
      /\ stop' = how /\ live' = NoItem /\ output' = FALSE
  BY DEF StopTurn, transcript, turns, ends, people, words
<1>2. ChatTypeOK'
  BY <1>1 DEF TurnInv, ChatTypeOK
<1>3. RunInv'
  BY <1>1 DEF TurnInv, RunInv, Away, Open
<1>4. JobInv'
  <2>1. cancelled \subseteq Jobs /\ NoItem \notin Jobs
    BY ItemKinds DEF TurnInv, ChatTypeOK
  <2> QED
    BY <1>1, <2>1 DEF TurnInv, JobInv
<1> QED
  BY <1>1, <1>2, <1>3, <1>4, SameSaves, SameSend, SameMessage, SameWait, SamePlace, SameTold,
     SameAsked DEF TurnInv

(* The Chat has closed.                                                    *)
LEMMA ClosedKeeps ==
    ASSUME TurnInv, Closed
    PROVE  TurnInv'
<1>1. /\ UNCHANGED <<entries, saved, waiting, sending, saves, busy, run, chain, started, fatal,
                     load, live, output, stop, draft, asked, spent, cancelled, told, folded>>
      /\ closed' = "closed"
  BY DEF Closed, transcript, turns, job, people, words
<1>2. ChatTypeOK'
  BY <1>1 DEF TurnInv, ChatTypeOK
<1>3. RunInv'
  BY <1>1 DEF TurnInv, RunInv, Away, Open
<1>4. SavesInv'
  BY <1>1 DEF TurnInv, SavesInv, Away, Open
<1> QED
  BY <1>1, <1>2, <1>3, <1>4, SameSend, SameMessage, SameWait, SamePlace, SameTold, SameAsked,
     SameJob DEF TurnInv

-----------------------------------------------------------------------------
(* Requests.                                                               *)

(* A request is added.                                                     *)
LEMMA AddedRequest ==
    ASSUME ChatTypeOK, NEW i \in Messages \cup Invokes \cup Drafts,
           sending' = Append(sending, [item |-> i, at |-> "new"])
    PROVE  /\ DOMAIN sending' = 1 .. Len(sending) + 1 /\ Len(sending') = Len(sending) + 1
           /\ sending' \in Seq([item: Messages \cup Invokes \cup Drafts, at: {"new", "checked", "saving"}])
           /\ \A k \in DOMAIN sending : k \in DOMAIN sending' /\ sending'[k] = sending[k]
           /\ sending'[Len(sending) + 1] = [item |-> i, at |-> "new"]
           /\ \A k \in DOMAIN sending' : k \in DOMAIN sending \/ k = Len(sending) + 1
           /\ Sent' = Sent \cup {i} /\ sending' # <<>>
<1> DEFINE R == [item: Messages \cup Invokes \cup Drafts, at: {"new", "checked", "saving"}]
<1>1. sending \in Seq(R)
  BY DEF ChatTypeOK
<1>2. PICK r \in R : r = [item |-> i, at |-> "new"] /\ r.item = i
  OBVIOUS
<1> HIDE DEF R
<1>3. /\ sending' \in Seq(R)
      /\ DOMAIN sending' = 1 .. Len(sending) + 1 /\ Len(sending') = Len(sending) + 1
      /\ \A k \in DOMAIN sending : k \in DOMAIN sending' /\ sending'[k] = sending[k]
      /\ sending'[Len(sending) + 1] = r
      /\ \A k \in DOMAIN sending' : k \in DOMAIN sending \/ k = Len(sending) + 1
      /\ Len(sending) + 1 \in DOMAIN sending'
  BY <1>1, <1>2
<1>4. Sent' = Sent \cup {i}
  <2>1. ASSUME NEW x \in Sent'
        PROVE  x \in Sent \cup {i}
    <3>1. PICK k \in DOMAIN sending' : x = sending'[k].item
      BY DEF Sent
    <3> QED
      BY <1>2, <1>3, <3>1 DEF Sent
  <2>2. ASSUME NEW x \in Sent
        PROVE  x \in Sent'
    <3>1. PICK k \in DOMAIN sending : x = sending[k].item
      BY DEF Sent
    <3>2. k \in DOMAIN sending' /\ sending'[k].item = x
      BY <1>3, <3>1
    <3> QED
      BY <3>2 DEF Sent
  <2>3. i \in Sent'
    <3>1. Len(sending) + 1 \in DOMAIN sending' /\ sending'[Len(sending) + 1].item = i
      BY <1>2, <1>3
    <3> QED
      BY <3>1 DEF Sent
  <2> QED
    BY <2>1, <2>2, <2>3
<1>5. sending' # <<>>
  BY <1>3
<1> QED
  BY <1>2, <1>3, <1>4, <1>5 DEF R

(* The first request is answered.                                          *)
LEMMA AnsweredRequest ==
    ASSUME ChatTypeOK, SendInv, sending # <<>>, sending' = RemoveAt(sending, 1)
    PROVE  /\ sending' \in Seq([item: Messages \cup Invokes \cup Drafts, at: {"new", "checked", "saving"}])
           /\ Len(sending') <= MaxPending
           /\ 1 \in DOMAIN sending
           /\ \A k \in DOMAIN sending' : /\ k + 1 \in DOMAIN sending /\ sending'[k] = sending[k + 1]
                                         /\ sending'[k].at = "new"
           /\ Sent' \subseteq Sent /\ Sent \ {sending[1].item} \subseteq Sent'
           /\ sending[1].item \notin Messages => sending[1].item \notin Sent'
<1> DEFINE R == [item: Messages \cup Invokes \cup Drafts, at: {"new", "checked", "saving"}]
<1>1. sending \in Seq(R) /\ Len(sending) <= MaxPending /\ MaxPending \in Nat
  BY LoadAssumption DEF ChatTypeOK
<1> HIDE DEF R
<1>2. /\ sending' \in Seq(R) /\ Len(sending') = Len(sending) - 1
      /\ DOMAIN sending' = 1 .. Len(sending) - 1
      /\ \A k \in DOMAIN sending' : k + 1 \in DOMAIN sending /\ sending'[k] = sending[k + 1]
  BY <1>1, FirstGone
<1>3. DOMAIN sending = 1 .. Len(sending) /\ Len(sending) \in Nat /\ 1 \in DOMAIN sending
  BY <1>1
<1>4. ASSUME NEW k \in DOMAIN sending'
      PROVE  sending'[k].at = "new" /\ (k + 1 \in DOMAIN sending /\ k + 1 # 1)
  BY <1>2, <1>3 DEF SendInv
<1>5. ASSUME NEW x \in Sent'
      PROVE  x \in Sent /\ (x = sending[1].item => x \in Messages)
  <2>1. PICK k \in DOMAIN sending' : x = sending'[k].item
    BY DEF Sent
  <2>2. k + 1 \in DOMAIN sending /\ x = sending[k + 1].item /\ k + 1 # 1
    BY <1>2, <1>4, <2>1
  <2>3. x \in Sent
    BY <2>2 DEF Sent
  <2> QED
    BY <1>3, <2>2, <2>3 DEF SendInv
<1>6. ASSUME NEW x \in Sent, x # sending[1].item
      PROVE  x \in Sent'
  <2>1. PICK k \in DOMAIN sending : x = sending[k].item
    BY DEF Sent
  <2>2. k - 1 \in DOMAIN sending' /\ (k - 1) + 1 = k
    BY <1>2, <1>3, <1>6, <2>1
  <2>3. sending'[k - 1] = sending[k]
    BY <1>2, <2>2
  <2> QED
    BY <2>1, <2>2, <2>3 DEF Sent
<1>7. Len(sending') <= MaxPending
  BY <1>1, <1>2, <1>3
<1> QED
  BY <1>2, <1>3, <1>4, <1>5, <1>6, <1>7 DEF R

(* The first request moves on.                                             *)
LEMMA MovedRequest ==
    ASSUME ChatTypeOK, SendInv, sending # <<>>, NEW a \in {"checked", "saving"},
           sending' = [sending EXCEPT ![1].at = a]
    PROVE  /\ sending' \in Seq([item: Messages \cup Invokes \cup Drafts, at: {"new", "checked", "saving"}])
           /\ Len(sending') = Len(sending) /\ sending' # <<>>
           /\ DOMAIN sending' = DOMAIN sending /\ 1 \in DOMAIN sending
           /\ sending'[1] = [item |-> sending[1].item, at |-> a]
           /\ \A k \in DOMAIN sending : k # 1 => sending'[k] = sending[k]
           /\ \A k \in DOMAIN sending : sending'[k].item = sending[k].item
           /\ Sent' = Sent
<1> DEFINE R == [item: Messages \cup Invokes \cup Drafts, at: {"new", "checked", "saving"}]
<1>1. sending \in Seq(R)
  BY DEF ChatTypeOK
<1> HIDE DEF R
<1>2. DOMAIN sending = 1 .. Len(sending) /\ Len(sending) \in Nat /\ 1 \in DOMAIN sending /\ sending[1] \in R
  BY <1>1
<1> USE DEF R
<1>3. sending' = [sending EXCEPT ![1] = [sending[1] EXCEPT !.at = a]]
  OBVIOUS
<1>4. PICK r \in R : r = [sending[1] EXCEPT !.at = a] /\ r.item = sending[1].item
                     /\ r = [item |-> sending[1].item, at |-> a]
  BY <1>2
<1>5. sending' = [sending EXCEPT ![1] = r]
  BY <1>3, <1>4
<1> HIDE DEF R
<1>6. /\ sending' \in Seq(R) /\ Len(sending') = Len(sending)
      /\ DOMAIN sending' = DOMAIN sending /\ sending'[1] = r
      /\ \A k \in DOMAIN sending : k # 1 => sending'[k] = sending[k]
  BY <1>1, <1>2, <1>5
<1>7. \A k \in DOMAIN sending : sending'[k].item = sending[k].item
  BY <1>4, <1>6
<1>8. Sent' = Sent
  BY <1>6, <1>7 DEF Sent
<1>9. sending' # <<>>
  BY <1>2, <1>6
<1> QED
  BY <1>2, <1>4, <1>6, <1>7, <1>8, <1>9 DEF R

(* Nothing is saved for a request whose first one is not being saved.      *)
LEMMA NoRequest ==
    ASSUME SavesInv, sending = <<>> \/ sending[1].at # "saving"
    PROVE  \A x \in Range(saves) : x.for \notin Requests
<1> SUFFICES ASSUME NEW x \in Range(saves), x.for \in Requests
             PROVE  FALSE
  OBVIOUS
<1>1. sending # <<>> /\ sending[1] = [item |-> x.item, at |-> "saving"]
  BY DEF SavesInv
<1>2. sending[1].at = "saving"
  BY <1>1
<1> QED
  BY <1>1, <1>2

(* Without its first request the queue of requests is still in order.      *)
LEMMA AnsweredSend ==
    ASSUME ChatTypeOK, SendInv, sending # <<>>, sending' = RemoveAt(sending, 1),
           \A x \in Drafts : x \in Range(waiting') => x \in Range(waiting) \/ x = sending[1].item
    PROVE  SendInv'
<1>1. /\ 1 \in DOMAIN sending
      /\ \A k \in DOMAIN sending' : /\ k + 1 \in DOMAIN sending /\ sending'[k] = sending[k + 1]
                                    /\ sending'[k].at = "new"
      /\ sending[1].item \notin Messages => sending[1].item \notin Sent'
  BY AnsweredRequest
<1>2. DOMAIN sending' \subseteq Int
  <2>1. sending' \in Seq([item: Messages \cup Invokes \cup Drafts, at: {"new", "checked", "saving"}])
    BY AnsweredRequest
  <2> QED
    BY <2>1
<1>3. ASSUME NEW k \in DOMAIN sending', NEW l \in DOMAIN sending',
             sending'[k].item = sending'[l].item, sending'[k].item \notin Messages
      PROVE  k = l
  <2>1. k + 1 = l + 1
    BY <1>1, <1>3 DEF SendInv
  <2> QED
    BY <1>2, <2>1
<1>4. ASSUME NEW k \in DOMAIN sending', sending'[k].item \in Drafts
      PROVE  sending'[k].item \notin Range(waiting')
  <2>1. sending'[k].item \in Sent' /\ sending'[k].item \notin Messages
    BY <1>4, ItemKinds DEF Sent
  <2>2. sending'[k].item # sending[1].item
    BY <1>1, <2>1
  <2>3. sending[k + 1].at = "new" /\ sending'[k].item = sending[k + 1].item /\ k + 1 \in DOMAIN sending
    BY <1>1
  <2>4. sending[k + 1].item \notin Range(waiting)
    BY <1>4, <2>3 DEF SendInv
  <2> QED
    BY <1>4, <2>2, <2>3, <2>4
<1> QED
  BY <1>1, <1>3, <1>4 DEF SendInv

(* A request is answered and nothing else happens.                         *)
LEMMA AnsweredKeeps ==
    ASSUME TurnInv, sending # <<>>, sending[1].at # "saving", sending' = RemoveAt(sending, 1),
           UNCHANGED <<transcript, waiting, saves, turns, ends, job, draft, people, words>>
    PROVE  TurnInv'
<1>1. UNCHANGED <<entries, saved, waiting, saves, busy, run, chain, started, closed, fatal, load,
                  live, output, stop, draft, asked, spent, cancelled, told, folded>>
  BY DEF transcript, turns, ends, job, people, words
<1>2. /\ sending' \in Seq([item: Messages \cup Invokes \cup Drafts, at: {"new", "checked", "saving"}])
      /\ Len(sending') <= MaxPending /\ Sent' \subseteq Sent
  BY AnsweredRequest DEF TurnInv
<1>3. ChatTypeOK'
  BY <1>1, <1>2 DEF TurnInv, ChatTypeOK
<1>4. SavesInv'
  BY <1>1, NoRequest DEF TurnInv, SavesInv, Away, Open
<1>5. SendInv'
  BY <1>1, AnsweredSend DEF TurnInv
<1>6. PlaceInv'
  BY <1>1, <1>2 DEF TurnInv, PlaceInv, Away, Pending
<1>7. ToldInv'
  BY <1>1, <1>2 DEF TurnInv, ToldInv, Due, Pending
<1>8. AskedInv'
  BY <1>1, <1>2 DEF TurnInv, AskedInv, Seen, Away, Pending
<1> QED
  BY <1>1, <1>3, <1>4, <1>5, <1>6, <1>7, <1>8, SameRun, SameMessage, SameWait, SameJob DEF TurnInv

(* A request is refused.                                                   *)
LEMMA RefuseKeeps ==
    ASSUME TurnInv, NEW k, Refuse(k)
    PROVE  TurnInv'
<1>1. /\ k = 1 /\ sending # <<>> /\ sending[1].at = "checked" /\ sending' = RemoveAt(sending, 1)
      /\ UNCHANGED <<transcript, waiting, saves, turns, ends, job, draft, people, words>>
  BY DEF Refuse, InTurn, Answered
<1> QED
  BY <1>1, AnsweredKeeps

(* A request passes its first checks, or is answered from its first send.  *)
LEMMA CheckKeeps ==
    ASSUME TurnInv, NEW k, Check(k)
    PROVE  TurnInv'
<1>1. /\ k = 1 /\ sending # <<>> /\ sending[1].at = "new"
      /\ UNCHANGED <<transcript, waiting, saves, turns, ends, job, draft, people, words>>
      /\ \/ sending' = RemoveAt(sending, 1)
         \/ /\ sending' = [sending EXCEPT ![1].at = "checked"]
            /\ ~(sending[1].item \in Messages /\ Replayed(sending[1].item))
  BY DEF Check, InTurn, Answered, At
<1>2. CASE sending' = RemoveAt(sending, 1)
  BY <1>1, <1>2, AnsweredKeeps
<1>3. CASE /\ sending' = [sending EXCEPT ![1].at = "checked"]
           /\ ~(sending[1].item \in Messages /\ Replayed(sending[1].item))
  <2>1. UNCHANGED <<entries, saved, waiting, saves, busy, run, chain, started, closed, fatal, load,
                    live, output, stop, draft, asked, spent, cancelled, told, folded>>
    BY <1>1 DEF transcript, turns, ends, job, people, words
  <2>2. /\ sending' \in Seq([item: Messages \cup Invokes \cup Drafts, at: {"new", "checked", "saving"}])
        /\ Len(sending') = Len(sending) /\ sending' # <<>>
        /\ DOMAIN sending' = DOMAIN sending /\ 1 \in DOMAIN sending
        /\ sending'[1] = [item |-> sending[1].item, at |-> "checked"]
        /\ \A l \in DOMAIN sending : l # 1 => sending'[l] = sending[l]
        /\ \A l \in DOMAIN sending : sending'[l].item = sending[l].item
        /\ Sent' = Sent
    BY <1>1, <1>3, MovedRequest DEF TurnInv
  <2>3. ChatTypeOK'
    BY <2>1, <2>2 DEF TurnInv, ChatTypeOK
  <2>4. SavesInv'
    BY <1>1, <2>1, NoRequest DEF TurnInv, SavesInv, Away, Open
  <2>5. SendInv'
    <3>1. DOMAIN sending \subseteq Int
      BY SendTypes DEF TurnInv
    <3>2. \A l \in DOMAIN sending' : l > 1 => sending'[l].at = "new"
      BY <2>2, <3>1 DEF TurnInv, SendInv
    <3>3. \A l, m \in DOMAIN sending' :
            sending'[l].item = sending'[m].item /\ sending'[l].item \notin Messages => l = m
      BY <2>2 DEF TurnInv, SendInv
    <3>4. \A l \in DOMAIN sending' : sending'[l].at # "saving" /\ sending'[l].item \in Drafts =>
            sending'[l].item \notin Range(waiting')
      BY <1>1, <2>1, <2>2 DEF TurnInv, SendInv
    <3>5. \A l \in DOMAIN sending' : sending'[l].at = "checked" /\ sending'[l].item \in Messages =>
            sending'[l].item \notin Range(entries') \cup Range(waiting')
      BY <1>3, <2>1, <2>2 DEF TurnInv, SendInv, Replayed
    <3> QED
      BY <3>2, <3>3, <3>4, <3>5 DEF SendInv
  <2>6. PlaceInv'
    BY <2>1, <2>2 DEF TurnInv, PlaceInv, Away, Pending
  <2>7. ToldInv'
    BY <2>1, <2>2 DEF TurnInv, ToldInv, Due, Pending
  <2>8. AskedInv'
    BY <2>1, <2>2 DEF TurnInv, AskedInv, Seen, Away, Pending
  <2> QED
    BY <2>1, <2>3, <2>4, <2>5, <2>6, <2>7, <2>8, SameRun, SameMessage, SameWait, SameJob DEF TurnInv
<1> QED
  BY <1>1, <1>2, <1>3

-----------------------------------------------------------------------------
(* Steps that finish saves and requests.                                   *)

\* Of the saves, s is left; at most the first request is answered.
Goes(s) ==
    /\ s \in Seq([for: Fors, item: Items]) /\ NoDup(s) /\ Range(s) \subseteq Range(saves)
    /\ \/ sending' = sending
       \/ sending # <<>> /\ sending' = RemoveAt(sending, 1) /\ \A x \in Range(s) : x.for \notin Requests
    /\ saved' = saved \/ saved' = Range(entries)
    /\ load' \in [asks: [Items -> Nat], faults: Nat] /\ load'.asks = load.asks
    /\ fatal' \in BOOLEAN

(* What Goes says of the requests and of the saves that are left.          *)
LEMMA GoesFacts ==
    ASSUME TurnInv, NEW s, Goes(s)
    PROVE  /\ sending' \in Seq([item: Messages \cup Invokes \cup Drafts, at: {"new", "checked", "saving"}])
           /\ Len(sending') <= MaxPending /\ Sent' \subseteq Sent
           /\ saved' \subseteq Messages \cup Invokes
           /\ \A m \in Messages : started[m] = 1 => m \in saved'
           /\ \A x \in Range(s) : x.for \in Requests =>
                sending' # <<>> /\ sending'[1] = [item |-> x.item, at |-> "saving"]
           /\ \A x \in Range(s) : /\ x \in [for: Fors, item: Items] /\ x.for \in Fors /\ x.item \in Items
                                  /\ x = [for |-> x.for, item |-> x.item]
<1>1. ChatTypeOK /\ SendInv /\ SavesInv /\ MessageInv
  BY DEF TurnInv
<1>2. /\ sending' \in Seq([item: Messages \cup Invokes \cup Drafts, at: {"new", "checked", "saving"}])
      /\ Len(sending') <= MaxPending /\ Sent' \subseteq Sent
  <2>1. CASE sending' = sending
    BY <1>1, <2>1 DEF ChatTypeOK, Sent
  <2>2. CASE sending # <<>> /\ sending' = RemoveAt(sending, 1)
    BY <1>1, <2>2, AnsweredRequest
  <2> QED
    BY <2>1, <2>2 DEF Goes
<1>3. Range(entries) \subseteq Messages \cup Invokes
  <2>1. entries \in Seq(Messages \cup Invokes)
    BY <1>1 DEF ChatTypeOK
  <2> QED
    BY <2>1, DomFacts
<1>4. saved' \subseteq Messages \cup Invokes
  BY <1>1, <1>3 DEF Goes, ChatTypeOK
<1>5. \A m \in Messages : started[m] = 1 => m \in saved'
  BY <1>1 DEF Goes, MessageInv
<1>6. \A x \in Range(s) : x.for \in Requests =>
        sending' # <<>> /\ sending'[1] = [item |-> x.item, at |-> "saving"]
  BY <1>1 DEF Goes, SavesInv
<1>7. \A x \in Range(s) : /\ x \in [for: Fors, item: Items] /\ x.for \in Fors /\ x.item \in Items
                          /\ x = [for |-> x.for, item |-> x.item]
  BY <1>1, SaveTypes DEF Goes
<1> QED
  BY <1>2, <1>4, <1>5, <1>6, <1>7

(* The requests are still checked against the queue and the transcript.    *)
LEMMA GoesSend ==
    ASSUME TurnInv, NEW s, Goes(s),
           \A x \in Messages : x \in Range(waiting') \cup Range(entries') => x \in Range(waiting) \cup Range(entries),
           \A x \in Drafts : x \in Range(waiting') => x \in Range(waiting)
    PROVE  SendInv'
<1>1. ChatTypeOK /\ SendInv
  BY DEF TurnInv
<1>2. CASE sending' = sending
  <2>1. \A k \in DOMAIN sending' : k > 1 => sending'[k].at = "new"
    BY <1>1, <1>2 DEF SendInv
  <2>2. \A k, l \in DOMAIN sending' :
           sending'[k].item = sending'[l].item /\ sending'[k].item \notin Messages => k = l
    BY <1>1, <1>2 DEF SendInv
  <2>3. \A k \in DOMAIN sending' : sending'[k].at # "saving" /\ sending'[k].item \in Drafts =>
            sending'[k].item \notin Range(waiting')
    BY <1>1, <1>2 DEF SendInv
  <2>4. \A k \in DOMAIN sending' : sending'[k].at = "checked" /\ sending'[k].item \in Messages =>
            sending'[k].item \notin Range(entries') \cup Range(waiting')
    BY <1>1, <1>2 DEF SendInv
  <2> QED
    BY <2>1, <2>2, <2>3, <2>4 DEF SendInv
<1>3. CASE sending # <<>> /\ sending' = RemoveAt(sending, 1)
  BY <1>1, <1>3, AnsweredSend
<1> QED
  BY <1>2, <1>3 DEF Goes

(* The saves that are left are still what they were.                       *)
LEMMA GoesSaves ==
    ASSUME TurnInv, Goes(saves'),
           \A x \in Range(saves') :
              /\ x.for \in {"end", "handoff"} => run'[x.item].at = run[x.item].at
              /\ x.for = "send" /\ Open' => Open /\ busy' /\ \A i \in Items : Away(i)'
    PROVE  SavesInv'
<1>1. SavesInv /\ NoDup(saves') /\ Range(saves') \subseteq Range(saves)
  BY DEF TurnInv, Goes
<1>2. \A x \in Range(saves') : x.for \in Requests =>
                sending' # <<>> /\ sending'[1] = [item |-> x.item, at |-> "saving"]
  BY GoesFacts
<1>3. ASSUME NEW x \in Range(saves')
      PROVE  /\ x.for = "end" => run'[x.item].at = "saving"
             /\ x.for = "handoff" => run'[x.item].at = "handoff"
             /\ x.for = "notice" => x.item \in Notes
             /\ x.for = "send" => x.item \in Messages
             /\ x.for \in {"invoke", "followup"} => x.item \in Invokes
             /\ x.for = "draft" => x.item \in Drafts
  <2>1. x \in Range(saves)
    BY <1>1
  <2> QED
    BY <1>1, <2>1 DEF SavesInv
<1>4. \A x, y \in Range(saves') : x.for \in Requests /\ y.for \in Requests => x = y
  BY <1>1 DEF SavesInv
<1> QED
  BY <1>1, <1>2, <1>3, <1>4 DEF SavesInv

(* A queue that is shorter.                                                *)
LEMMA ShorterWait ==
    ASSUME TurnInv, NoDup(waiting'), waiting' \in Seq(Items), Len(waiting') < Len(waiting)
    PROVE  WaitInv'
<1>1. Len(waiting) <= MaxQueue + 1 /\ Len(waiting) \in Nat /\ Len(waiting') \in Nat /\ MaxQueue \in Nat
  BY LoadAssumption DEF TurnInv, WaitInv, ChatTypeOK
<1>2. Len(waiting') <= MaxQueue /\ Len(waiting') <= MaxQueue + 1
  BY <1>1
<1> QED
  BY <1>1, <1>2 DEF WaitInv

(* The queue, its bound and the transcript.                                *)
LEMMA WaitTypes ==
    ASSUME TurnInv
    PROVE  /\ waiting \in Seq(Items) /\ Len(waiting) \in Nat /\ MaxQueue \in Nat /\ NoDup(waiting)
           /\ Range(waiting) \subseteq Items
           /\ entries \in Seq(Messages \cup Invokes) /\ Range(entries) \subseteq Messages \cup Invokes
<1>1. waiting \in Seq(Items) /\ entries \in Seq(Messages \cup Invokes)
  BY DEF TurnInv, ChatTypeOK
<1>2. Range(waiting) \subseteq Items /\ Range(entries) \subseteq Messages \cup Invokes
  BY <1>1, DomFacts
<1>3. Len(waiting) \in Nat
  BY <1>1
<1> QED
  BY <1>1, <1>2, <1>3, LoadAssumption DEF TurnInv, WaitInv

(* An item is added to a queue that is not full.                           *)
LEMMA LongerWait ==
    ASSUME TurnInv, NEW i \in Items, i \notin Range(waiting), ~Full, waiting' = Append(waiting, i)
    PROVE  /\ WaitInv' /\ waiting' \in Seq(Items) /\ Range(waiting') = Range(waiting) \cup {i}
<1>1. /\ waiting \in Seq(Items) /\ Len(waiting) \in Nat /\ MaxQueue \in Nat /\ NoDup(waiting)
  BY WaitTypes
<1>2. /\ waiting' \in Seq(Items) /\ Len(waiting') = Len(waiting) + 1
      /\ Range(waiting') = Range(waiting) \cup {i} /\ NoDup(waiting')
  BY <1>1, AppendFacts
<1>3. Len(waiting') <= MaxQueue /\ Len(waiting') <= MaxQueue + 1 /\ Len(waiting') \in Nat
  BY <1>1, <1>2 DEF Full
<1> QED
  BY <1>1, <1>2, <1>3 DEF WaitInv

-----------------------------------------------------------------------------
(* Asking, withdrawing, cancelling, closing.                               *)

(* Somebody sends, invokes or asks for a draft.                            *)
LEMMA AskKeeps ==
    ASSUME TurnInv, NEW i \in Messages \cup Invokes \cup Drafts, Ask(i)
    PROVE  TurnInv'
<1>1. /\ UNCHANGED <<entries, saved, waiting, saves, busy, run, chain, started, closed, fatal, load,
                     live, output, stop, draft, spent, cancelled, told, folded>>
      /\ Len(sending) < MaxPending /\ asked[i] < load.asks[i]
      /\ asked' = [asked EXCEPT ![i] = @ + 1]
      /\ sending' = Append(sending, [item |-> i, at |-> "new"])
  BY DEF Ask, transcript, turns, ends, job, words
<1>2. i \in Items /\ MaxPending \in Nat
  BY LoadAssumption DEF Items
<1>3. /\ DOMAIN sending' = 1 .. Len(sending) + 1 /\ Len(sending') = Len(sending) + 1
      /\ sending' \in Seq([item: Messages \cup Invokes \cup Drafts, at: {"new", "checked", "saving"}])
      /\ \A k \in DOMAIN sending : k \in DOMAIN sending' /\ sending'[k] = sending[k]
      /\ sending'[Len(sending) + 1] = [item |-> i, at |-> "new"]
      /\ \A k \in DOMAIN sending' : k \in DOMAIN sending \/ k = Len(sending) + 1
      /\ Sent' = Sent \cup {i} /\ sending' # <<>>
  BY <1>1, AddedRequest DEF TurnInv
<1>4. /\ DOMAIN sending = 1 .. Len(sending) /\ Len(sending) \in Nat
      /\ sending # <<>> => 1 \in DOMAIN sending
      /\ \A k \in DOMAIN sending : sending[k].item \in Sent
  BY SendTypes DEF TurnInv
<1>5. asked \in [Items -> Nat] /\ load.asks \in [Items -> Nat] /\ told \in [Items -> Seq(Outs)]
  BY DEF TurnInv, ChatTypeOK
<1>6. asked' \in [Items -> Nat] /\ asked'[i] # 0 /\ \A j \in Items : j # i => asked'[j] = asked[j]
  BY <1>1, <1>2, <1>5
<1>7. i \notin Messages => ~Seen(i)
  <2>1. i \notin Messages => load.asks[i] <= 1 /\ (Seen(i) => asked[i] # 0)
    BY <1>2 DEF TurnInv, AskedInv
  <2> QED
    BY <1>1, <1>2, <1>5, <2>1
<1>8. ChatTypeOK'
  BY <1>1, <1>2, <1>3, <1>4, <1>6 DEF TurnInv, ChatTypeOK
<1>9. SavesInv'
  <2>1. sending # <<>> => sending'[1] = sending[1]
    BY <1>3, <1>4
  <2> QED
    BY <1>1, <1>3, <2>1 DEF TurnInv, SavesInv, Away, Open
<1>10. SendInv'
  <2>1. \A k \in DOMAIN sending' : k > 1 => sending'[k].at = "new"
    BY <1>3 DEF TurnInv, SendInv
  <2>2. i \notin Messages => i \notin Sent
    BY <1>7 DEF Seen
  <2>3. \A k, l \in DOMAIN sending' :
          sending'[k].item = sending'[l].item /\ sending'[k].item \notin Messages => k = l
    <3> SUFFICES ASSUME NEW k \in DOMAIN sending', NEW l \in DOMAIN sending',
                        sending'[k].item = sending'[l].item, sending'[k].item \notin Messages
                 PROVE  k = l
      OBVIOUS
    <3>1. CASE k \in DOMAIN sending /\ l \in DOMAIN sending
      BY <1>3, <3>1 DEF TurnInv, SendInv
    <3>2. CASE k = Len(sending) + 1 /\ l \in DOMAIN sending
      BY <1>3, <1>4, <2>2, <3>2
    <3>3. CASE l = Len(sending) + 1 /\ k \in DOMAIN sending
      BY <1>3, <1>4, <2>2, <3>3
    <3> QED
      BY <1>3, <3>1, <3>2, <3>3
  <2>4. \A k \in DOMAIN sending' :
          sending'[k].at # "saving" /\ sending'[k].item \in Drafts => sending'[k].item \notin Range(waiting')
    BY <1>1, <1>3, <1>7, ItemKinds DEF TurnInv, SendInv, Seen
  <2>5. \A k \in DOMAIN sending' : sending'[k].at = "checked" /\ sending'[k].item \in Messages =>
          sending'[k].item \notin Range(entries') \cup Range(waiting')
    BY <1>1, <1>3 DEF TurnInv, SendInv
  <2> QED
    BY <2>1, <2>3, <2>4, <2>5 DEF SendInv
<1>11. PlaceInv'
  BY <1>1, <1>3, <1>7, ItemKinds DEF TurnInv, PlaceInv, Away, Pending, Seen
<1>12. ToldInv'
  BY <1>1, <1>3, <1>7, ItemKinds DEF TurnInv, ToldInv, Due, Pending, Seen
<1>13. AskedInv'
  BY <1>1, <1>3, <1>6 DEF TurnInv, AskedInv, Seen, Away, Pending
<1>14. JobInv'
  <2>1. \A j \in cancelled : j \in Items
    BY ItemKinds DEF TurnInv, ChatTypeOK
  <2>2. \A j \in cancelled : asked'[j] # 0
    BY <1>6, <2>1 DEF TurnInv, JobInv
  <2> QED
    BY <1>1, <2>2 DEF TurnInv, JobInv
<1> QED
  BY <1>1, <1>8, <1>9, <1>10, <1>11, <1>12, <1>13, <1>14, SameRun, SameMessage, SameWait DEF TurnInv

(* What waits may be dropped, while those who hear of it hear it.          *)
LEMMA DroppedKeeps ==
    ASSUME TurnInv, NEW I, Grows(told, told', I), I \cap Items \subseteq Range(waiting),
           waiting' \in Seq(Items), NoDup(waiting'), Range(waiting') \subseteq Range(waiting) \ I,
           waiting' = waiting \/ Len(waiting') < Len(waiting), I \cap Items \subseteq Hearers,
           UNCHANGED <<sending, saves, run, chain, asked, load, entries, saved, started, busy, spent>>
    PROVE  /\ SendInv' /\ MessageInv' /\ WaitInv' /\ PlaceInv' /\ ToldInv' /\ AskedInv'
<1>1. SendInv'
  BY DEF TurnInv, SendInv
<1>2. MessageInv'
  BY DEF TurnInv, MessageInv, Pending
<1>3. WaitInv'
  <2>1. CASE waiting' = waiting
    BY <2>1, SameWait DEF TurnInv
  <2>2. CASE Len(waiting') < Len(waiting)
    BY <2>2, ShorterWait
  <2> QED
    BY <2>1, <2>2
<1>4. PlaceInv'
  BY DEF TurnInv, PlaceInv, Away, Sent, Pending
<1>5. ToldInv'
  <2>1. ASSUME NEW i \in Hearers, Due(i)'
        PROVE  (Due(i) \/ told[i] = <<>>) /\ i \notin I
    <3>1. Due(i)
      BY <2>1 DEF Due, Sent, Pending
    <3>2. i \in Items
      BY ItemKinds
    <3>3. i \in I => i \in Range(waiting) /\ i \notin Range(waiting')
      BY <3>2
    <3>4. i \in Range(waiting) /\ i \notin Range(waiting') => ~Due(i)'
      BY DEF TurnInv, PlaceInv, Due, Sent, Pending, Away
    <3> QED
      BY <2>1, <3>1, <3>3, <3>4
  <2> QED
    BY <2>1, ToldKeeps DEF TurnInv
<1>6. AskedInv'
  <2>1. ASSUME NEW i \in Items \ Messages, Seen(i)'
        PROVE  Seen(i)
    <3>1. told'[i] = told[i] \/ i \in Range(waiting)
      BY DEF Grows
    <3> QED
      BY <2>1, <3>1 DEF Seen, Away, Sent, Pending
  <2> QED
    BY <2>1, AskedKeeps DEF TurnInv
<1> QED
  BY <1>1, <1>2, <1>3, <1>4, <1>5, <1>6

(* What waits is withdrawn.                                                *)
LEMMA UnqueueKeeps ==
    ASSUME TurnInv, NEW i \in Items, Unqueue(i)
    PROVE  TurnInv'
<1>1. /\ UNCHANGED <<entries, saved, sending, saves, busy, run, chain, started, closed, fatal, load,
                     live, output, stop, draft, asked, spent, cancelled, folded>>
      /\ i \in Range(waiting) /\ i \notin Jobs
      /\ waiting' = Without(waiting, i) /\ told' = Tell(told, Hearing({i}), "skipped")
  BY DEF Unqueue, transcript, turns, ends, job, people
<1>2. /\ waiting' \in Seq(Items) /\ Len(waiting') = Len(waiting) - 1 /\ NoDup(waiting')
      /\ Range(waiting') = Range(waiting) \ {i}
  BY <1>1, WaitTypes, WithoutFacts
<1>3. Len(waiting') < Len(waiting)
  BY <1>2, WaitTypes
<1>4. Hearing({i}) \subseteq {i} /\ Hearing({i}) \subseteq Hearers /\ Hearing({i}) \cap Jobs = {}
  BY <1>1 DEF Hearing, Hearers
<1>5. told \in [Items -> Seq(Outs)] /\ "skipped" \in Outs
  BY DEF TurnInv, ChatTypeOK, Outs
<1>6. \A h \in Hearing({i}) \cap Items : told[h] = <<>>
  BY <1>1, <1>4 DEF TurnInv, ToldInv, Due
<1>7. Grows(told, told', Hearing({i})) /\ told' \in [Items -> Seq(Outs)]
  <2>1. \A h \in Hearing({i}) \cap Items : h \notin Jobs => told[h] = <<>>
    BY <1>6
  <2>2. "skipped" = "done" => Hearing({i}) \cap Jobs = {}
    BY <1>4
  <2>3. Grows(told, Tell(told, Hearing({i}), "skipped"), Hearing({i}))
    BY <1>5, <2>1, <2>2, TellGrows, Zenon
  <2> QED
    BY <1>1, <2>3 DEF Grows
<1>8. ChatTypeOK'
  BY <1>1, <1>2, <1>7 DEF TurnInv, ChatTypeOK
<1>9. SendInv' /\ MessageInv' /\ WaitInv' /\ PlaceInv' /\ ToldInv' /\ AskedInv'
  <2>1. Range(waiting') \subseteq Range(waiting) \ Hearing({i}) /\ Hearing({i}) \subseteq Range(waiting)
    BY <1>1, <1>2, <1>4
  <2> QED
    BY <1>1, <1>2, <1>3, <1>4, <1>7, <2>1, DroppedKeeps
<1>10. JobInv'
  <2>1. cancelled \subseteq Jobs /\ (live # NoItem => live \in Jobs)
    BY DEF TurnInv, ChatTypeOK, RunInv
  <2>2. \A j \in Jobs : told'[j] = told[j]
    BY <1>4, <1>7, ItemKinds DEF Grows
  <2> QED
    BY <1>1, <2>1, <2>2 DEF TurnInv, JobInv
<1> QED
  BY <1>1, <1>8, <1>9, <1>10, SameSaves, SameRun DEF TurnInv

(* The signal of a job.                                                    *)
LEMMA CancelKeeps ==
    ASSUME TurnInv, NEW j \in Jobs, CancelJob(j)
    PROVE  TurnInv'
<1>1. /\ UNCHANGED <<entries, saved, sending, saves, busy, run, chain, started, closed, fatal, load,
                     draft, asked, spent, folded>>
      /\ asked[j] = 1 /\ told[j] = <<>> /\ j \notin cancelled /\ cancelled' = cancelled \cup {j}
  BY DEF CancelJob, transcript, turns, ends
<1>2. /\ told \in [Items -> Seq(Outs)] /\ "failed" \in Outs /\ "failed" # "done"
      /\ cancelled \subseteq Jobs /\ cancelled' \subseteq Jobs /\ j \in Items /\ j \in Hearers /\ j # NoItem
  BY <1>1, ItemKinds DEF TurnInv, ChatTypeOK, Outs
<1>3. CASE live = j
  <2>1. /\ live' = NoItem /\ output' = FALSE /\ stop' = "interrupted"
        /\ UNCHANGED <<waiting, told>>
    BY <1>3 DEF CancelJob
  <2>2. run[j].at = "working"
    BY <1>2, <1>3 DEF TurnInv, RunInv
  <2>3. ChatTypeOK'
    BY <1>1, <1>2, <2>1 DEF TurnInv, ChatTypeOK
  <2>4. RunInv'
    BY <1>1, <2>1 DEF TurnInv, RunInv, Away, Open
  <2>5. JobInv'
    <3>1. \A i \in cancelled : i # NoItem
      BY <1>2, ItemKinds
    <3>2. <<>> # <<"done">>
      BY OneOutcome DEF Outs
    <3>3. ASSUME NEW i \in cancelled'
          PROVE  /\ asked'[i] # 0 /\ told'[i] # <<"done">>
                 /\ \/ told'[i] # <<>>
                    \/ run'[i].at = "working" /\ live' # i
                    \/ run'[i].at = "saving" /\ run'[i].out # "done"
      <4>1. CASE i = j
        BY <1>1, <1>2, <2>1, <2>2, <3>2, <4>1
      <4>2. CASE i \in cancelled
        BY <1>1, <2>1, <3>1, <4>2 DEF TurnInv, JobInv
      <4> QED
        BY <1>1, <4>1, <4>2
    <3> QED
      BY <2>1, <3>3 DEF JobInv
  <2> QED
    BY <1>1, <2>1, <2>3, <2>4, <2>5, SameSaves, SameSend, SameMessage, SameWait, SamePlace, SameTold,
       SameAsked DEF TurnInv
<1>4. CASE live # j
  <2>1. /\ UNCHANGED <<live, output, stop>>
        /\ waiting' = Without(waiting, j) /\ told' = Tell(told, {j}, "failed")
    BY <1>4 DEF CancelJob, job
  <2>2. /\ waiting' \in Seq(Items) /\ NoDup(waiting') /\ Range(waiting') = Range(waiting) \ {j}
        /\ waiting' = waiting \/ Len(waiting') = Len(waiting) - 1
    BY <2>1, WaitTypes, WithoutFacts
  <2>3. waiting' = waiting \/ Len(waiting') < Len(waiting)
    BY <2>2, WaitTypes
  <2>4. /\ Grows(told, told', {j}) /\ told' \in [Items -> Seq(Outs)] /\ told'[j] # <<>>
    <3>1. \A h \in {j} \cap Items : h \notin Jobs => told[h] = <<>>
      BY <1>1
    <3>2. "failed" = "done" => {j} \cap Jobs = {}
      BY <1>2
    <3>3. /\ Grows(told, Tell(told, {j}, "failed"), {j})
          /\ \A h \in {j} \cap Items : Tell(told, {j}, "failed")[h] # <<>>
      BY <1>2, <3>1, <3>2, TellGrows, Zenon
    <3> QED
      BY <1>2, <2>1, <3>3 DEF Grows
  <2>5. ChatTypeOK'
    BY <1>1, <1>2, <2>1, <2>2, <2>4 DEF TurnInv, ChatTypeOK
  <2>6. /\ told'[j] # <<"done">> /\ \A i \in Items : i # j => told'[i] = told[i]
    BY <1>1, <1>2, <2>4 DEF Grows
  <2>7. SendInv'
    BY <1>1, <2>2 DEF TurnInv, SendInv
  <2>8. MessageInv'
    BY <1>1, <2>2 DEF TurnInv, MessageInv, Pending
  <2>9. WaitInv'
    <3>1. CASE waiting' = waiting
      BY <1>1, <3>1, SameWait DEF TurnInv
    <3>2. CASE Len(waiting') < Len(waiting)
      BY <2>2, <3>2, ShorterWait
    <3> QED
      BY <2>3, <3>1, <3>2
  <2>10. PlaceInv'
    BY <1>1, <2>2 DEF TurnInv, PlaceInv, Away, Sent, Pending
  <2>11. ~Due(j)'
    <3>1. j \notin Sent /\ j \notin chain /\ ~Pending("notice", j)
      <4>1. j \notin Sent
        <5>1. \A k \in DOMAIN sending : sending[k].item # j
          BY SendTypes, ItemKinds DEF TurnInv
        <5> QED
          BY <5>1 DEF Sent
      <4>2. j \notin chain
        BY ItemKinds DEF TurnInv, ChatTypeOK
      <4>3. ~Pending("notice", j)
        BY ItemKinds DEF TurnInv, SavesInv, Pending
      <4> QED
        BY <4>1, <4>2, <4>3
    <3> QED
      BY <1>1, <2>2, <3>1 DEF Due, Sent, Pending
  <2>12. ToldInv'
    <3>1. ASSUME NEW i \in Hearers, Due(i)'
          PROVE  (Due(i) \/ told[i] = <<>>) /\ i \notin {j}
      <4>1. i # j
        BY <2>11, <3>1
      <4>2. Due(i)
        BY <1>1, <2>2, <3>1 DEF Due, Sent, Pending
      <4> QED
        BY <4>1, <4>2
    <3> QED
      BY <1>2, <2>4, <3>1, ToldKeeps DEF TurnInv
  <2>13. AskedInv'
    <3>1. ASSUME NEW i \in Items \ Messages
          PROVE  load'.asks[i] <= 1 /\ (Seen(i)' => asked'[i] # 0)
      <4>1. CASE i = j
        BY <1>1, <1>2, <4>1 DEF TurnInv, AskedInv
      <4>2. CASE i # j
        <5>1. Seen(i)' => Seen(i)
          BY <1>1, <2>2, <2>6, <4>2 DEF Seen, Away, Sent, Pending
        <5> QED
          BY <1>1, <3>1, <5>1 DEF TurnInv, AskedInv
      <4> QED
        BY <4>1, <4>2
    <3> QED
      BY <3>1 DEF AskedInv
  <2>14. JobInv'
    <3>1. \A i \in cancelled : i # j /\ i \in Items
      BY <1>1, <1>2, ItemKinds
    <3>2. \A i \in cancelled : told'[i] = told[i]
      BY <2>6, <3>1
    <3>3. live # NoItem => live \in Items /\ live # j
      BY <1>4, ItemKinds DEF TurnInv, RunInv
    <3>4. \A i \in cancelled' : asked'[i] # 0 /\ told'[i] # <<"done">>
      BY <1>1, <2>6, <3>2 DEF TurnInv, JobInv
    <3>5. ASSUME NEW i \in cancelled'
          PROVE  \/ told'[i] # <<>>
                 \/ run'[i].at = "working" /\ live' # i
                 \/ run'[i].at = "saving" /\ run'[i].out # "done"
      <4>1. CASE i = j
        BY <2>4, <4>1
      <4>2. CASE i \in cancelled
        <5>1. told'[i] = told[i] /\ run' = run /\ live' = live
          BY <1>1, <2>1, <3>2, <4>2
        <5> QED
          BY <4>2, <5>1 DEF TurnInv, JobInv
      <4> QED
        BY <1>1, <4>1, <4>2
    <3>6. live' # NoItem => live' \notin cancelled' /\ told'[live'] = <<>>
      BY <1>1, <2>1, <2>6, <3>3 DEF TurnInv, JobInv
    <3> QED
      BY <3>4, <3>5, <3>6 DEF JobInv
  <2> QED
    BY <1>1, <2>1, <2>5, <2>7, <2>8, <2>9, <2>10, <2>12, <2>13, <2>14, SameSaves, SameRun DEF TurnInv
<1> QED
  BY <1>3, <1>4

(* Close tells whoever waits, and the job that is handed over.             *)
LEMMA CloseKeeps ==
    ASSUME TurnInv, Close
    PROVE  TurnInv'
<1> DEFINE handed == {i \in Jobs : run[i].at = "handoff"}
           I == (Heard(waiting) \cap Jobs) \cup handed
           J == Heard(waiting) \ Jobs
           t == Tell(told, I, "failed")
<1>1. /\ UNCHANGED <<entries, saved, sending, saves, busy, run, chain, started, fatal, load, draft,
                     asked, spent, cancelled, folded>>
      /\ closed' = "closing" /\ waiting' = <<>> /\ live' = NoItem /\ output' = FALSE
      /\ stop' \in {"stopped", stop}
      /\ told' = Tell(t, J, "skipped")
  BY DEF Close, transcript, turns, people
<1>2. /\ told \in [Items -> Seq(Outs)] /\ "failed" \in Outs /\ "skipped" \in Outs
      /\ cancelled \subseteq Jobs /\ closed' # "open"
  BY <1>1 DEF TurnInv, ChatTypeOK, Outs
<1>3. /\ I \subseteq Jobs /\ J \cap Jobs = {} /\ J \subseteq Range(waiting) /\ J \subseteq Hearers
      /\ I \subseteq Hearers /\ Heard(waiting) = Range(waiting) \cap Hearers
  BY ItemKinds DEF Heard, Hearing, Hearers
<1> HIDE DEF I, J
<1>4. /\ t \in [Items -> Seq(Outs)] /\ Grows(told, t, I)
  <2>1. \A h \in I \cap Items : h \notin Jobs => told[h] = <<>>
    BY <1>3
  <2>2. "failed" = "done" => I \cap Jobs = {}
    OBVIOUS
  <2> QED
    BY <1>2, <2>1, <2>2, TellGrows DEF Grows
<1>5. \A h \in I : t[h] # <<>>
  BY <1>2, <1>3, ItemKinds, TellFacts
<1> HIDE DEF t
<1>6. \A h \in J : h \in Items /\ h \notin I /\ t[h] = <<>>
  <2>1. \A h \in J : h \in Items /\ h \notin I /\ told[h] = <<>>
    BY <1>3, ItemKinds DEF TurnInv, ToldInv, Due
  <2> QED
    BY <1>4, <2>1 DEF Grows
<1>7. Grows(t, told', J) /\ told' \in [Items -> Seq(Outs)]
  <2>1. \A h \in J \cap Items : h \notin Jobs => t[h] = <<>>
    BY <1>6
  <2>2. "skipped" = "done" => J \cap Jobs = {}
    OBVIOUS
  <2>3. Grows(t, Tell(t, J, "skipped"), J)
    BY <1>2, <1>4, <2>1, <2>2, TellGrows, Zenon
  <2> QED
    BY <1>1, <2>3 DEF Grows
<1>8. Grows(told, told', I \cup J)
  BY <1>4, <1>7, GrowsTwice
<1>9. Range(waiting') = {} /\ NoDup(waiting') /\ Len(waiting') = 0 /\ waiting' \in Seq(Items)
  BY <1>1, EmptyFacts
<1>10. ChatTypeOK'
  BY <1>1, <1>7, <1>9 DEF TurnInv, ChatTypeOK
<1>11. SavesInv' /\ RunInv'
  BY <1>1, <1>2 DEF TurnInv, SavesInv, RunInv, Away, Open
<1>12. SendInv' /\ MessageInv' /\ PlaceInv'
  BY <1>1, <1>9 DEF TurnInv, SendInv, MessageInv, PlaceInv, Pending, Away, Sent
<1>13. WaitInv'
  BY <1>9, LoadAssumption DEF WaitInv
<1>14. ToldInv'
  <2>1. (I \cup J) \cap Items \subseteq Hearers
    BY <1>3
  <2>2. ASSUME NEW h \in Hearers, Due(h)'
        PROVE  (Due(h) \/ told[h] = <<>>) /\ h \notin I \cup J
    <3>1. Due(h)
      BY <1>1, <1>9, <2>2 DEF Due, Sent, Pending
    <3>2. h \notin J
      BY <1>1, <1>3, <1>9, <2>2 DEF TurnInv, PlaceInv, Due, Sent, Pending, Away
    <3>3. h \notin I
      <4>1. ASSUME h \in Jobs
            PROVE  ~Due(h)'
        <5>1. \A k \in DOMAIN sending : sending[k].item # h
          BY <4>1, SendTypes, ItemKinds DEF TurnInv
        <5>2. h \notin Sent
          BY <5>1 DEF Sent
        <5>3. h \notin chain
          BY <4>1, ItemKinds DEF TurnInv, ChatTypeOK
        <5>4. ~Pending("notice", h)
          BY <4>1, ItemKinds DEF TurnInv, SavesInv, Pending
        <5> QED
          BY <1>1, <1>9, <4>1, <5>2, <5>3, <5>4 DEF Due, Sent, Pending
      <4> QED
        BY <1>3, <2>2, <4>1
    <3> QED
      BY <3>1, <3>2, <3>3
  <2> QED
    BY <1>8, <2>1, <2>2, ToldKeeps DEF TurnInv
<1>15. AskedInv'
  <2>1. ASSUME NEW i \in Items \ Messages, Seen(i)'
        PROVE  Seen(i)
    <3>1. told'[i] = told[i] \/ i \in I \cup J
      BY <1>8 DEF Grows
    <3>2. i \in I \cup J => i \in Range(waiting) \/ ~Away(i)
      BY <1>3 DEF I, Away, Heard, Hearing
    <3> QED
      BY <1>1, <1>9, <2>1, <3>1, <3>2 DEF Seen, Away, Sent, Pending
  <2> QED
    BY <1>1, <2>1, AskedKeeps DEF TurnInv
<1>16. JobInv'
  <2>1. \A j \in cancelled : j # NoItem
    BY <1>2, ItemKinds
  <2>2. ASSUME NEW j \in cancelled, told[j] = <<>>
        PROVE  \/ told'[j] # <<>>
               \/ (run[j].at = "working" /\ live # j) /\ (run'[j].at = "working" /\ live' # j)
               \/ run'[j].at = "saving" /\ run'[j].out # "done"
    BY <1>1, <2>1, <2>2 DEF TurnInv, JobInv
  <2> QED
    BY <1>1, <1>2, <1>8, <2>2, CancelledKeeps DEF TurnInv
<1> QED
  BY <1>10, <1>11, <1>12, <1>13, <1>14, <1>15, <1>16 DEF TurnInv

-----------------------------------------------------------------------------
(* Turns that start.                                                       *)

(* What run does up to its first await.                                    *)
LEMMA StartsFacts ==
    ASSUME ChatTypeOK, NEW i \in Items, Starts(i)
    PROVE  /\ busy' = TRUE /\ output' = FALSE /\ stop' = "none"
           /\ started' \in [Items -> Nat] /\ started'[i] = started[i] + 1
           /\ \A k \in Items : k # i => started'[k] = started[k] /\ run'[k] = run[k]
           /\ run' \in [Items -> [at: {"none", "handoff", "working", "saving", "reporting"},
                                  out: Outs \cup {"none"}, err: BOOLEAN]]
           /\ run'[i].at = "working"
           /\ live' \in Jobs \cup {NoItem}
           /\ i \in Jobs => live' = i
           /\ i \notin Jobs => live' = NoItem
<1> DEFINE R == [at: {"none", "handoff", "working", "saving", "reporting"},
                 out: Outs \cup {"none"}, err: BOOLEAN]
<1>1. started \in [Items -> Nat] /\ run \in [Items -> R]
  BY DEF ChatTypeOK
<1>2. PICK r \in R : r = [Idle EXCEPT !.at = "working"] /\ r.at = "working"
  <2>1. Idle \in R
    BY DEF Idle
  <2>2. \A q \in R : [q EXCEPT !.at = "working"] \in R /\ [q EXCEPT !.at = "working"].at = "working"
    OBVIOUS
  <2> QED
    BY <2>1, <2>2
<1>3. /\ busy' = TRUE /\ output' = FALSE /\ stop' = "none"
      /\ started' = [started EXCEPT ![i] = @ + 1] /\ run' = [run EXCEPT ![i] = r]
      /\ live' = IF i \in Jobs THEN i ELSE NoItem
  BY <1>2 DEF Starts
<1> HIDE DEF R
<1>4. /\ started' \in [Items -> Nat] /\ started'[i] = started[i] + 1
      /\ \A k \in Items : k # i => started'[k] = started[k]
  BY <1>1, <1>3
<1>5. /\ run' \in [Items -> R] /\ run'[i] = r
      /\ \A k \in Items : k # i => run'[k] = run[k]
  BY <1>1, <1>2, <1>3
<1> QED
  BY <1>2, <1>3, <1>4, <1>5 DEF R

(* A turn that starts when no other one is under way, of an item that      *)
(* leaves its place.                                                       *)
LEMMA StartKeeps ==
    ASSUME TurnInv, NEW i \in Items, Starts(i), Goes(saves'), Open, UNCHANGED closed,
           \A k \in Items : k # i => Away(k),
           \A x \in Range(saves') : x.for \notin {"end", "handoff", "send"},
           UNCHANGED <<entries, told, spent, cancelled>>,
           draft' \in [id: Drafts \cup {NoItem}, at: {"none", "queued", "running"}], folded' \subseteq Notes,
           waiting' = Without(waiting, i) \/ (i \in Drafts /\ UNCHANGED waiting), i \in Range(waiting) => i \in Drafts,
           chain' = chain \/ (i \in Invokes /\ chain' = chain \cup {i}),
           asked' = asked \/ asked' = [asked EXCEPT ![i] = 1], i \in Messages \/ asked'[i] # 0,
           i \in Hearers => told[i] = <<>> /\ i \notin Sent' /\ ~Pending("notice", i)',
           i \in Messages => i \in Range(entries) /\ i \in saved' /\ started[i] = 0,
           i \in Jobs => i \notin cancelled
    PROVE  TurnInv'
<1>1. /\ busy' = TRUE /\ output' = FALSE /\ stop' = "none"
      /\ started' \in [Items -> Nat] /\ started'[i] = started[i] + 1
      /\ \A k \in Items : k # i => started'[k] = started[k] /\ run'[k] = run[k]
      /\ run' \in [Items -> [at: {"none", "handoff", "working", "saving", "reporting"},
                                  out: Outs \cup {"none"}, err: BOOLEAN]]
      /\ run'[i].at = "working"
      /\ live' \in Jobs \cup {NoItem}
      /\ i \in Jobs => live' = i
      /\ i \notin Jobs => live' = NoItem
  BY StartsFacts DEF TurnInv
<1>2. /\ waiting' \in Seq(Items) /\ NoDup(waiting') /\ Range(waiting') \subseteq Range(waiting)
      /\ i \notin Drafts => i \notin Range(waiting')
      /\ waiting' = waiting \/ Len(waiting') = Len(waiting) - 1
  BY WaitTypes, WithoutFacts
<1>3. /\ sending' \in Seq([item: Messages \cup Invokes \cup Drafts, at: {"new", "checked", "saving"}])
      /\ Len(sending') <= MaxPending /\ Sent' \subseteq Sent
      /\ saved' \subseteq Messages \cup Invokes
      /\ \A m \in Messages : started[m] = 1 => m \in saved'
      /\ \A x \in Range(saves') : /\ x.for \in Fors /\ x.item \in Items
                                  /\ x = [for |-> x.for, item |-> x.item]
  BY GoesFacts
<1>4. /\ saves' \in Seq([for: Fors, item: Items]) /\ NoDup(saves') /\ Range(saves') \subseteq Range(saves)
      /\ load' \in [asks: [Items -> Nat], faults: Nat] /\ load'.asks = load.asks
      /\ fatal' \in BOOLEAN
      /\ \A f, k : Pending(f, k)' => Pending(f, k)
  BY DEF Goes, Pending
<1>5. asked \in [Items -> Nat] /\ asked' \in [Items -> Nat]
      /\ \A k \in Items : k # i => asked'[k] = asked[k]
  BY DEF TurnInv, ChatTypeOK
<1>6. chain' \subseteq Invokes /\ \A k \in Items : k # i => (k \in chain' <=> k \in chain)
  BY DEF TurnInv, ChatTypeOK
<1>7. ChatTypeOK'
  BY <1>1, <1>2, <1>3, <1>4, <1>5, <1>6 DEF TurnInv, ChatTypeOK
<1>8. SavesInv'
  BY GoesSaves
<1>9. RunInv'
  <2>1. \A k \in Items : k # i => Away(k)'
    BY <1>1 DEF Away
  <2>2. \A k \in Items : run'[k].at # "saving"
    BY <1>1, <2>1 DEF Away
  <2> QED
    BY <1>1, <2>1, <2>2 DEF RunInv
<1>10. SendInv'
  <2>1. \A x : x \in Range(waiting') \cup Range(entries') => x \in Range(waiting) \cup Range(entries)
    BY <1>2
  <2>2. \A x : x \in Range(waiting') => x \in Range(waiting)
    BY <1>2
  <2> QED
    BY <2>1, <2>2, GoesSend
<1>11. MessageInv'
  <2> SUFFICES ASSUME NEW m \in Messages
               PROVE  /\ Once(entries', m)
                      /\ m \in Range(entries') => m \notin Range(waiting')
                      /\ started'[m] <= 1
                      /\ started'[m] = 1 => /\ m \in Range(entries') /\ m \in saved'
                                            /\ ~Pending("send", m)' /\ run'[m].at # "handoff"
                      /\ Pending("send", m)' \/ run'[m].at = "handoff" => m \in Range(entries')
                      /\ Pending("send", m)' => run'[m].at = "none"
    BY DEF MessageInv
  <2>1. /\ Once(entries, m)
        /\ m \in Range(entries) => m \notin Range(waiting)
        /\ started[m] <= 1
        /\ started[m] = 1 => /\ m \in Range(entries) /\ m \in saved
                             /\ ~Pending("send", m) /\ run[m].at # "handoff"
        /\ Pending("send", m) \/ run[m].at = "handoff" => m \in Range(entries)
    BY DEF TurnInv, MessageInv
  <2>2. m \in Items
    BY ItemKinds
  <2>3. ~Pending("send", m)'
    BY DEF Pending
  <2>4. CASE m = i
    BY <1>1, <1>2, <2>1, <2>3, <2>4, ItemKinds
  <2>5. CASE m # i
    BY <1>1, <1>2, <1>3, <2>1, <2>2, <2>3, <2>5
  <2> QED
    BY <2>4, <2>5
<1>12. WaitInv'
  <2>1. CASE Len(waiting') = Len(waiting) - 1
    BY <1>2, <2>1, WaitTypes, ShorterWait
  <2>2. CASE waiting' = waiting
    BY <1>1, <1>2, <1>4, <2>2 DEF TurnInv, WaitInv
  <2> QED
    BY <1>2, <2>1, <2>2
<1>13. PlaceInv'
  <2> SUFFICES ASSUME NEW k \in Hearers
               PROVE  /\ k \in Range(waiting') => /\ Away(k)' /\ k \notin Sent' /\ k \notin chain'
                                                  /\ ~Pending("notice", k)'
                      /\ k \in Sent' => Away(k)' /\ k \notin chain'
                      /\ Pending("notice", k)' => Away(k)'
    BY DEF PlaceInv
  <2>1. k \in Items
    BY ItemKinds
  <2>2. CASE k = i
    BY <1>2, <2>2, ItemKinds
  <2>3. CASE k # i
    BY <1>1, <1>2, <1>3, <1>4, <1>6, <2>1, <2>3 DEF TurnInv, PlaceInv, Away
  <2> QED
    BY <2>2, <2>3
<1>14. ToldInv'
  <2>1. Grows(told, told', {})
    BY GrowsNot DEF TurnInv, ChatTypeOK
  <2>2. ASSUME NEW k \in Hearers, Due(k)'
        PROVE  (Due(k) \/ told[k] = <<>>) /\ k \notin {}
    <3>1. CASE k = i
      BY <3>1
    <3>2. CASE k # i
      BY <1>1, <1>2, <1>3, <1>4, <1>6, <2>2, <3>2, ItemKinds DEF Due
    <3> QED
      BY <3>1, <3>2
  <2> QED
    BY <2>1, <2>2, ToldKeeps DEF TurnInv
<1>15. AskedInv'
  <2>1. ASSUME NEW k \in Items \ Messages
        PROVE  load'.asks[k] <= 1 /\ (Seen(k)' => asked'[k] # 0)
    <3>1. CASE k = i
      BY <1>4, <2>1, <3>1 DEF TurnInv, AskedInv
    <3>2. CASE k # i
      <4>1. Seen(k)' => Seen(k)
        BY <1>1, <1>2, <1>3, <1>4, <1>6, <2>1, <3>2 DEF Seen, Away
      <4> QED
        BY <1>4, <1>5, <2>1, <3>2, <4>1 DEF TurnInv, AskedInv
    <3> QED
      BY <3>1, <3>2
  <2> QED
    BY <2>1 DEF AskedInv
<1>16. JobInv'
  <2>1. ASSUME NEW j \in cancelled
        PROVE  /\ asked'[j] # 0 /\ told[j] # <<"done">> /\ told[j] # <<>>
    <3>1. j \in Items /\ j # i /\ j \in Jobs
      BY ItemKinds DEF TurnInv, ChatTypeOK
    <3>2. run[j].at = "none"
      BY <3>1 DEF Away
    <3> QED
      BY <1>5, <3>1, <3>2 DEF TurnInv, JobInv
  <2>2. live' # NoItem => live' \notin cancelled /\ told[live'] = <<>>
    BY <1>1, ItemKinds
  <2> QED
    BY <2>1, <2>2 DEF JobInv
<1> QED
  BY <1>7, <1>8, <1>9, <1>10, <1>11, <1>12, <1>13, <1>14, <1>15, <1>16 DEF TurnInv

-----------------------------------------------------------------------------
(* Instructions and jobs.                                                  *)

\* i is asked for and nothing of it waits, runs or is told.
Clear(i) == told[i] = <<>> /\ Away(i) /\ i \notin Range(waiting) /\ i \notin chain

(* A queue that stays while saves end.                                     *)
LEMMA WaitLeft ==
    ASSUME TurnInv, Goes(saves'), UNCHANGED <<waiting, busy>>
    PROVE  /\ WaitInv' /\ waiting' \in Seq(Items)
<1>1. \A x \in Range(saves') : x \in Range(saves)
  BY DEF Goes
<1> QED
  BY <1>1, WaitTypes DEF TurnInv, WaitInv

(* Nothing starts: the saves and requests that end leave the rest, but     *)
(* one item may leave the transcript, enter or leave the queue, or hear.   *)
LEMMA GoesKeeps ==
    ASSUME TurnInv, Goes(saves'), NEW n \in Items, asked' = asked \/ asked' = [asked EXCEPT ![n] = 1],
           UNCHANGED <<run, chain, started, closed, live, output, stop, spent, cancelled>>,
           folded' \subseteq Notes,
           draft' \in [id: Drafts \cup {NoItem}, at: {"none", "queued", "running"}],
           \/ busy' = busy
           \/ busy' = FALSE /\ (Open => \A k \in Items : Away(k)) /\ \A x \in Range(saves') : x.for # "send",
           \/ entries' = entries
           \/ /\ entries' = Without(entries, n)
              /\ n \in Messages => started[n] = 0 /\ ~Pending("send", n)' /\ run[n].at = "none",
           WaitInv', waiting' \in Seq(Items),
           \/ Range(waiting') \subseteq Range(waiting)
           \/ Range(waiting') \subseteq Range(waiting) \cup {n} /\ n \in Hearers,
           NEW I, Grows(told, told', I), I \cap Items = {} \/ (n \in Hearers /\ I \cap Items = {n}),
           I \cap Items = {} \/ n \notin Range(waiting'),
           \/ Range(waiting') \subseteq Range(waiting) /\ I \cap Items = {}
           \/ Clear(n) /\ n \notin Sent' /\ ~Pending("notice", n)' /\ asked'[n] # 0,
           n \notin cancelled
    PROVE  TurnInv'
<1>1. /\ sending' \in Seq([item: Messages \cup Invokes \cup Drafts, at: {"new", "checked", "saving"}])
      /\ Len(sending') <= MaxPending /\ Sent' \subseteq Sent
      /\ saved' \subseteq Messages \cup Invokes
      /\ \A m \in Messages : started[m] = 1 => m \in saved'
      /\ \A x \in Range(saves') : /\ x.for \in Fors /\ x.item \in Items
                                  /\ x = [for |-> x.for, item |-> x.item]
  BY GoesFacts
<1>2. /\ saves' \in Seq([for: Fors, item: Items]) /\ NoDup(saves') /\ Range(saves') \subseteq Range(saves)
      /\ load' \in [asks: [Items -> Nat], faults: Nat] /\ load'.asks = load.asks
      /\ fatal' \in BOOLEAN
      /\ \A f, k : Pending(f, k)' => Pending(f, k)
  BY DEF Goes, Pending
<1>3. /\ asked \in [Items -> Nat] /\ asked' \in [Items -> Nat]
      /\ \A k \in Items : k # n => asked'[k] = asked[k]
      /\ \A k \in Items : asked[k] # 0 => asked'[k] # 0
  <2>1. asked \in [Items -> Nat]
    BY DEF TurnInv, ChatTypeOK
  <2>2. CASE asked' = asked
    BY <2>1, <2>2
  <2>3. CASE asked' = [asked EXCEPT ![n] = 1]
    BY <2>1, <2>3
  <2> QED
    BY <2>1, <2>2, <2>3
<1>4. /\ entries' \in Seq(Messages \cup Invokes) /\ Range(entries') \subseteq Range(entries)
      /\ \A y : Once(entries, y) => Once(entries', y)
      /\ \A m \in Messages : m \in Range(entries) /\ m \notin Range(entries') =>
            started[m] = 0 /\ ~Pending("send", m)' /\ run[m].at = "none"
  <2>1. entries \in Seq(Messages \cup Invokes)
    BY WaitTypes
  <2>2. CASE entries' = entries
    <3>1. \A y : Once(entries, y) => Once(entries', y)
      BY <2>2, Zenon
    <3>2. Range(entries') = Range(entries)
      BY <2>2
    <3> QED
      BY <2>1, <2>2, <3>1, <3>2
  <2>3. CASE /\ entries' = Without(entries, n)
             /\ n \in Messages => started[n] = 0 /\ ~Pending("send", n)' /\ run[n].at = "none"
    <3>1. /\ entries' \in Seq(Messages \cup Invokes) /\ Range(entries') \subseteq Range(entries)
          /\ Range(entries) \ {n} \subseteq Range(entries') /\ \A y : Once(entries, y) => Once(entries', y)
      BY <2>1, <2>3, WithoutFacts, Zenon
    <3>2. ASSUME NEW m \in Messages, m \in Range(entries), m \notin Range(entries')
          PROVE  started[m] = 0 /\ ~Pending("send", m)' /\ run[m].at = "none"
      <4>1. m = n
        BY <3>1, <3>2
      <4> QED
        BY <2>3, <3>2, <4>1
    <3> QED
      BY <3>1, <3>2
  <2> QED
    BY <2>2, <2>3
<1>5. /\ Range(waiting') \subseteq Range(waiting) \cup {n}
      /\ \A k : k \in Range(waiting') => k \in Range(waiting) \/ (k = n /\ n \in Hearers)
  OBVIOUS
<1>6. ChatTypeOK'
  <2>1. busy' \in BOOLEAN
    BY DEF TurnInv, ChatTypeOK
  <2> QED
    BY <1>1, <1>2, <1>3, <1>4, <2>1 DEF TurnInv, ChatTypeOK, Grows
<1>7. SavesInv'
  <2>1. \A x \in Range(saves') : x \in Range(saves)
    BY <1>2
  <2>2. ASSUME NEW x \in Range(saves'), x.for = "send", Open'
        PROVE  Open /\ busy' /\ \A i \in Items : Away(i)'
    <3>1. busy' = busy
      BY <2>2
    <3>2. Open
      BY <2>2 DEF Open
    <3>3. busy /\ \A i \in Items : Away(i)
      BY <2>1, <2>2, <3>2 DEF TurnInv, SavesInv
    <3> QED
      BY <3>1, <3>2, <3>3 DEF Away
  <2> QED
    BY <2>2, GoesSaves
<1>8. RunInv'
  BY DEF TurnInv, RunInv, Away, Open
<1>9. SendInv'
  <2>1. \A x \in Messages \cup Drafts : x \in Range(waiting') => x \in Range(waiting)
    BY <1>5, ItemKinds
  <2> QED
    BY <1>4, <2>1, GoesSend
<1>10. MessageInv'
  <2> SUFFICES ASSUME NEW m \in Messages
               PROVE  /\ Once(entries', m)
                      /\ m \in Range(entries') => m \notin Range(waiting')
                      /\ started'[m] <= 1
                      /\ started'[m] = 1 => /\ m \in Range(entries') /\ m \in saved'
                                            /\ ~Pending("send", m)' /\ run'[m].at # "handoff"
                      /\ Pending("send", m)' \/ run'[m].at = "handoff" => m \in Range(entries')
                      /\ Pending("send", m)' => run'[m].at = "none"
    BY DEF MessageInv
  <2>1. /\ Once(entries, m)
        /\ m \in Range(entries) => m \notin Range(waiting)
        /\ started[m] <= 1
        /\ started[m] = 1 => /\ m \in Range(entries) /\ m \in saved
                             /\ ~Pending("send", m) /\ run[m].at # "handoff"
        /\ Pending("send", m) \/ run[m].at = "handoff" => m \in Range(entries)
        /\ Pending("send", m) => run[m].at = "none"
    BY DEF TurnInv, MessageInv
  <2>2. m \in Range(waiting') => m \in Range(waiting)
    BY <1>5, ItemKinds
  <2>3. Pending("send", m)' => Pending("send", m)
    BY <1>2
  <2>4. m \in Range(entries) /\ m \notin Range(entries') =>
            started[m] = 0 /\ ~Pending("send", m)' /\ run[m].at = "none"
    BY <1>4
  <2>5. Once(entries', m) /\ (m \in Range(entries') => m \in Range(entries))
    BY <1>4, <2>1
  <2> QED
    BY <1>1, <2>1, <2>2, <2>3, <2>4, <2>5
<1>11. PlaceInv'
  <2> SUFFICES ASSUME NEW k \in Hearers
               PROVE  /\ k \in Range(waiting') => /\ Away(k)' /\ k \notin Sent' /\ k \notin chain'
                                                  /\ ~Pending("notice", k)'
                      /\ k \in Sent' => Away(k)' /\ k \notin chain'
                      /\ Pending("notice", k)' => Away(k)'
    BY DEF PlaceInv
  <2>1. k \in Range(waiting') => k \in Range(waiting) \/ (k = n /\ Clear(n) /\ n \notin Sent' /\ ~Pending("notice", n)')
    BY <1>5
  <2>2. Away(k)' = Away(k)
    BY DEF Away
  <2> QED
    BY <1>1, <1>2, <2>1, <2>2 DEF TurnInv, PlaceInv, Clear
<1>12. ToldInv'
  <2>1. ASSUME NEW k \in Hearers, Due(k)'
        PROVE  (Due(k) \/ told[k] = <<>>) /\ k \notin I
    <3>1. k \in Items
      BY ItemKinds
    <3>2. Due(k) \/ (k = n /\ Clear(n))
      BY <1>1, <1>2, <1>5, <2>1 DEF Due
    <3>3. k \in I => k = n /\ n \notin Range(waiting') /\ Clear(n) /\ n \notin Sent' /\ ~Pending("notice", n)'
      BY <3>1
    <3>4. k \in I => ~Due(k)'
      BY <3>3 DEF Due, Clear, Away
    <3> QED
      BY <2>1, <3>2, <3>4 DEF Clear
  <2> QED
    BY <2>1, ToldKeeps DEF TurnInv
<1>13. AskedInv'
  <2>1. ASSUME NEW k \in Items \ Messages
        PROVE  load'.asks[k] <= 1 /\ (Seen(k)' => asked'[k] # 0)
    <3>1. CASE k = n /\ asked'[n] # 0
      BY <1>2, <2>1, <3>1 DEF TurnInv, AskedInv
    <3>2. CASE ~(k = n /\ asked'[n] # 0)
      <4>1. told'[k] = told[k]
        <5>1. k \notin I
          BY <2>1, <3>2
        <5> QED
          BY <2>1, <5>1 DEF Grows
      <4>2. k \in Range(waiting') => k \in Range(waiting)
        BY <1>5, <3>2
      <4>3. Seen(k)' => Seen(k)
        BY <1>1, <1>2, <4>1, <4>2 DEF Seen, Away
      <4> QED
        BY <1>2, <1>3, <2>1, <4>3 DEF TurnInv, AskedInv
    <3> QED
      BY <3>1, <3>2
  <2> QED
    BY <2>1 DEF AskedInv
<1>14. JobInv'
  <2>1. \A j \in cancelled : j \in Items /\ j # n
    BY ItemKinds DEF TurnInv, ChatTypeOK
  <2>2. \A k \in Items : k # n => told'[k] = told[k]
    BY DEF Grows
  <2>3. live # NoItem => live \in Items /\ told'[live] = <<>>
    <3>1. live # NoItem => live \in Items /\ run[live].at = "working" /\ told[live] = <<>>
      BY ItemKinds DEF TurnInv, RunInv, JobInv
    <3>2. I \cap Items # {} => Away(n)
      BY DEF Clear
    <3>3. live # NoItem => told'[live] = told[live]
      BY <3>1, <3>2 DEF Grows, Away
    <3> QED
      BY <3>1, <3>3
  <2>4. \A j \in cancelled : asked'[j] # 0
    BY <1>3, <2>1 DEF TurnInv, JobInv
  <2> QED
    BY <2>1, <2>2, <2>3, <2>4 DEF TurnInv, JobInv
<1> QED
  BY <1>6, <1>7, <1>8, <1>9, <1>10, <1>11, <1>12, <1>13, <1>14 DEF TurnInv

(* instruct goes on from its notice: whatever it finds, the rest is kept.  *)
LEMMA ProceedKeeps ==
    ASSUME TurnInv, NEW n \in Notes \cup Invokes, Proceed(n), Goes(saves'),
           asked' = asked \/ asked' = [asked EXCEPT ![n] = 1], asked'[n] # 0,
           UNCHANGED <<entries, closed, draft, spent, cancelled>>,
           n \in Notes \/ UNCHANGED folded,
           Clear(n), n \notin Sent', ~Pending("notice", n)'
    PROVE  TurnInv'
<1>1. /\ n \in Items /\ n \in Hearers /\ n \notin Jobs /\ n \notin Messages /\ n \notin Drafts
      /\ cancelled \subseteq Jobs /\ folded \subseteq Notes /\ told \in [Items -> Seq(Outs)]
      /\ draft \in [id: Drafts \cup {NoItem}, at: {"none", "queued", "running"}]
  BY ItemKinds DEF TurnInv, ChatTypeOK
<1>2. Grows(told, told, {})
  BY <1>1, GrowsNot
<1>3. ASSUME NEW o \in {"skipped", "failed"}, told' = Tell(told, {n}, o), UNCHANGED <<waiting, turns, job, folded>>
      PROVE  TurnInv'
  <2>1. \A h \in {n} \cap Items : h \notin Jobs => told[h] = <<>>
    BY DEF Clear
  <2>2. o = "done" => {n} \cap Jobs = {}
    BY <1>1
  <2>3. o \in Outs
    BY DEF Outs
  <2>4. Grows(told, Tell(told, {n}, o), {n})
    BY <1>1, <2>1, <2>2, <2>3, TellGrows, Zenon
  <2>5. Grows(told, told', {n}) /\ {n} \cap Items = {n}
    BY <1>1, <1>3, <2>4
  <2>6. UNCHANGED <<waiting, busy, run, chain, started, live, output, stop, folded>>
    BY <1>3 DEF turns, job
  <2> QED
    BY <1>1, <2>5, <2>6, WaitLeft, GoesKeeps DEF Clear
<1>4. CASE ~Open \/ n \in spent
  <2>1. told' = Tell(told, {n}, "skipped") /\ UNCHANGED <<waiting, turns, job, folded>>
    BY <1>4 DEF Proceed
  <2> QED
    BY <1>3, <2>1
<1>5. CASE Open /\ n \notin spent /\ Folds(n)
  <2>1. folded' \subseteq Notes
    <3>1. n \in Notes
      BY <1>5 DEF Folds
    <3> QED
      BY <1>1, <1>5, <3>1 DEF Proceed
  <2>2. UNCHANGED <<waiting, busy, run, chain, started, live, output, stop, told>>
    BY <1>5 DEF Proceed, turns, job
  <2> QED
    BY <1>1, <1>2, <2>1, <2>2, WaitLeft, GoesKeeps
<1>6. CASE Open /\ n \notin spent /\ ~Folds(n) /\ busy
  <2>1. CASE Full
    <3>1. told' = Tell(told, {n}, "failed") /\ UNCHANGED <<waiting, turns, job, folded>>
      BY <1>6, <2>1 DEF Proceed
    <3> QED
      BY <1>3, <3>1
  <2>2. CASE ~Full
    <3>1. waiting' = Append(waiting, n) /\ UNCHANGED <<told, busy, run, chain, started, live, output, stop, folded>>
      BY <1>6, <2>2 DEF Proceed, turns, job
    <3>2. n \notin Range(waiting)
      BY DEF Clear
    <3> QED
      BY <1>1, <1>2, <2>2, <3>1, <3>2, LongerWait, GoesKeeps
  <2> QED
    BY <2>1, <2>2
<1>7. CASE Open /\ n \notin spent /\ ~Folds(n) /\ ~busy
  <2>1. Starts(n) /\ UNCHANGED <<waiting, chain, told, folded>>
    BY <1>7 DEF Proceed
  <2>2. \A k \in Items : Away(k)
    BY <1>7 DEF TurnInv, RunInv
  <2>3. \A x \in Range(saves') : x.for \notin {"end", "handoff", "send"}
    <3>1. \A x \in Range(saves') : x \in Range(saves) /\ x.item \in Items
      BY GoesFacts DEF Goes
    <3> QED
      BY <1>7, <2>2, <3>1 DEF TurnInv, SavesInv, Away
  <2>4. waiting' = Without(waiting, n) /\ n \notin Range(waiting)
    BY <2>1, WaitTypes, WithoutFacts DEF Clear
  <2> QED
    BY <1>1, <1>7, <2>1, <2>2, <2>3, <2>4, StartKeeps DEF Clear
<1> QED
  BY <1>4, <1>5, <1>6, <1>7

(* Nothing was asked of it: nothing of it is there.                        *)
LEMMA ClearFirst ==
    ASSUME TurnInv, NEW n \in Items, n \notin Messages, asked[n] < load.asks[n]
    PROVE  /\ Clear(n) /\ n \notin Sent /\ ~Pending("notice", n) /\ asked[n] = 0
           /\ n \notin cancelled
<1>1. asked[n] \in Nat /\ load.asks[n] \in Nat
  BY DEF TurnInv, ChatTypeOK
<1>2. load.asks[n] <= 1 /\ (Seen(n) => asked[n] # 0)
  BY DEF TurnInv, AskedInv
<1>3. asked[n] = 0 /\ ~Seen(n)
  BY <1>1, <1>2
<1> QED
  BY <1>3 DEF Seen, Clear, TurnInv, JobInv

(* An instruction, with or without its notice.                             *)
LEMMA InstructKeeps ==
    ASSUME TurnInv, NEW n \in Notes, Instruct(n)
    PROVE  TurnInv'
<1>1. /\ asked[n] < load.asks[n] /\ asked' = [asked EXCEPT ![n] = 1]
      /\ UNCHANGED <<entries, saved, sending, closed, fatal, load, draft, spent, cancelled>>
  BY DEF Instruct, transcript, ends
<1>2. /\ n \in Items /\ n \in Hearers /\ n \notin Messages
  BY ItemKinds
<1>3. Clear(n) /\ n \notin Sent /\ ~Pending("notice", n)
  BY <1>1, <1>2, ClearFirst
<1>4. /\ asked \in [Items -> Nat] /\ asked' \in [Items -> Nat] /\ asked'[n] # 0
      /\ \A k \in Items : k # n => asked'[k] = asked[k]
  BY <1>1, <1>2 DEF TurnInv, ChatTypeOK
<1>5. CASE saves' = Append(saves, [for |-> "notice", item |-> n]) /\ UNCHANGED <<waiting, turns, job, words>>
  <2>1. UNCHANGED <<waiting, busy, run, chain, started, live, output, stop, told, folded>>
    BY <1>5 DEF turns, job, words
  <2> DEFINE x == [for |-> "notice", item |-> n]
  <2>2. /\ saves' \in Seq([for: Fors, item: Items]) /\ Range(saves') = Range(saves) \cup {x} /\ NoDup(saves')
    <3>1. x \in [for: Fors, item: Items] /\ saves \in Seq([for: Fors, item: Items])
      BY <1>2 DEF Fors, TurnInv, ChatTypeOK
    <3>2. x \notin Range(saves) /\ NoDup(saves)
      BY <1>3 DEF Pending, TurnInv, SavesInv
    <3> QED
      BY <1>5, <3>1, <3>2, AppendFacts
  <2>3. x.for = "notice" /\ x.item = n /\ x.for \notin Requests
    BY DEF Requests
  <2> HIDE DEF x
  <2>4. /\ \A f, k : Pending(f, k) => Pending(f, k)'
        /\ \A k : Pending("notice", k)' => Pending("notice", k) \/ k = n
        /\ \A k : Pending("send", k)' => Pending("send", k)
    BY <2>2 DEF Pending, x
  <2>5. ChatTypeOK'
    BY <1>1, <1>4, <2>1, <2>2 DEF TurnInv, ChatTypeOK
  <2>6. SavesInv'
    <3>1. ASSUME NEW y \in Range(saves')
          PROVE  /\ y.for = "end" => run'[y.item].at = "saving"
                 /\ y.for = "handoff" => run'[y.item].at = "handoff"
                 /\ y.for = "notice" => y.item \in Notes
                 /\ y.for = "send" => y.item \in Messages
                 /\ y.for \in {"invoke", "followup"} => y.item \in Invokes
                 /\ y.for = "draft" => y.item \in Drafts
                 /\ y.for \in Requests => sending' # <<>> /\ sending'[1] = [item |-> y.item, at |-> "saving"]
                 /\ y.for = "send" /\ Open' => busy' /\ \A i \in Items : Away(i)'
      <4>1. CASE y = x
        BY <2>3, <4>1
      <4>2. CASE y \in Range(saves)
        BY <1>1, <2>1, <4>2 DEF TurnInv, SavesInv, Away, Open
      <4> QED
        BY <2>2, <4>1, <4>2
    <3>2. \A y, z \in Range(saves') : y.for \in Requests /\ z.for \in Requests => y = z
      BY <2>2, <2>3 DEF TurnInv, SavesInv
    <3> QED
      BY <2>2, <3>1, <3>2 DEF SavesInv
  <2>7. MessageInv'
    BY <1>1, <2>1, <2>4 DEF TurnInv, MessageInv
  <2>8. WaitInv'
    <3>1. \A y \in Range(saves') : y \in Range(saves) \/ y.for \notin {"send", "invoke"}
      BY <2>2, <2>3
    <3> QED
      BY <2>1, <3>1 DEF TurnInv, WaitInv
  <2>9. PlaceInv'
    BY <1>1, <1>3, <2>1, <2>4 DEF TurnInv, PlaceInv, Away, Sent, Clear
  <2>10. ToldInv'
    BY <1>1, <1>3, <2>1, <2>4 DEF TurnInv, ToldInv, Due, Sent, Clear
  <2>11. AskedInv'
    BY <1>1, <1>4, <2>1, <2>4 DEF TurnInv, AskedInv, Seen, Away, Sent
  <2>12. JobInv'
    <3>1. \A j \in cancelled : j \in Items /\ j # n
      BY <1>2, ItemKinds DEF TurnInv, ChatTypeOK
    <3> QED
      BY <1>1, <1>4, <2>1, <3>1 DEF TurnInv, JobInv
  <2> QED
    BY <1>1, <2>1, <2>5, <2>6, <2>7, <2>8, <2>9, <2>10, <2>11, <2>12, SameRun, SameSend DEF TurnInv
<1>6. CASE Proceed(n) /\ UNCHANGED saves
  <2>1. Goes(saves')
    BY <1>1, <1>6 DEF TurnInv, ChatTypeOK, SavesInv, Goes
  <2>2. n \notin Sent' /\ ~Pending("notice", n)'
    BY <1>1, <1>3, <1>6 DEF Sent, Pending
  <2> QED
    BY <1>1, <1>3, <1>4, <1>6, <2>1, <2>2, ProceedKeeps
<1> QED
  BY <1>5, <1>6 DEF Instruct

(* A background job asks for its turn.                                     *)
LEMMA AskJobKeeps ==
    ASSUME TurnInv, NEW j \in Jobs, AskJob(j)
    PROVE  TurnInv'
<1>1. /\ asked[j] < load.asks[j] /\ asked' = [asked EXCEPT ![j] = 1]
      /\ UNCHANGED <<entries, saved, sending, saves, closed, fatal, load, draft, spent, cancelled, folded>>
  BY DEF AskJob, transcript, ends
<1>2. /\ j \in Items /\ j \in Hearers /\ j \notin Messages /\ j \notin Drafts
  BY ItemKinds
<1>3. Clear(j) /\ j \notin Sent /\ ~Pending("notice", j) /\ j \notin cancelled
  BY <1>1, <1>2, ClearFirst
<1>4. asked'[j] # 0 /\ told \in [Items -> Seq(Outs)] /\ folded' \subseteq Notes
      /\ draft' \in [id: Drafts \cup {NoItem}, at: {"none", "queued", "running"}]
  BY <1>1, <1>2 DEF TurnInv, ChatTypeOK
<1>5. Goes(saves') /\ j \notin Sent' /\ ~Pending("notice", j)'
  BY <1>1, <1>3 DEF TurnInv, ChatTypeOK, SavesInv, Goes, Sent, Pending
<1>6. ASSUME NEW o \in {"skipped", "failed"}, told' = Tell(told, {j}, o), UNCHANGED <<waiting, turns, job>>
      PROVE  TurnInv'
  <2>1. \A h \in {j} \cap Items : h \notin Jobs => told[h] = <<>>
    OBVIOUS
  <2>2. o = "done" => {j} \cap Jobs = {}
    BY <1>6
  <2>3. o \in Outs
    BY DEF Outs
  <2>4. Grows(told, Tell(told, {j}, o), {j})
    BY <1>4, <2>1, <2>2, <2>3, TellGrows, Zenon
  <2>5. Grows(told, told', {j}) /\ {j} \cap Items = {j}
    BY <1>2, <1>6, <2>4
  <2>6. UNCHANGED <<waiting, busy, run, chain, started, live, output, stop>>
    BY <1>6 DEF turns, job
  <2> QED
    BY <1>1, <1>2, <1>3, <1>4, <1>5, <2>5, <2>6, WaitLeft, GoesKeeps DEF Clear
<1>7. CASE ~Open /\ told' = Tell(told, {j}, "failed") /\ UNCHANGED <<waiting, turns, job>>
  BY <1>6, <1>7
<1>8. CASE Open /\ busy
  <2>1. CASE Full
    <3>1. told' = Tell(told, {j}, "skipped") /\ UNCHANGED <<waiting, turns, job>>
      BY <1>8, <2>1 DEF AskJob
    <3> QED
      BY <1>6, <3>1
  <2>2. CASE ~Full
    <3>1. waiting' = Append(waiting, j) /\ UNCHANGED <<told, busy, run, chain, started, live, output, stop>>
      BY <1>8, <2>2 DEF AskJob, turns, job
    <3>2. j \notin Range(waiting) /\ Grows(told, told, {})
      BY <1>3, <1>4, GrowsNot DEF Clear
    <3> QED
      BY <1>1, <1>2, <1>3, <1>4, <1>5, <2>2, <3>1, <3>2, LongerWait, GoesKeeps
  <2> QED
    BY <2>1, <2>2
<1>9. CASE Open /\ ~busy /\ Starts(j) /\ UNCHANGED <<waiting, chain, told>>
  <2>1. \A k \in Items : Away(k)
    BY <1>9 DEF TurnInv, RunInv
  <2>2. \A x \in Range(saves') : x.for \notin {"end", "handoff", "send"}
    <3>1. \A x \in Range(saves') : x \in Range(saves) /\ x.item \in Items
      BY <1>5, GoesFacts DEF Goes
    <3> QED
      BY <1>9, <2>1, <3>1 DEF TurnInv, SavesInv, Away
  <2>3. waiting' = Without(waiting, j) /\ j \notin Range(waiting)
    BY <1>3, <1>9, WaitTypes, WithoutFacts DEF Clear
  <2> QED
    BY <1>1, <1>2, <1>3, <1>4, <1>5, <1>9, <2>1, <2>2, <2>3, StartKeeps DEF Clear
<1> QED
  BY <1>7, <1>8, <1>9 DEF AskJob

-----------------------------------------------------------------------------
(* Requests whose save ended.                                              *)

(* The first save ends, and its request is answered.                       *)
LEMMA FirstSave ==
    ASSUME TurnInv, NEW for \in Fors, NEW ok \in BOOLEAN, SaveEnds(for, ok)
    PROVE  /\ Item \in Items /\ [for |-> for, item |-> Item] \in Range(saves)
           /\ Tail(saves) \in Seq([for: Fors, item: Items]) /\ NoDup(Tail(saves))
           /\ Range(Tail(saves)) = Range(saves) \ {[for |-> for, item |-> Item]}
           /\ \A f \in Fors : Pending(f, Item) => f = for \/ [for |-> f, item |-> Item] \in Range(Tail(saves))
           /\ saved' = saved \/ saved' = Range(entries)
           /\ ok => saved' = Range(entries)
           /\ load' \in [asks: [Items -> Nat], faults: Nat] /\ load'.asks = load.asks
           /\ fatal' \in BOOLEAN
<1>1. saves # <<>> /\ Head(saves).for = for
  BY DEF SaveEnds
<1> DEFINE R == [for: Fors, item: Items]
<1>2. saves \in Seq(R) /\ NoDup(saves)
  BY DEF TurnInv, ChatTypeOK, SavesInv
<1>3. \A r \in R : r.for \in Fors /\ r.item \in Items /\ r = [for |-> r.for, item |-> r.item]
  OBVIOUS
<1> HIDE DEF R
<1>4. /\ Tail(saves) \in Seq(R) /\ NoDup(Tail(saves)) /\ Head(saves) \in R
      /\ Head(saves) \in Range(saves) /\ Range(Tail(saves)) = Range(saves) \ {Head(saves)}
  BY <1>1, <1>2, TailFacts
<1>5. Head(saves) = [for |-> for, item |-> Item] /\ Item \in Items
  BY <1>1, <1>3, <1>4 DEF Item
<1>6. \A f \in Fors : Pending(f, Item) => f = for \/ [for |-> f, item |-> Item] \in Range(Tail(saves))
  <2>1. \A f \in Fors : f # for => [for |-> f, item |-> Item] # [for |-> for, item |-> Item]
    OBVIOUS
  <2> QED
    BY <1>4, <1>5, <2>1 DEF Pending
<1>7. /\ load' \in [asks: [Items -> Nat], faults: Nat] /\ load'.asks = load.asks /\ fatal' \in BOOLEAN
  <2>1. load \in [asks: [Items -> Nat], faults: Nat] /\ fatal \in BOOLEAN
    BY DEF TurnInv, ChatTypeOK
  <2>2. CASE ok
    BY <2>1, <2>2 DEF SaveEnds
  <2>3. CASE ~ok
    BY <2>1, <2>3 DEF SaveEnds
  <2> QED
    BY <2>2, <2>3
<1>8. /\ saved' = saved \/ saved' = Range(entries)
      /\ ok => saved' = Range(entries)
  BY DEF SaveEnds
<1> QED
  BY <1>4, <1>5, <1>6, <1>7, <1>8 DEF R

(* The request whose save ends is the first one, and is answered.          *)
LEMMA ServedRequest ==
    ASSUME TurnInv, NEW for \in Requests, NEW ok \in BOOLEAN, SaveEnds(for, ok), Served,
           saves' = Tail(saves)
    PROVE  /\ Goes(saves') /\ sending # <<>> /\ sending' = RemoveAt(sending, 1)
           /\ sending[1] = [item |-> Item, at |-> "saving"] /\ Item \in Sent
           /\ \A x \in Range(saves') : x.for \notin Requests
           /\ Item \notin Messages => Item \notin Sent'
<1>1. for \in Fors
  BY DEF Requests, Fors
<1>2. /\ Item \in Items /\ [for |-> for, item |-> Item] \in Range(saves)
      /\ Tail(saves) \in Seq([for: Fors, item: Items]) /\ NoDup(Tail(saves))
      /\ Range(Tail(saves)) = Range(saves) \ {[for |-> for, item |-> Item]}
      /\ saved' = saved \/ saved' = Range(entries)
      /\ load' \in [asks: [Items -> Nat], faults: Nat] /\ load'.asks = load.asks
      /\ fatal' \in BOOLEAN
  BY <1>1, FirstSave
<1> DEFINE x == [for |-> for, item |-> Item]
           r == [item |-> Item, at |-> "saving"]
<1>3. x.for = for /\ x.item = Item
  OBVIOUS
<1> HIDE DEF x
<1>4. sending # <<>> /\ sending[1] = r
  BY <1>2, <1>3 DEF TurnInv, SavesInv, x
<1>5. /\ DOMAIN sending = 1 .. Len(sending) /\ 1 \in DOMAIN sending /\ Len(sending) \in Nat
      /\ \A k \in DOMAIN sending : sending[k].item \in Sent
  BY <1>4, SendTypes DEF TurnInv
<1>6. \A k \in DOMAIN sending : sending[k] = r => k = 1
  <2>1. r.at = "saving"
    OBVIOUS
  <2> HIDE DEF r
  <2>2. \A k \in DOMAIN sending : k > 1 => sending[k].at = "new"
    BY DEF TurnInv, SendInv
  <2> QED
    BY <1>5, <2>1, <2>2
<1>7. Place(sending, r) = 1
  BY <1>4, <1>5, <1>6 DEF Place
<1>8. sending' = RemoveAt(sending, 1)
  BY <1>7 DEF Served, Answered
<1>9. \A y \in Range(saves') : y.for \notin Requests
  BY <1>2, <1>3 DEF TurnInv, SavesInv, x
<1>10. Goes(saves')
  BY <1>2, <1>4, <1>8, <1>9 DEF Goes
<1>11. Item \in Sent /\ (Item \notin Messages => Item \notin Sent')
  <2>1. sending[1].item = Item
    BY <1>4
  <2> QED
    BY <1>4, <1>5, <1>8, <2>1, AnsweredRequest DEF TurnInv
<1> QED
  BY <1>4, <1>8, <1>9, <1>10, <1>11

(* The notice of an instruction is saved, or is not.                       *)
LEMMA NoticeKeeps ==
    ASSUME TurnInv, NEW ok \in BOOLEAN, NoticeSaved(ok)
    PROVE  TurnInv'
<1>1. /\ SaveEnds("notice", ok) /\ saves' = Tail(saves)
      /\ IF ok THEN Proceed(Item) ELSE UNCHANGED <<waiting, turns, job, words>>
      /\ UNCHANGED <<entries, sending, closed, draft, asked, spent, cancelled>>
  BY DEF NoticeSaved, people
<1>2. "notice" \in Fors
  BY DEF Fors
<1>3. /\ Item \in Items /\ [for |-> "notice", item |-> Item] \in Range(saves)
      /\ saves' \in Seq([for: Fors, item: Items]) /\ NoDup(saves')
      /\ Range(saves') = Range(saves) \ {[for |-> "notice", item |-> Item]}
      /\ saved' = saved \/ saved' = Range(entries)
      /\ load' \in [asks: [Items -> Nat], faults: Nat] /\ load'.asks = load.asks
      /\ fatal' \in BOOLEAN
  BY <1>1, <1>2, FirstSave
<1>4. Goes(saves')
  BY <1>1, <1>3 DEF Goes
<1>5. Item \in Notes
  <2>1. \A x \in Range(saves) : x.for = "notice" => x.item \in Notes
    BY DEF TurnInv, SavesInv
  <2> QED
    BY <1>3, <2>1
<1>6. Item \in Hearers /\ Item \notin Messages /\ Pending("notice", Item)
  BY <1>3, <1>5, ItemKinds DEF Pending
<1>7. told[Item] = <<>> /\ Away(Item) /\ Item \notin Range(waiting) /\ Item \notin chain
  BY <1>3, <1>5, <1>6, ItemKinds DEF TurnInv, ToldInv, PlaceInv, Due, ChatTypeOK
<1>8. asked[Item] # 0
  BY <1>3, <1>6 DEF TurnInv, AskedInv, Seen
<1>9. PICK n \in Notes : n = Item
  BY <1>5
<1>10. CASE ok
  <2>1. n \notin Sent'
    <3>1. \A k \in DOMAIN sending : sending[k].item # n
      BY SendTypes, ItemKinds DEF TurnInv
    <3> QED
      BY <1>1, <3>1 DEF Sent
  <2>2. ~Pending("notice", n)'
    BY <1>3, <1>9 DEF Pending
  <2>3. Clear(n) /\ Proceed(n) /\ asked' = asked /\ asked'[n] # 0
    BY <1>1, <1>7, <1>8, <1>9, <1>10 DEF Clear
  <2>4. UNCHANGED <<entries, closed, draft, spent, cancelled>> /\ n \in Notes \cup Invokes
    BY <1>1
  <2> QED
    BY <1>4, <2>1, <2>2, <2>3, <2>4, ProceedKeeps
<1>11. CASE ~ok
  <2>1. UNCHANGED <<waiting, busy, run, chain, started, live, output, stop, told, folded>>
    BY <1>1, <1>11 DEF turns, job, words
  <2>2. Item \notin cancelled
    BY <1>5, ItemKinds DEF TurnInv, ChatTypeOK
  <2>3. /\ Grows(told, told, {}) /\ folded \subseteq Notes
        /\ draft \in [id: Drafts \cup {NoItem}, at: {"none", "queued", "running"}]
    BY GrowsNot DEF TurnInv, ChatTypeOK
  <2> QED
    BY <1>1, <1>3, <1>4, <2>1, <2>2, <2>3, WaitLeft, GoesKeeps
<1> QED
  BY <1>10, <1>11

(* An invocation that was asked for.                                       *)
LEMMA SentInvoke ==
    ASSUME TurnInv, NEW i \in Invokes, i \in Sent
    PROVE  Clear(i) /\ asked[i] # 0 /\ (Goes(saves') => ~Pending("notice", i)')
<1>1. i \in Items /\ i \in Hearers /\ i \notin Messages /\ i \notin Notes
  BY ItemKinds
<1>2. i \notin Range(waiting) /\ Away(i) /\ i \notin chain
  BY <1>1 DEF TurnInv, PlaceInv
<1>3. told[i] = <<>>
  BY <1>1 DEF TurnInv, ToldInv, Due
<1>4. asked[i] # 0
  BY <1>1 DEF TurnInv, AskedInv, Seen
<1>5. ASSUME Goes(saves'), Pending("notice", i)'
      PROVE  FALSE
  <2>1. [for |-> "notice", item |-> i] \in Range(saves)
    BY <1>5 DEF Goes, Pending
  <2>2. \A x \in Range(saves) : x.for = "notice" => x.item \in Notes
    BY DEF TurnInv, SavesInv
  <2> QED
    BY <1>1, <2>1, <2>2
<1> QED
  BY <1>2, <1>3, <1>4, <1>5 DEF Clear

(* A Chat that is open and idle has no turn, nor one that is being saved.  *)
LEMMA IdleFacts ==
    ASSUME TurnInv, Open, ~busy, Goes(saves')
    PROVE  /\ \A k \in Items : Away(k)
           /\ \A x \in Range(saves') : x.for \notin {"end", "handoff", "send"}
<1>1. \A k \in Items : Away(k)
  BY DEF TurnInv, RunInv
<1>2. \A x \in Range(saves') : x \in Range(saves) /\ x.item \in Items
  BY GoesFacts DEF Goes
<1> QED
  BY <1>1, <1>2 DEF TurnInv, SavesInv, Away

(* The notice of an automatic follow-up is saved, or is not.               *)
LEMMA FollowupKeeps ==
    ASSUME TurnInv, NEW ok \in BOOLEAN, FollowupSaved(ok)
    PROVE  TurnInv'
<1>1. /\ SaveEnds("followup", ok) /\ saves' = Tail(saves) /\ Served
      /\ IF ok THEN Proceed(Item) ELSE UNCHANGED <<waiting, turns, job, words>>
      /\ UNCHANGED <<entries, closed, draft, asked, spent, cancelled>>
  BY DEF FollowupSaved, people
<1>2. "followup" \in Requests /\ "followup" \in Fors
  BY DEF Requests, Fors
<1>3. Goes(saves') /\ Item \in Sent /\ (Item \notin Messages => Item \notin Sent')
  BY <1>1, <1>2, ServedRequest
<1>4. [for |-> "followup", item |-> Item] \in Range(saves)
  BY <1>1, <1>2, FirstSave
<1>5. Item \in Invokes
  <2>1. \A x \in Range(saves) : x.for = "followup" => x.item \in Invokes
    BY DEF TurnInv, SavesInv
  <2> QED
    BY <1>4, <2>1
<1>6. PICK n \in Invokes : n = Item
  BY <1>5
<1>7. /\ n \in Items /\ n \notin Messages /\ n \notin Jobs /\ n \in Sent /\ n \notin Sent'
  BY <1>3, <1>6, ItemKinds
<1>8. Clear(n) /\ asked[n] # 0 /\ ~Pending("notice", n)'
  BY <1>3, <1>7, SentInvoke
<1>9. CASE ok
  <2>1. Proceed(n) /\ asked' = asked /\ asked'[n] # 0
    BY <1>1, <1>6, <1>8, <1>9
  <2>2. UNCHANGED folded
    <3>1. ~Folds(n)
      BY ItemKinds DEF Folds
    <3> QED
      BY <2>1, <3>1 DEF Proceed
  <2>3. UNCHANGED <<entries, closed, draft, spent, cancelled, folded>> /\ n \in Notes \cup Invokes
    BY <1>1, <2>2
  <2> QED
    BY <1>3, <1>7, <1>8, <2>1, <2>3, ProceedKeeps
<1>10. CASE ~ok
  <2>1. UNCHANGED <<waiting, busy, run, chain, started, live, output, stop, told, folded>>
    BY <1>1, <1>10 DEF turns, job, words
  <2>2. n \notin cancelled
    BY <1>7 DEF TurnInv, ChatTypeOK
  <2>3. /\ Grows(told, told, {}) /\ folded \subseteq Notes
        /\ draft \in [id: Drafts \cup {NoItem}, at: {"none", "queued", "running"}]
    BY GrowsNot DEF TurnInv, ChatTypeOK
  <2> QED
    BY <1>1, <1>3, <1>7, <2>1, <2>2, <2>3, WaitLeft, GoesKeeps
<1> QED
  BY <1>9, <1>10

(* A message is saved and its turn starts, or it is taken back.            *)
LEMMA MessageKeeps ==
    ASSUME TurnInv, NEW ok \in BOOLEAN, MessageSaved(ok)
    PROVE  TurnInv'
<1>1. /\ SaveEnds("send", ok) /\ saves' = Tail(saves) /\ Served
      /\ \/ ok /\ Open /\ Starts(Item) /\ UNCHANGED entries
         \/ ok /\ ~Open /\ UNCHANGED <<entries, busy, run, started, live, output, stop>>
         \/ /\ ~ok /\ entries' = Without(entries, Item) /\ busy' = FALSE
            /\ UNCHANGED <<run, started, live, output, stop>>
      /\ UNCHANGED <<waiting, chain, closed, draft, asked, spent, cancelled, told, folded>>
  BY DEF MessageSaved, people, words, job
<1>2. "send" \in Requests /\ "send" \in Fors
  BY DEF Requests, Fors
<1>3. Goes(saves') /\ \A x \in Range(saves') : x.for \notin Requests
  BY <1>1, <1>2, ServedRequest
<1>4. [for |-> "send", item |-> Item] \in Range(saves) /\ (ok => saved' = Range(entries))
  BY <1>1, <1>2, FirstSave
<1>5. /\ Item \in Messages /\ (Open => \A k \in Items : Away(k))
      /\ Len(waiting) <= MaxQueue
  <2> DEFINE x == [for |-> "send", item |-> Item]
  <2>1. x.for = "send" /\ x.item = Item
    OBVIOUS
  <2> HIDE DEF x
  <2>2. x \in Range(saves)
    BY <1>4 DEF x
  <2>3. Len(waiting) \in Nat /\ MaxQueue \in Nat
    BY WaitTypes
  <2>4. ~(Len(waiting) > MaxQueue)
    BY <2>1, <2>2 DEF TurnInv, WaitInv
  <2>5. Len(waiting) <= MaxQueue
    BY <2>3, <2>4
  <2>6. x.item \in Messages /\ (Open => \A k \in Items : Away(k))
    BY <2>1, <2>2 DEF TurnInv, SavesInv
  <2> QED
    BY <2>1, <2>5, <2>6
<1>6. PICK m \in Messages : m = Item
  BY <1>5
<1>7. m \in Items /\ m \notin Hearers /\ m \notin Drafts /\ m \notin Jobs /\ m \notin Invokes
  BY ItemKinds DEF Hearers
<1>8. /\ Pending("send", m) /\ ~Pending("send", m)'
  <2>1. \A x \in Range(saves') : x.for # "send"
    BY <1>2, <1>3
  <2> QED
    BY <1>4, <1>6, <2>1 DEF Pending
<1>9. /\ m \in Range(entries) /\ m \notin Range(waiting) /\ started[m] = 0 /\ run[m].at = "none"
  <2>1. started[m] \in Nat /\ started[m] <= 1
    BY <1>7 DEF TurnInv, ChatTypeOK, MessageInv
  <2> QED
    BY <1>8, <2>1 DEF TurnInv, MessageInv
<1>10. /\ Grows(told, told, {}) /\ folded \subseteq Notes /\ m \notin cancelled
       /\ draft \in [id: Drafts \cup {NoItem}, at: {"none", "queued", "running"}]
  BY <1>7, GrowsNot DEF TurnInv, ChatTypeOK
<1>11. CASE ok /\ Open /\ Starts(Item) /\ UNCHANGED entries
  <2>1. \A x \in Range(saves') : x.for \notin {"end", "handoff", "send"}
    <3>1. \A x \in Range(saves') : x \in Range(saves) /\ x.item \in Items
      BY <1>3, GoesFacts DEF Goes
    <3> QED
      BY <1>2, <1>3, <1>5, <1>11, <3>1 DEF TurnInv, SavesInv, Away
  <2>2. waiting' = Without(waiting, m)
    BY <1>1, <1>9, WaitTypes, WithoutFacts
  <2>3. Starts(m) /\ m \in saved'
    BY <1>4, <1>6, <1>9, <1>11
  <2> QED
    BY <1>1, <1>3, <1>5, <1>7, <1>9, <1>10, <1>11, <2>1, <2>2, <2>3, StartKeeps
<1>12. CASE ok /\ ~Open /\ UNCHANGED <<entries, busy, run, started, live, output, stop>>
  BY <1>1, <1>3, <1>7, <1>10, <1>12, WaitLeft, GoesKeeps
<1>13. CASE /\ ~ok /\ entries' = Without(entries, Item) /\ busy' = FALSE
            /\ UNCHANGED <<run, started, live, output, stop>>
  <2>1. WaitInv' /\ waiting' \in Seq(Items)
    <3>1. waiting \in Seq(Items) /\ NoDup(waiting) /\ Len(waiting) \in Nat /\ MaxQueue \in Nat
      BY WaitTypes
    <3>2. ~(Len(waiting) > MaxQueue) /\ Len(waiting) <= MaxQueue + 1
      BY <1>5, <3>1
    <3> QED
      BY <1>1, <3>1, <3>2 DEF WaitInv
  <2>2. entries' = Without(entries, m)
    BY <1>6, <1>13
  <2>3. \A x \in Range(saves') : x.for # "send"
    BY <1>2, <1>3
  <2> QED
    BY <1>1, <1>3, <1>5, <1>7, <1>8, <1>9, <1>10, <1>13, <2>1, <2>2, <2>3, GoesKeeps
<1> QED
  BY <1>1, <1>11, <1>12, <1>13

(* An invocation is saved: it waits, starts, or is taken back.             *)
LEMMA InvokeKeeps ==
    ASSUME TurnInv, NEW ok \in BOOLEAN, InvokeSaved(ok)
    PROVE  TurnInv'
<1>1. /\ SaveEnds("invoke", ok) /\ saves' = Tail(saves) /\ Served
      /\ \/ /\ ok /\ Open /\ busy /\ waiting' = Append(waiting, Item)
            /\ UNCHANGED <<entries, busy, run, chain, started, live, output, stop>>
         \/ /\ ok /\ Open /\ ~busy /\ Starts(Item) /\ chain' = chain \cup {Item}
            /\ UNCHANGED <<entries, waiting>>
         \/ ok /\ ~Open /\ UNCHANGED <<entries, waiting, busy, run, chain, started, live, output, stop>>
         \/ /\ ~ok /\ entries' = Without(entries, Item)
            /\ UNCHANGED <<waiting, busy, run, chain, started, live, output, stop>>
      /\ UNCHANGED <<closed, draft, asked, spent, cancelled, told, folded>>
  BY DEF InvokeSaved, people, words, turns, job
<1>2. "invoke" \in Requests /\ "invoke" \in Fors
  BY DEF Requests, Fors
<1>3. /\ Goes(saves') /\ \A x \in Range(saves') : x.for \notin Requests
      /\ Item \in Sent /\ (Item \notin Messages => Item \notin Sent')
  BY <1>1, <1>2, ServedRequest
<1>4. [for |-> "invoke", item |-> Item] \in Range(saves)
  BY <1>1, <1>2, FirstSave
<1>5. Item \in Invokes /\ Len(waiting) <= MaxQueue
  <2> DEFINE x == [for |-> "invoke", item |-> Item]
  <2>1. x.for = "invoke" /\ x.item = Item
    OBVIOUS
  <2> HIDE DEF x
  <2>2. x \in Range(saves)
    BY <1>4 DEF x
  <2>3. Len(waiting) \in Nat /\ MaxQueue \in Nat
    BY WaitTypes
  <2>4. ~(Len(waiting) > MaxQueue)
    BY <2>1, <2>2 DEF TurnInv, WaitInv
  <2>5. Len(waiting) <= MaxQueue
    BY <2>3, <2>4
  <2>6. x.item \in Invokes
    BY <2>1, <2>2 DEF TurnInv, SavesInv
  <2> QED
    BY <2>1, <2>5, <2>6
<1>6. PICK n \in Invokes : n = Item
  BY <1>5
<1>7. /\ n \in Items /\ n \in Hearers /\ n \notin Messages /\ n \notin Jobs /\ n \notin Drafts
      /\ n \in Sent /\ n \notin Sent'
  BY <1>3, <1>6, ItemKinds
<1>8. Clear(n) /\ asked[n] # 0 /\ ~Pending("notice", n)'
  BY <1>3, <1>7, SentInvoke
<1>9. told[n] = <<>> /\ n \notin Range(waiting) /\ n \notin chain
  BY <1>8 DEF Clear
<1>10. /\ Grows(told, told, {}) /\ folded \subseteq Notes /\ n \notin cancelled
       /\ draft \in [id: Drafts \cup {NoItem}, at: {"none", "queued", "running"}]
  BY <1>7, GrowsNot DEF TurnInv, ChatTypeOK
<1>11. CASE /\ ok /\ Open /\ busy /\ waiting' = Append(waiting, Item)
            /\ UNCHANGED <<entries, busy, run, chain, started, live, output, stop>>
  <2>1. waiting' = Append(waiting, n)
    BY <1>6, <1>11
  <2>2. /\ waiting \in Seq(Items) /\ Len(waiting) \in Nat /\ MaxQueue \in Nat /\ NoDup(waiting)
    BY WaitTypes
  <2>3. /\ waiting' \in Seq(Items) /\ Len(waiting') = Len(waiting) + 1
        /\ Range(waiting') = Range(waiting) \cup {n} /\ NoDup(waiting')
    BY <1>7, <1>9, <2>1, <2>2, AppendFacts
  <2>4. Len(waiting') <= MaxQueue + 1
    BY <1>5, <2>2, <2>3
  <2>5. \A x \in Range(saves') : x.for \notin {"send", "invoke"}
    BY <1>3 DEF Requests
  <2>6. WaitInv'
    BY <1>11, <2>3, <2>4, <2>5 DEF WaitInv
  <2> QED
    BY <1>1, <1>3, <1>7, <1>8, <1>10, <1>11, <2>3, <2>6, GoesKeeps
<1>12. CASE /\ ok /\ Open /\ ~busy /\ Starts(Item) /\ chain' = chain \cup {Item}
            /\ UNCHANGED <<entries, waiting>>
  <2>1. /\ \A k \in Items : Away(k)
        /\ \A x \in Range(saves') : x.for \notin {"end", "handoff", "send"}
    BY <1>3, <1>12, IdleFacts
  <2>2. waiting' = Without(waiting, n)
    BY <1>9, <1>12, WaitTypes, WithoutFacts
  <2>3. Starts(n) /\ chain' = chain \cup {n}
    BY <1>6, <1>12
  <2> QED
    BY <1>1, <1>3, <1>7, <1>8, <1>9, <1>10, <1>12, <2>1, <2>2, <2>3, StartKeeps
<1>13. CASE ok /\ ~Open /\ UNCHANGED <<entries, waiting, busy, run, chain, started, live, output, stop>>
  BY <1>1, <1>3, <1>7, <1>10, <1>13, WaitLeft, GoesKeeps
<1>14. CASE /\ ~ok /\ entries' = Without(entries, Item)
            /\ UNCHANGED <<waiting, busy, run, chain, started, live, output, stop>>
  <2>1. entries' = Without(entries, n)
    BY <1>6, <1>14
  <2> QED
    BY <1>1, <1>3, <1>7, <1>10, <1>14, <2>1, WaitLeft, GoesKeeps
<1> QED
  BY <1>1, <1>11, <1>12, <1>13, <1>14

(* The notice of a draft is saved, or is not.                              *)
LEMMA DraftKeeps ==
    ASSUME TurnInv, NEW ok \in BOOLEAN, DraftSaved(ok)
    PROVE  TurnInv'
<1> DEFINE gone == ~ok \/ ~Open
           here == Item \in Range(waiting)
<1>1. /\ SaveEnds("draft", ok) /\ saves' = Tail(saves) /\ Served
      /\ waiting' = IF gone \/ (here /\ ~busy) THEN Without(waiting, Item) ELSE waiting
      /\ IF ~gone /\ here /\ ~busy
         THEN Starts(Item) /\ UNCHANGED chain ELSE UNCHANGED <<turns, job>>
      /\ draft' = IF draft.id # Item THEN draft
                ELSE IF gone THEN NoDraft
                ELSE IF here /\ ~busy THEN [draft EXCEPT !.at = "running"] ELSE draft
      /\ UNCHANGED <<entries, closed, asked, spent, cancelled, told, folded>>
  BY DEF DraftSaved, people, words
<1>2. draft' \in [id: Drafts \cup {NoItem}, at: {"none", "queued", "running"}]
  <2>1. draft \in [id: Drafts \cup {NoItem}, at: {"none", "queued", "running"}]
    BY DEF TurnInv, ChatTypeOK
  <2>2. NoDraft \in [id: Drafts \cup {NoItem}, at: {"none", "queued", "running"}]
    BY DEF NoDraft
  <2>3. [draft EXCEPT !.at = "running"] \in [id: Drafts \cup {NoItem}, at: {"none", "queued", "running"}]
    BY <2>1
  <2> QED
    BY <1>1, <2>1, <2>2, <2>3
<1>3. "draft" \in Requests /\ "draft" \in Fors
  BY DEF Requests, Fors
<1>4. Goes(saves') /\ Item \in Sent
  BY <1>1, <1>3, ServedRequest
<1>5. [for |-> "draft", item |-> Item] \in Range(saves)
  BY <1>1, <1>3, FirstSave
<1>6. Item \in Drafts
  <2>1. \A x \in Range(saves) : x.for = "draft" => x.item \in Drafts
    BY DEF TurnInv, SavesInv
  <2> QED
    BY <1>5, <2>1
<1>7. PICK n \in Drafts : n = Item
  BY <1>6
<1>8. n \in Items /\ n \notin Messages /\ n \notin Hearers /\ n \notin Jobs /\ n \notin Invokes
  BY ItemKinds DEF Hearers
<1>9. asked[n] # 0
  BY <1>4, <1>7, <1>8 DEF TurnInv, AskedInv, Seen
<1>10. /\ Grows(told, told, {}) /\ folded \subseteq Notes /\ n \notin cancelled
  BY <1>8, GrowsNot DEF TurnInv, ChatTypeOK
<1>11. CASE ~gone /\ here /\ ~busy
  <2>1. /\ \A k \in Items : Away(k)
        /\ \A x \in Range(saves') : x.for \notin {"end", "handoff", "send"}
    BY <1>4, <1>11, IdleFacts
  <2>2. Starts(n) /\ waiting' = Without(waiting, n) /\ UNCHANGED chain /\ Open
    BY <1>1, <1>7, <1>11
  <2> QED
    BY <1>1, <1>2, <1>4, <1>8, <1>9, <1>10, <2>1, <2>2, StartKeeps
<1>12. CASE ~(~gone /\ here /\ ~busy)
  <2>1. UNCHANGED <<busy, run, chain, started, live, output, stop>>
    BY <1>1, <1>12 DEF turns, job
  <2>2. waiting' = waiting \/ waiting' = Without(waiting, n)
    BY <1>1, <1>7
  <2>3. WaitInv' /\ waiting' \in Seq(Items) /\ Range(waiting') \subseteq Range(waiting)
    <3>1. CASE waiting' = waiting
      BY <1>4, <2>1, <3>1, WaitLeft
    <3>2. CASE waiting' = Without(waiting, n) /\ n \in Range(waiting)
      <4>1. /\ waiting' \in Seq(Items) /\ Len(waiting') = Len(waiting) - 1 /\ NoDup(waiting')
            /\ Range(waiting') \subseteq Range(waiting)
        BY <3>2, WaitTypes, WithoutFacts
      <4>2. Len(waiting') < Len(waiting)
        BY <4>1, WaitTypes
      <4> QED
        BY <4>1, <4>2, ShorterWait
    <3>3. waiting' = Without(waiting, n) /\ n \notin Range(waiting) => waiting' = waiting
      BY WaitTypes, WithoutFacts
    <3> QED
      BY <2>2, <3>1, <3>2, <3>3
  <2> QED
    BY <1>1, <1>2, <1>4, <1>8, <1>10, <2>1, <2>3, GoesKeeps
<1> QED
  BY <1>11, <1>12

(* A save and an entry are added.                                          *)
LEMMA AppendSave ==
    ASSUME NEW q \in Seq([for: Fors, item: Items]), NoDup(q), NEW x \in [for: Fors, item: Items],
           x \notin Range(q)
    PROVE  /\ Append(q, x) \in Seq([for: Fors, item: Items])
           /\ Range(Append(q, x)) = Range(q) \cup {x} /\ NoDup(Append(q, x))
  BY AppendFacts

(* One more entry of the transcript.                                       *)
LEMMA AppendEntry ==
    ASSUME NEW q \in Seq(Messages \cup Invokes), NEW i \in Messages \cup Invokes
    PROVE  /\ Append(q, i) \in Seq(Messages \cup Invokes) /\ Range(Append(q, i)) = Range(q) \cup {i}
           /\ Len(Append(q, i)) = Len(q) + 1
           /\ \A y : Once(q, y) /\ (y = i => i \notin Range(q)) => Once(Append(q, i), y)
  BY AppendFacts

(* The first request is saved: a send reserves the turn, a draft its place *)
(* in the queue.                                                           *)
LEMMA SavingKeeps ==
    ASSUME TurnInv, sending # <<>>, sending[1].at = "checked", sending' = [sending EXCEPT ![1].at = "saving"],
           NEW f \in Requests, NEW i, i = sending[1].item, saves' = Append(saves, [for |-> f, item |-> i]),
           f = "send" => i \in Messages /\ Open /\ ~busy /\ busy' = TRUE /\ entries' = Append(entries, i),
           f \in {"invoke", "followup"} => i \in Invokes, f = "draft" => i \in Drafts,
           f = "invoke" => ~(busy /\ Full),
           f # "send" => busy' = busy /\ (entries' = entries \/ (i \in Invokes /\ entries' = Append(entries, i))),
           waiting' = waiting \/ (f = "draft" /\ ~Full /\ waiting' = Append(waiting, i)),
           draft' \in [id: Drafts \cup {NoItem}, at: {"none", "queued", "running"}],
           UNCHANGED <<saved, run, chain, started, closed, fatal, load, live, output, stop,
                       asked, spent, cancelled, told, folded>>
    PROVE  TurnInv'
<1>1. /\ sending' \in Seq([item: Messages \cup Invokes \cup Drafts, at: {"new", "checked", "saving"}])
      /\ Len(sending') = Len(sending) /\ sending' # <<>>
      /\ DOMAIN sending' = DOMAIN sending /\ 1 \in DOMAIN sending
      /\ sending'[1] = [item |-> i, at |-> "saving"]
      /\ \A k \in DOMAIN sending : k # 1 => sending'[k] = sending[k]
      /\ \A k \in DOMAIN sending : sending'[k].item = sending[k].item
      /\ Sent' = Sent
  BY MovedRequest DEF TurnInv
<1>2. i \in Items /\ (f = "send" \/ i \notin Messages) /\ (f = "draft" => i \notin Hearers /\ i \notin Messages)
  BY <1>1, SendTypes, ItemKinds DEF TurnInv, Requests
<1>3. \A x \in Range(saves) : x.for \notin Requests
  BY NoRequest DEF TurnInv
<1> DEFINE x == [for |-> f, item |-> i]
<1>4. x.for = f /\ x.item = i
  OBVIOUS
<1>5. x \in [for: Fors, item: Items]
  BY <1>2 DEF Requests, Fors
<1> HIDE DEF x
<1>6. /\ saves' \in Seq([for: Fors, item: Items]) /\ Range(saves') = Range(saves) \cup {x} /\ NoDup(saves')
  <2>1. saves \in Seq([for: Fors, item: Items]) /\ NoDup(saves)
    BY DEF TurnInv, ChatTypeOK, SavesInv
  <2>2. x \notin Range(saves)
    BY <1>3, <1>4
  <2>3. saves' = Append(saves, x)
    BY DEF x
  <2> HIDE DEF x
  <2>4. /\ Append(saves, x) \in Seq([for: Fors, item: Items])
        /\ Range(Append(saves, x)) = Range(saves) \cup {x} /\ NoDup(Append(saves, x))
    BY <1>5, <2>1, <2>2, AppendSave
  <2> QED
    BY <2>3, <2>4, Zenon
<1>7. \A g, k : Pending(g, k)' => Pending(g, k) \/ (g = f /\ k = i)
  <2>1. ASSUME NEW g, NEW k, [for |-> g, item |-> k] = x
        PROVE  g = f /\ k = i
    <3>1. [for |-> g, item |-> k].for = g /\ [for |-> g, item |-> k].item = k
      OBVIOUS
    <3> QED
      BY <1>4, <2>1, <3>1
  <2> QED
    BY <1>6, <2>1 DEF Pending
<1>8. f # "notice"
  BY DEF Requests
<1>9. /\ entries' \in Seq(Messages \cup Invokes)
      /\ \A y : y \in Range(entries') <=> y \in Range(entries) \/ (y = i /\ entries' # entries)
      /\ \A y : Once(entries, y) /\ (y = i => y \notin Range(entries)) => Once(entries', y)
      /\ f = "send" => i \in Range(entries')
  <2>1. entries \in Seq(Messages \cup Invokes)
    BY WaitTypes
  <2>2. CASE entries' = entries /\ f # "send"
    <3>1. \A y : Once(entries, y) => Once(entries', y)
      BY <2>2, Zenon
    <3> QED
      BY <2>1, <2>2, <3>1
  <2>3. CASE entries' = Append(entries, i) /\ i \in Messages \cup Invokes
    <3> DEFINE e == Append(entries, i)
    <3>3. i \in Messages \cup Invokes /\ entries' = e
      BY <2>3
    <3>4. /\ e \in Seq(Messages \cup Invokes) /\ Range(e) = Range(entries) \cup {i}
          /\ Len(e) = Len(entries) + 1
          /\ \A y : Once(entries, y) /\ (y = i => i \notin Range(entries)) => Once(e, y)
      BY <2>1, <3>3, AppendEntry
    <3> HIDE DEF e
    <3>1. /\ entries' \in Seq(Messages \cup Invokes) /\ Range(entries') = Range(entries) \cup {i}
          /\ Len(entries') = Len(entries) + 1
          /\ \A y : Once(entries, y) /\ (y = i => y \notin Range(entries)) => Once(entries', y)
      BY <3>3, <3>4, Zenon
    <3>2. entries' # entries
      BY <2>1, <3>1
    <3> QED
      BY <3>1, <3>2
  <2> QED
    BY <2>2, <2>3
<1>10. /\ WaitInv' /\ waiting' \in Seq(Items) /\ Range(waiting) \subseteq Range(waiting')
       /\ \A y \in Range(waiting') : y \in Range(waiting) \/ (y = i /\ f = "draft")
  <2>1. CASE waiting' = waiting
    <3>1. Len(waiting) \in Nat /\ MaxQueue \in Nat
      BY WaitTypes
    <3>2. Len(waiting') > MaxQueue => busy' /\ (f \notin {"send", "invoke"})
      <4>1. Len(waiting) > MaxQueue => busy /\ Full
        BY <3>1 DEF TurnInv, WaitInv, Full
      <4>2. f # "send" => busy' = busy
        OBVIOUS
      <4>3. busy => f # "send" /\ (Full => f # "invoke")
        OBVIOUS
      <4> QED
        BY ONLY waiting' = waiting, f = "send" => ~busy, f = "invoke" => ~(busy /\ Full), <4>1, <4>2
    <3>3. \A y \in Range(saves) : y.for \notin {"send", "invoke"}
      BY <1>3 DEF Requests
    <3>4. Len(waiting') > MaxQueue => /\ busy' /\ \A y \in Range(saves') : y.for \notin {"send", "invoke"}
                                      /\ \E h \in Invokes : h \in Range(waiting')
      BY <1>4, <1>6, <2>1, <3>2, <3>3 DEF TurnInv, WaitInv
    <3> QED
      BY <2>1, <3>4, WaitTypes DEF TurnInv, WaitInv
  <2>2. CASE f = "draft" /\ ~Full /\ waiting' = Append(waiting, i)
    <3>1. i \notin Range(waiting)
      BY <1>1, <2>2 DEF TurnInv, SendInv
    <3> QED
      BY <1>2, <2>2, <3>1, LongerWait
  <2> QED
    BY <2>1, <2>2
<1>11. ChatTypeOK'
  <2>1. busy' \in BOOLEAN
    BY DEF TurnInv, ChatTypeOK
  <2> QED
    BY <1>1, <1>6, <1>9, <1>10, <2>1 DEF TurnInv, ChatTypeOK
<1>12. SavesInv'
  <2>1. ASSUME NEW y \in Range(saves')
        PROVE  /\ y.for = "end" => run'[y.item].at = "saving"
               /\ y.for = "handoff" => run'[y.item].at = "handoff"
               /\ y.for = "notice" => y.item \in Notes
               /\ y.for = "send" => y.item \in Messages
               /\ y.for \in {"invoke", "followup"} => y.item \in Invokes
               /\ y.for = "draft" => y.item \in Drafts
               /\ y.for \in Requests => sending' # <<>> /\ sending'[1] = [item |-> y.item, at |-> "saving"]
               /\ y.for = "send" /\ Open' => busy' /\ \A h \in Items : Away(h)'
    <3>1. CASE y = x
      <4>1. f \notin {"end", "handoff", "notice"}
        BY DEF Requests
      <4>2. f = "send" => \A h \in Items : Away(h)'
        BY DEF TurnInv, RunInv, Away
      <4> QED
        BY <1>1, <1>4, <3>1, <4>1, <4>2
    <3>2. CASE y \in Range(saves)
      <4>1. y.for \notin Requests /\ y.for # "send" /\ y.for \notin {"invoke", "followup"} /\ y.for # "draft"
        BY <1>3, <3>2 DEF Requests
      <4> QED
        BY <3>2, <4>1 DEF TurnInv, SavesInv
    <3> QED
      BY <1>6, <3>1, <3>2
  <2>2. \A y, z \in Range(saves') : y.for \in Requests /\ z.for \in Requests => y = z
    BY <1>3, <1>6
  <2> QED
    BY <1>6, <2>1, <2>2 DEF SavesInv
<1>13. RunInv'
  BY DEF TurnInv, RunInv, Away, Open
<1>14. SendInv'
  <2>1. DOMAIN sending \subseteq Int
    BY SendTypes DEF TurnInv
  <2>2. \A k \in DOMAIN sending' : k > 1 => sending'[k].at = "new"
    BY <1>1, <2>1 DEF TurnInv, SendInv
  <2>3. \A k, l \in DOMAIN sending' :
          sending'[k].item = sending'[l].item /\ sending'[k].item \notin Messages => k = l
    BY <1>1 DEF TurnInv, SendInv
  <2>4. sending'[1].at = "saving"
    BY <1>1
  <2>5. ASSUME NEW k \in DOMAIN sending', sending'[k].at # "saving"
        PROVE  k # 1 /\ sending[k].at = "new" /\ sending'[k].item = sending[k].item /\ k \in DOMAIN sending
    <3>1. k \in DOMAIN sending /\ k # 1 /\ sending'[k] = sending[k]
      BY <1>1, <2>4, <2>5
    <3>2. k > 1
      BY <3>1, SendTypes DEF TurnInv
    <3> QED
      BY <3>1, <3>2 DEF TurnInv, SendInv
  <2>6. \A k \in DOMAIN sending' : sending'[k].at # "saving" /\ sending'[k].item \in Drafts =>
          sending'[k].item \notin Range(waiting')
    <3>1. ASSUME NEW k \in DOMAIN sending', sending'[k].at # "saving", sending'[k].item \in Drafts
          PROVE  sending'[k].item \notin Range(waiting')
      <4>1. k # 1 /\ sending[k].at = "new" /\ sending'[k].item = sending[k].item /\ k \in DOMAIN sending
        BY <2>5, <3>1
      <4>2. sending[k].item \notin Range(waiting)
        BY <3>1, <4>1 DEF TurnInv, SendInv
      <4>3. sending[k].item # i
        BY <1>1, <3>1, <4>1, ItemKinds DEF TurnInv, SendInv
      <4> QED
        BY <1>10, <4>1, <4>2, <4>3
    <3> QED
      BY <3>1
  <2>7. \A k \in DOMAIN sending' : sending'[k].at = "checked" /\ sending'[k].item \in Messages =>
          sending'[k].item \notin Range(entries') \cup Range(waiting')
    <3>1. ASSUME NEW k \in DOMAIN sending', sending'[k].at = "checked"
          PROVE  FALSE
      <4>1. sending'[k].at # "saving"
        BY <3>1
      <4>2. k # 1 /\ sending[k].at = "new" /\ k \in DOMAIN sending
        BY <2>5, <4>1
      <4>3. sending'[k] = sending[k]
        BY <1>1, <4>2
      <4> QED
        BY <3>1, <4>2, <4>3
    <3> QED
      BY <3>1
  <2> QED
    BY <2>2, <2>3, <2>6, <2>7 DEF SendInv
<1>15. MessageInv'
  <2> SUFFICES ASSUME NEW m \in Messages
               PROVE  /\ Once(entries', m)
                      /\ m \in Range(entries') => m \notin Range(waiting')
                      /\ started'[m] <= 1
                      /\ started'[m] = 1 => /\ m \in Range(entries') /\ m \in saved'
                                            /\ ~Pending("send", m)' /\ run'[m].at # "handoff"
                      /\ Pending("send", m)' \/ run'[m].at = "handoff" => m \in Range(entries')
                      /\ Pending("send", m)' => run'[m].at = "none"
    BY DEF MessageInv
  <2>1. /\ Once(entries, m)
        /\ m \in Range(entries) => m \notin Range(waiting)
        /\ started[m] <= 1
        /\ started[m] = 1 => /\ m \in Range(entries) /\ m \in saved
                             /\ ~Pending("send", m) /\ run[m].at # "handoff"
        /\ Pending("send", m) \/ run[m].at = "handoff" => m \in Range(entries)
        /\ Pending("send", m) => run[m].at = "none"
    BY DEF TurnInv, MessageInv
  <2>2. m \in Range(waiting') => m \in Range(waiting)
    BY <1>2, <1>10
  <2>3. CASE m = i
    <3>1. f = "send"
      BY <1>2, <2>3
    <3>2. m \notin Range(entries) /\ m \notin Range(waiting)
      BY <1>1, <2>3 DEF TurnInv, SendInv
    <3>3. run[m].at = "none"
      BY <1>2, <2>3, <3>1 DEF TurnInv, RunInv, Away
    <3>4. Once(entries', m) /\ m \in Range(entries')
      BY <1>9, <2>1, <2>3, <3>1, <3>2
    <3> QED
      BY <2>1, <2>2, <3>2, <3>3, <3>4
  <2>4. CASE m # i
    <3>1. Once(entries', m) /\ (m \in Range(entries') <=> m \in Range(entries))
      BY <1>9, <2>1, <2>4
    <3>2. Pending("send", m)' => Pending("send", m)
      BY <1>7, <2>4
    <3> QED
      BY <2>1, <2>2, <3>1, <3>2
  <2> QED
    BY <2>3, <2>4
<1>16. \A k : Pending("notice", k)' => Pending("notice", k)
  BY <1>7, <1>8
<1>17. \A k \in Hearers : k \in Range(waiting') => k \in Range(waiting)
  BY <1>2, <1>10
<1>18. PlaceInv'
  BY <1>1, <1>16, <1>17 DEF TurnInv, PlaceInv, Away
<1>19. ToldInv'
  BY <1>1, <1>16, <1>17 DEF TurnInv, ToldInv, Due
<1>20. AskedInv'
  <2>1. i \in Sent
    BY <1>1, SendTypes DEF TurnInv
  <2>2. \A k \in Items : Seen(k)' => Seen(k)
    BY <1>1, <1>10, <1>16, <2>1 DEF Seen, Away
  <2> QED
    BY <2>2, AskedKeeps DEF TurnInv
<1> QED
  BY <1>10, <1>11, <1>12, <1>13, <1>14, <1>15, <1>18, <1>19, <1>20, SameJob DEF TurnInv

(* processSend queues the message, or reserves the turn and saves it.      *)
LEMMA SendMessageKeeps ==
    ASSUME TurnInv, NEW k, SendMessage(k)
    PROVE  TurnInv'
<1>1. PICK m : m = sending[1].item
  OBVIOUS
<1>2. /\ sending # <<>> /\ sending[1].at = "checked" /\ m \in Messages
      /\ \/ sending' = RemoveAt(sending, 1) /\ UNCHANGED <<entries, waiting, saves, busy>>
         \/ /\ Open /\ busy /\ ~Full /\ waiting' = Append(waiting, m) /\ sending' = RemoveAt(sending, 1)
            /\ UNCHANGED <<entries, saves, busy>>
         \/ /\ Open /\ ~busy /\ busy' = TRUE /\ entries' = Append(entries, m)
            /\ sending' = [sending EXCEPT ![1].at = "saving"]
            /\ saves' = Append(saves, [for |-> "send", item |-> m])
            /\ UNCHANGED waiting
      /\ UNCHANGED <<saved, run, chain, started, ends, job, draft, people, words>>
  BY <1>1 DEF SendMessage, InTurn, Answered, Saving, At
<1>3. CASE sending' = RemoveAt(sending, 1) /\ UNCHANGED <<entries, waiting, saves, busy>>
  <2>1. UNCHANGED <<transcript, turns>> /\ sending[1].at # "saving"
    BY <1>2, <1>3 DEF transcript, turns
  <2> QED
    BY <1>2, <1>3, <2>1, AnsweredKeeps
<1>4. UNCHANGED <<saved, run, chain, started, closed, fatal, load, live, output, stop, draft,
                  asked, spent, cancelled, told, folded>>
  BY <1>2 DEF ends, job, people, words
<1>5. m \in Items /\ m \notin Hearers /\ m \notin Drafts
  BY <1>2, ItemKinds
<1>6. CASE /\ Open /\ busy /\ ~Full /\ waiting' = Append(waiting, m) /\ sending' = RemoveAt(sending, 1)
           /\ UNCHANGED <<entries, saves, busy>>
  <2>1. m \notin Range(entries) /\ m \notin Range(waiting)
    <3>1. 1 \in DOMAIN sending
      BY <1>2, SendTypes DEF TurnInv
    <3> QED
      BY <1>1, <1>2, <3>1 DEF TurnInv, SendInv
  <2>2. WaitInv' /\ waiting' \in Seq(Items) /\ Range(waiting') = Range(waiting) \cup {m}
    BY <1>5, <1>6, <2>1, LongerWait
  <2>3. /\ sending' \in Seq([item: Messages \cup Invokes \cup Drafts, at: {"new", "checked", "saving"}])
        /\ Len(sending') <= MaxPending /\ Sent' \subseteq Sent
    BY <1>2, <1>6, AnsweredRequest DEF TurnInv
  <2>4. ChatTypeOK'
    BY <1>4, <1>6, <2>2, <2>3 DEF TurnInv, ChatTypeOK
  <2>5. SavesInv'
    BY <1>2, <1>4, <1>6, NoRequest DEF TurnInv, SavesInv, Away, Open
  <2>6. SendInv'
    BY <1>2, <1>5, <1>6, <2>2, AnsweredSend DEF TurnInv
  <2>7. MessageInv'
    BY <1>4, <1>6, <2>1, <2>2 DEF TurnInv, MessageInv, Pending
  <2>8. \A h : h # m => (h \in Range(waiting') <=> h \in Range(waiting))
    BY <2>2
  <2>9. PlaceInv'
    BY <1>4, <1>5, <1>6, <2>3, <2>8 DEF TurnInv, PlaceInv, Away, Pending
  <2>10. ToldInv'
    BY <1>4, <1>5, <1>6, <2>3, <2>8 DEF TurnInv, ToldInv, Due, Pending
  <2>11. AskedInv'
    BY <1>2, <1>4, <1>6, <2>3, <2>8 DEF TurnInv, AskedInv, Seen, Away, Pending
  <2> QED
    BY <1>4, <1>6, <2>2, <2>4, <2>5, <2>6, <2>7, <2>9, <2>10, <2>11, SameRun, SameJob DEF TurnInv
<1>7. CASE /\ Open /\ ~busy /\ busy' = TRUE /\ entries' = Append(entries, m)
           /\ sending' = [sending EXCEPT ![1].at = "saving"]
           /\ saves' = Append(saves, [for |-> "send", item |-> m])
           /\ UNCHANGED waiting
  <2>1. "send" \in Requests
    BY DEF Requests
  <2>2. draft' \in [id: Drafts \cup {NoItem}, at: {"none", "queued", "running"}]
    BY <1>4 DEF TurnInv, ChatTypeOK
  <2> QED
    BY <1>1, <1>2, <1>4, <1>7, <2>1, <2>2, SavingKeeps
<1> QED
  BY <1>2, <1>3, <1>6, <1>7

(* invoke saves the message of an invocation, or its notice.               *)
LEMMA SendInvokeKeeps ==
    ASSUME TurnInv, NEW k, SendInvoke(k)
    PROVE  TurnInv'
<1>1. PICK i : i = sending[1].item
  OBVIOUS
<1>2. /\ sending # <<>> /\ sending[1].at = "checked" /\ i \in Invokes
      /\ \/ sending' = RemoveAt(sending, 1) /\ UNCHANGED <<entries, saves>>
         \/ /\ ~InvokeRefused /\ sending' = [sending EXCEPT ![1].at = "saving"]
            /\ \/ saves' = Append(saves, [for |-> "followup", item |-> i]) /\ UNCHANGED entries
               \/ saves' = Append(saves, [for |-> "invoke", item |-> i]) /\ entries' = Append(entries, i)
      /\ UNCHANGED <<saved, waiting, turns, ends, job, draft, people, words>>
  BY <1>1 DEF SendInvoke, InTurn, Answered, Saving, At
<1>3. CASE sending' = RemoveAt(sending, 1) /\ UNCHANGED <<entries, saves>>
  <2>1. UNCHANGED transcript /\ sending[1].at # "saving"
    BY <1>2, <1>3 DEF transcript
  <2> QED
    BY <1>2, <1>3, <2>1, AnsweredKeeps
<1>4. UNCHANGED <<saved, waiting, busy, run, chain, started, closed, fatal, load, live, output, stop, draft,
                  asked, spent, cancelled, told, folded>>
  BY <1>2 DEF turns, ends, job, people, words
<1>5. draft' \in [id: Drafts \cup {NoItem}, at: {"none", "queued", "running"}]
  BY <1>4 DEF TurnInv, ChatTypeOK
<1>6. CASE /\ ~InvokeRefused /\ sending' = [sending EXCEPT ![1].at = "saving"]
           /\ saves' = Append(saves, [for |-> "followup", item |-> i]) /\ UNCHANGED entries
  <2>1. "followup" \in Requests
    BY DEF Requests
  <2> QED
    BY <1>1, <1>2, <1>4, <1>5, <1>6, <2>1, SavingKeeps
<1>7. CASE /\ ~InvokeRefused /\ sending' = [sending EXCEPT ![1].at = "saving"]
           /\ saves' = Append(saves, [for |-> "invoke", item |-> i]) /\ entries' = Append(entries, i)
  <2>1. "invoke" \in Requests /\ ~(busy /\ Full)
    BY <1>7 DEF Requests, InvokeRefused
  <2> QED
    BY <1>1, <1>2, <1>4, <1>5, <1>7, <2>1, SavingKeeps
<1> QED
  BY <1>2, <1>3, <1>6, <1>7

(* postDraft queues a draft while its notice is saved.                     *)
LEMMA SendDraftKeeps ==
    ASSUME TurnInv, NEW k, SendDraft(k)
    PROVE  TurnInv'
<1>1. PICK d : d = sending[1].item
  OBVIOUS
<1>2. /\ sending # <<>> /\ sending[1].at = "checked" /\ d \in Drafts
      /\ draft' = IF LiveDraft THEN draft
                  ELSE IF Full THEN NoDraft ELSE [id |-> d, at |-> "queued"]
      /\ \/ sending' = RemoveAt(sending, 1) /\ UNCHANGED <<waiting, saves>>
         \/ /\ ~Full /\ waiting' = Append(waiting, d) /\ sending' = [sending EXCEPT ![1].at = "saving"]
            /\ saves' = Append(saves, [for |-> "draft", item |-> d])
      /\ UNCHANGED <<transcript, turns, ends, job, people, words>>
  BY <1>1 DEF SendDraft, InTurn, Answered, Saving, At
<1>3. UNCHANGED <<entries, saved, busy, run, chain, started, closed, fatal, load, live, output, stop,
                  asked, spent, cancelled, told, folded>>
  BY <1>2 DEF transcript, turns, ends, job, people, words
<1>4. draft' \in [id: Drafts \cup {NoItem}, at: {"none", "queued", "running"}]
  <2>1. draft \in [id: Drafts \cup {NoItem}, at: {"none", "queued", "running"}]
    BY DEF TurnInv, ChatTypeOK
  <2> QED
    BY <1>2, <2>1 DEF NoDraft
<1>5. d \in Items /\ d \notin Jobs
  BY <1>2, ItemKinds
<1>6. CASE sending' = RemoveAt(sending, 1) /\ UNCHANGED <<waiting, saves>>
  <2>1. \A x \in Range(saves) : x.for \notin Requests
    BY <1>2, NoRequest DEF TurnInv
  <2>2. Goes(saves')
    BY <1>2, <1>3, <1>6, <2>1 DEF Goes, TurnInv, ChatTypeOK, SavesInv
  <2>3. /\ Grows(told, told, {}) /\ folded \subseteq Notes /\ d \notin cancelled
    BY <1>5, GrowsNot DEF TurnInv, ChatTypeOK
  <2> QED
    BY <1>3, <1>4, <1>5, <1>6, <2>2, <2>3, WaitLeft, GoesKeeps
<1>7. CASE /\ ~Full /\ waiting' = Append(waiting, d) /\ sending' = [sending EXCEPT ![1].at = "saving"]
           /\ saves' = Append(saves, [for |-> "draft", item |-> d])
  <2>1. "draft" \in Requests
    BY DEF Requests
  <2> QED
    BY <1>1, <1>2, <1>3, <1>4, <1>7, <2>1, SavingKeeps
<1> QED
  BY <1>2, <1>6, <1>7

-----------------------------------------------------------------------------
(* Turns that end.                                                         *)

\* Of those who hear, at most i has heard from told to t, and a cancelled job has.
Settled(i, t) ==
    /\ t \in [Items -> Seq(Outs)]
    /\ \A k \in Items : k # i => t[k] = told[k]
    /\ \/ t[i] = told[i]
       \/ /\ told[i] = <<>> /\ Len(t[i]) = 1 /\ t[i] # <<>> /\ i \in Hearers /\ i \notin chain
          /\ i \in cancelled => t[i] # <<"done">>
    /\ i \in cancelled => t[i] # <<>>

\* Where turns are after the one of i: nowhere, still with i, or handed over to n.
Rests(i, n, s) ==
    \/ (\A k \in Items : Away(k)') /\ saves' = s /\ UNCHANGED entries
    \/ /\ run'[i].at = "reporting" /\ (\A k \in Items : k # i => Away(k)')
       /\ saves' = s /\ UNCHANGED <<entries, busy>>
    \/ /\ Open /\ n \in Range(waiting) /\ n \notin Range(waiting')
       /\ run'[n].at = "handoff" /\ (\A k \in Items : k # n => Away(k)')
       /\ saves' = Append(s, [for |-> "handoff", item |-> n])
       /\ entries' = IF n \in Messages THEN Append(entries, n) ELSE entries
       /\ UNCHANGED busy

(* Those who hear with the end of a turn are told once, and nobody forgets *)
(* a cancellation.                                                         *)
LEMMA EndTold ==
    ASSUME TurnInv, NEW i \in Items, ~Away(i), NEW s, Goes(s), NEW t, Settled(i, t),
           NEW I, Grows(t, told', I), I \cap Items \subseteq Hearers,
           I \cap Items \subseteq chain \cup Range(waiting),
           UNCHANGED <<asked, cancelled>>, live' = NoItem, chain' \subseteq chain, chain' \cap I = {},
           Range(waiting') \subseteq Range(waiting), Range(waiting') \cap I = {},
           NEW n, n \notin I,
           \A k \in Items : ~Away(k)' =>
                \/ k = i /\ run'[k].at = "reporting"
                \/ k = n /\ n \in Range(waiting) /\ n \notin Range(waiting'),
           \A k : Pending("notice", k)' => Pending("notice", k)
    PROVE  PlaceInv' /\ ToldInv' /\ AskedInv' /\ JobInv'
<1>1. Sent' \subseteq Sent /\ load'.asks = load.asks
  BY GoesFacts DEF Goes
<1>2. /\ chain \subseteq Invokes /\ cancelled \subseteq Jobs
      /\ \A j, k \in Items : ~Away(j) /\ ~Away(k) => j = k
  BY DEF TurnInv, ChatTypeOK, RunInv
<1>3. \A k \in Hearers : /\ k \in Items
                         /\ k \in Range(waiting) => Away(k) /\ k \notin Sent /\ k \notin chain /\ ~Pending("notice", k)
                         /\ k \in Sent => Away(k) /\ k \notin chain
                         /\ Pending("notice", k) => Away(k)
  BY ItemKinds DEF TurnInv, PlaceInv
<1>4. \A k \in Invokes : ~Pending("notice", k)
  <2>1. ASSUME NEW k \in Invokes, Pending("notice", k)
        PROVE  FALSE
    <3>1. [for |-> "notice", item |-> k] \in Range(saves)
      BY <2>1 DEF Pending
    <3>2. \A x \in Range(saves) : x.for = "notice" => x.item \in Notes
      BY DEF TurnInv, SavesInv
    <3> QED
      BY <2>1, <3>1, <3>2, ItemKinds
  <2> QED
    BY <2>1
<1>5. PlaceInv'
  BY <1>1, <1>2, <1>3 DEF PlaceInv
<1>6. \A k \in Items : k \in I => k # i \/ (i \in chain /\ t[i] = told[i])
  BY <1>3 DEF Settled
<1>7. \A k \in Items : k \in I => t[k] = told[k]
  BY <1>6 DEF Settled
<1>8. \A k \in Items :
        \/ told'[k] = told[k]
        \/ /\ k \in I /\ k \in Hearers /\ told[k] = <<>> /\ Len(told'[k]) = 1 /\ told'[k] # <<>>
           /\ k \in Jobs => told'[k] # <<"done">>
        \/ /\ k = i /\ i \in Hearers /\ i \notin chain /\ told[k] = <<>> /\ Len(told'[k]) = 1 /\ told'[k] # <<>>
           /\ k \in cancelled => told'[k] # <<"done">>
  <2> SUFFICES ASSUME NEW k \in Items
               PROVE  \/ told'[k] = told[k]
                      \/ /\ k \in I /\ k \in Hearers /\ told[k] = <<>> /\ Len(told'[k]) = 1 /\ told'[k] # <<>>
                         /\ k \in Jobs => told'[k] # <<"done">>
                      \/ /\ k = i /\ i \in Hearers /\ i \notin chain /\ told[k] = <<>>
                         /\ Len(told'[k]) = 1 /\ told'[k] # <<>>
                         /\ k \in cancelled => told'[k] # <<"done">>
    OBVIOUS
  <2>1. CASE k \in I
    <3>1. t[k] = told[k] /\ k \in Hearers
      BY <1>7, <2>1
    <3> QED
      BY <3>1 DEF Grows
  <2>2. CASE k \notin I
    <3>1. told'[k] = t[k]
      BY <2>2 DEF Grows
    <3> QED
      BY <3>1 DEF Settled
  <2> QED
    BY <2>1, <2>2
<1>9. ASSUME NEW k \in Hearers, Due(k)'
      PROVE  Due(k) /\ k \notin I /\ (k = i => i \in chain)
  <2>1. k \in Items
    BY <1>3
  <2>2. run'[k].at \notin {"handoff", "working", "saving"} \/ (k = n /\ k \in Range(waiting) /\ k # i)
    BY <1>3, <2>1 DEF Away
  <2>3. CASE k \in Range(waiting')
    BY <1>3, <2>3 DEF Due
  <2>4. CASE k \in Sent'
    BY <1>1, <1>3, <2>1, <2>4 DEF Due
  <2>5. CASE k \in chain'
    BY <2>5 DEF Due
  <2>6. CASE Pending("notice", k)'
    BY <1>2, <1>3, <1>4, <2>1, <2>6 DEF Due
  <2>7. CASE k = n /\ k \in Range(waiting) /\ k # i
    BY <2>7 DEF Due
  <2> QED
    BY <1>9, <2>2, <2>3, <2>4, <2>5, <2>6, <2>7 DEF Due
<1>10. ToldInv'
  <2> SUFFICES ASSUME NEW k \in Items
               PROVE  /\ Len(told'[k]) <= 1
                      /\ k \in Hearers /\ Due(k)' => told'[k] = <<>>
                      /\ k \notin Hearers => told'[k] = <<>>
    BY DEF ToldInv
  <2>1. /\ Len(told[k]) <= 1
        /\ k \in Hearers /\ Due(k) => told[k] = <<>>
        /\ k \notin Hearers => told[k] = <<>>
    BY DEF TurnInv, ToldInv
  <2>2. Len(told'[k]) <= 1
    <3>1. told'[k] = told[k] \/ Len(told'[k]) = 1
      BY <1>8
    <3>2. Len(told'[k]) = 1 => Len(told'[k]) <= 1
      OBVIOUS
    <3> QED
      BY <2>1, <3>1, <3>2, Zenon
  <2>3. k \in Hearers /\ Due(k)' => told'[k] = <<>>
    <3>1. ASSUME k \in Hearers, Due(k)'
          PROVE  told'[k] = <<>>
      <4>1. told[k] = <<>> /\ k \notin I /\ (k = i => i \in chain)
        BY <1>9, <2>1, <3>1
      <4>2. told'[k] = told[k]
        BY <1>8, <4>1
      <4> QED
        BY <4>1, <4>2
    <3> QED
      BY <3>1
  <2>4. k \notin Hearers => told'[k] = <<>>
    BY <1>8, <2>1
  <2> QED
    BY <2>2, <2>3, <2>4
<1>11. AskedInv'
  <2>1. ASSUME NEW k \in Items, Seen(k)'
        PROVE  Seen(k)
    <3>1. told'[k] # <<>> => told[k] # <<>> \/ k \in chain \/ k \in Range(waiting) \/ ~Away(k)
      BY <1>8
    <3>2. ~Away(k)' => ~Away(k) \/ k \in Range(waiting)
      OBVIOUS
    <3> QED
      BY <1>1, <2>1, <3>1, <3>2 DEF Seen
  <2> QED
    BY <1>1, <2>1, AskedKeeps DEF TurnInv
<1>12. JobInv'
  <2>1. ASSUME NEW j \in cancelled
        PROVE  asked'[j] # 0 /\ told'[j] # <<"done">> /\ told'[j] # <<>>
    <3>1. j \in Items /\ j \in Jobs /\ j \notin chain
      BY <1>2, ItemKinds
    <3>2. asked[j] # 0 /\ told[j] # <<"done">> /\ (told[j] = <<>> => run[j].at \in {"working", "saving"})
      BY DEF TurnInv, JobInv
    <3>3. told'[j] # <<"done">>
      BY <1>8, <3>1, <3>2
    <3>4. told'[j] # <<>>
      <4>1. CASE told[j] # <<>>
        BY <1>8, <3>1, <4>1
      <4>2. CASE told[j] = <<>>
        <5>1. j = i
          BY <1>2, <3>1, <3>2, <4>2 DEF Away
        <5>2. j \notin I
          BY <1>3, <3>1, <5>1
        <5>3. told'[j] = t[j] /\ t[j] # <<>>
          BY <3>1, <5>1, <5>2 DEF Grows, Settled
        <5> QED
          BY <5>3
      <4> QED
        BY <4>1, <4>2
    <3> QED
      BY <3>2, <3>3, <3>4
  <2> QED
    BY <2>1 DEF JobInv
<1> QED
  BY <1>5, <1>10, <1>11, <1>12

(* The turn of i is over, or only to be reported.                          *)
LEMMA EndKeeps ==
    ASSUME TurnInv, NEW i \in Items, ~Away(i), NEW s, Goes(s), \A x \in Range(s) : x.for \notin {"end", "handoff"},
           NEW t, Settled(i, t), NEW I, Grows(t, told', I), I \cap Items \subseteq Hearers,
           I \cap Items \subseteq chain \cup Range(waiting),
           UNCHANGED <<started, asked, spent, cancelled, folded>>,
           live' = NoItem, output' = FALSE, stop' \in {"none", "stopped", "interrupted"},
           draft' \in [id: Drafts \cup {NoItem}, at: {"none", "queued", "running"}],
           closed' \in {"open", "stopped", "closing", "closed"}, Open' => Open, busy' \in BOOLEAN,
           chain' \subseteq chain, chain' \cap I = {},
           waiting' \in Seq(Items), NoDup(waiting'), Range(waiting') \subseteq Range(waiting),
           Range(waiting') \cap I = {},
           (UNCHANGED <<waiting, busy>> /\ saves' = s) \/ Len(waiting') < Len(waiting) \/ waiting' = <<>>,
           run' \in [Items -> [at: {"none", "handoff", "working", "saving", "reporting"},
                               out: Outs \cup {"none"}, err: BOOLEAN]],
           NEW n \in Items \cup {NoItem}, n \notin I, Rests(i, n, s)
    PROVE  TurnInv'
<1>1. /\ sending' \in Seq([item: Messages \cup Invokes \cup Drafts, at: {"new", "checked", "saving"}])
      /\ Len(sending') <= MaxPending /\ Sent' \subseteq Sent
      /\ saved' \subseteq Messages \cup Invokes
      /\ \A m \in Messages : started[m] = 1 => m \in saved'
      /\ \A x \in Range(s) : x.for \in Requests =>
           sending' # <<>> /\ sending'[1] = [item |-> x.item, at |-> "saving"]
      /\ \A x \in Range(s) : /\ x \in [for: Fors, item: Items] /\ x.for \in Fors /\ x.item \in Items
                             /\ x = [for |-> x.for, item |-> x.item]
  BY GoesFacts
<1>2. /\ s \in Seq([for: Fors, item: Items]) /\ NoDup(s) /\ Range(s) \subseteq Range(saves)
      /\ load' \in [asks: [Items -> Nat], faults: Nat] /\ load'.asks = load.asks
      /\ fatal' \in BOOLEAN
  BY DEF Goes
<1>3. /\ \A k \in Items : ~Away(k)' =>
            \/ k = i /\ run'[k].at = "reporting"
            \/ k = n /\ n \in Range(waiting) /\ n \notin Range(waiting') /\ run'[n].at = "handoff" /\ Open
      /\ \/ saves' = s
         \/ /\ saves' = Append(s, [for |-> "handoff", item |-> n]) /\ run'[n].at = "handoff"
            /\ n \in Range(waiting)
  BY DEF Rests, Away
<1> DEFINE x == [for |-> "handoff", item |-> n]
<1>4. x.for = "handoff" /\ x.item = n /\ x.for \notin Requests
  BY DEF Requests
<1>5. n \in Items => x \in [for: Fors, item: Items]
  BY DEF Fors
<1>6. saves' = s \/ (saves' = Append(s, x) /\ run'[n].at = "handoff" /\ n \in Items)
  BY <1>3, WaitTypes
<1>7. \A g, k : [for |-> g, item |-> k] = x => g = "handoff"
  <2>1. ASSUME NEW g, NEW k, [for |-> g, item |-> k] = x
        PROVE  g = "handoff"
    <3>1. [for |-> g, item |-> k].for = g
      OBVIOUS
    <3> QED
      BY <1>4, <2>1, <3>1
  <2> QED
    BY <2>1
<1> HIDE DEF x
<1>8. /\ saves' \in Seq([for: Fors, item: Items]) /\ NoDup(saves')
      /\ \A y \in Range(saves') : y \in Range(s) \/ (y = x /\ run'[n].at = "handoff")
  <2>1. CASE saves' = s
    BY <1>2, <2>1
  <2>2. CASE saves' = Append(s, x) /\ run'[n].at = "handoff" /\ n \in Items
    <3>1. x \notin Range(s)
      BY <1>4
    <3>2. /\ Append(s, x) \in Seq([for: Fors, item: Items])
          /\ Range(Append(s, x)) = Range(s) \cup {x} /\ NoDup(Append(s, x))
      BY <1>2, <1>5, <2>2, <3>1, AppendSave
    <3> QED
      BY <2>2, <3>2
  <2> QED
    BY <1>6, <2>1, <2>2
<1>9. \A g, k : Pending(g, k)' /\ g # "handoff" => Pending(g, k)
  BY <1>2, <1>7, <1>8 DEF Pending
<1>10. \A y \in Range(s) : y.for = "send" => ~Open
  BY <1>2 DEF TurnInv, SavesInv
<1>11. Open => busy
  BY DEF TurnInv, RunInv
<1>12. /\ entries \in Seq(Messages \cup Invokes)
       /\ n \in Messages /\ n \in Range(waiting) => n \notin Range(entries)
       /\ \A y \in Messages : Once(entries, y)
  BY WaitTypes DEF TurnInv, MessageInv
<1>13. /\ entries' \in Seq(Messages \cup Invokes) /\ Range(entries) \subseteq Range(entries')
       /\ \A y \in Range(entries') : y \in Range(entries) \/ (y = n /\ n \in Range(waiting) /\ n \notin Range(waiting'))
       /\ \A y \in Messages : Once(entries', y)
       /\ n \in Messages /\ run'[n].at = "handoff" => n \in Range(entries')
  <2>1. CASE UNCHANGED entries /\ (n \in Messages => run'[n].at # "handoff")
    <3>1. \A y \in Messages : Once(entries', y)
      BY <1>12, <2>1, Zenon
    <3> QED
      BY <1>12, <2>1, <3>1
  <2>2. CASE UNCHANGED entries /\ n \notin Messages
    <3>1. \A y \in Messages : Once(entries', y)
      BY <1>12, <2>2, Zenon
    <3> QED
      BY <1>12, <2>2, <3>1
  <2>3. CASE entries' = Append(entries, n) /\ n \in Messages /\ n \in Range(waiting) /\ n \notin Range(waiting')
    <3>1. /\ Append(entries, n) \in Seq(Messages \cup Invokes)
          /\ Range(Append(entries, n)) = Range(entries) \cup {n}
          /\ \A y : Once(entries, y) /\ (y = n => n \notin Range(entries)) => Once(Append(entries, n), y)
      BY <1>12, <2>3, AppendEntry
    <3>2. \A y \in Messages : Once(entries', y)
      BY <1>12, <2>3, <3>1
    <3> QED
      BY <2>3, <3>1, <3>2
  <2>4. \/ (\A k \in Items : run'[k].at # "handoff") /\ UNCHANGED entries
        \/ UNCHANGED entries /\ n \notin Messages
        \/ entries' = Append(entries, n) /\ n \in Messages /\ n \in Range(waiting) /\ n \notin Range(waiting')
    BY DEF Rests, Away
  <2>5. n \in Messages => n \in Items
    BY ItemKinds
  <2> QED
    BY <2>1, <2>2, <2>3, <2>4, <2>5
<1>14. ChatTypeOK'
  <2>1. chain' \subseteq Invokes
    BY DEF TurnInv, ChatTypeOK
  <2>2. told' \in [Items -> Seq(Outs)]
    BY DEF Grows
  <2> QED
    BY <1>1, <1>2, <1>8, <1>13, <2>1, <2>2 DEF TurnInv, ChatTypeOK
<1>15. SavesInv'
  <2>1. ASSUME NEW y \in Range(saves')
        PROVE  /\ y.for = "end" => run'[y.item].at = "saving"
               /\ y.for = "handoff" => run'[y.item].at = "handoff"
               /\ y.for = "notice" => y.item \in Notes
               /\ y.for = "send" => y.item \in Messages
               /\ y.for \in {"invoke", "followup"} => y.item \in Invokes
               /\ y.for = "draft" => y.item \in Drafts
               /\ y.for \in Requests => sending' # <<>> /\ sending'[1] = [item |-> y.item, at |-> "saving"]
               /\ y.for = "send" /\ Open' => busy' /\ \A h \in Items : Away(h)'
    <3>1. CASE y = x /\ run'[n].at = "handoff"
      BY <1>4, <3>1
    <3>2. CASE y \in Range(s)
      <4>1. y \in Range(saves)
        BY <1>2, <3>2
      <4>2. y.for \notin {"end", "handoff"} /\ ~(y.for = "send" /\ Open')
        BY <1>10, <3>2
      <4>3. y.for \in Requests => sending' # <<>> /\ sending'[1] = [item |-> y.item, at |-> "saving"]
        BY <1>1, <3>2
      <4> QED
        BY <4>1, <4>2, <4>3 DEF TurnInv, SavesInv
    <3> QED
      BY <1>8, <3>1, <3>2
  <2>2. \A y, z \in Range(saves') : y.for \in Requests /\ z.for \in Requests => y = z
    <3>1. \A y \in Range(saves') : y.for \in Requests => y \in Range(saves)
      BY <1>2, <1>4, <1>8
    <3> QED
      BY <3>1 DEF TurnInv, SavesInv
  <2> QED
    BY <1>8, <2>1, <2>2 DEF SavesInv
<1>16. RunInv'
  <2>1. \A j, k \in Items : ~Away(j)' /\ ~Away(k)' => j = k
    BY DEF Rests
  <2>2. \A k \in Items : ~Away(k)' /\ Open' => busy'
    <3>1. (\A k \in Items : Away(k)') \/ busy' = busy
      BY DEF Rests
    <3>2. Open' => busy
      BY <1>11
    <3>3. ASSUME busy' = busy, Open'
          PROVE  busy'
      <4>1. busy
        BY <3>2, <3>3
      <4> QED
        BY ONLY <3>3, <4>1
    <3> QED
      BY <3>1, <3>3
  <2>3. \A k \in Items : run'[k].at # "saving"
    BY <1>3 DEF Away
  <2> QED
    BY <2>1, <2>2, <2>3 DEF RunInv
<1>17. SendInv'
  <2>1. \A y : y \in Range(waiting') \cup Range(entries') => y \in Range(waiting) \cup Range(entries)
    BY <1>13
  <2>2. \A y : y \in Range(waiting') => y \in Range(waiting)
    OBVIOUS
  <2> QED
    BY <2>1, <2>2, GoesSend
<1>18. MessageInv'
  <2> SUFFICES ASSUME NEW m \in Messages
               PROVE  /\ Once(entries', m)
                      /\ m \in Range(entries') => m \notin Range(waiting')
                      /\ started'[m] <= 1
                      /\ started'[m] = 1 => /\ m \in Range(entries') /\ m \in saved'
                                            /\ ~Pending("send", m)' /\ run'[m].at # "handoff"
                      /\ Pending("send", m)' \/ run'[m].at = "handoff" => m \in Range(entries')
                      /\ Pending("send", m)' => run'[m].at = "none"
    BY DEF MessageInv
  <2>1. /\ m \in Range(entries) => m \notin Range(waiting)
        /\ started[m] <= 1
        /\ started[m] = 1 => /\ m \in Range(entries) /\ m \in saved
                             /\ ~Pending("send", m) /\ run[m].at # "handoff"
        /\ Pending("send", m) \/ run[m].at = "handoff" => m \in Range(entries)
        /\ Pending("send", m) => run[m].at = "none"
    BY DEF TurnInv, MessageInv
  <2>2. m \in Items
    BY ItemKinds
  <2>3. Pending("send", m)' => Pending("send", m)
    BY <1>9
  <2>4. /\ Once(entries', m) /\ (m \in Range(entries') => m \notin Range(waiting'))
        /\ m \in Range(entries) => m \in Range(entries')
    BY <1>13, <2>1
  <2>5. run'[m].at = "handoff" => m \in Range(entries') /\ m \in Range(waiting)
    BY <1>3, <1>13, <2>2 DEF Away
  <2>6. Pending("send", m)' => run'[m].at = "none"
    BY <1>3, <2>1, <2>2, <2>3 DEF Away
  <2> QED
    BY <1>1, <2>1, <2>3, <2>4, <2>5, <2>6
<1>19. WaitInv'
  <2>1. CASE UNCHANGED <<waiting, busy>> /\ saves' = s
    BY <2>1, WaitLeft
  <2>2. CASE Len(waiting') < Len(waiting)
    BY <2>2, ShorterWait
  <2>3. CASE waiting' = <<>>
    <3>1. Len(waiting') = 0 /\ MaxQueue \in Nat
      BY <2>3, EmptyFacts, LoadAssumption
    <3>2. Len(waiting') <= MaxQueue + 1 /\ ~(Len(waiting') > MaxQueue)
      BY <3>1
    <3> QED
      BY <3>2 DEF WaitInv
  <2> QED
    BY <2>1, <2>2, <2>3
<1>20. PlaceInv' /\ ToldInv' /\ AskedInv' /\ JobInv'
  <2>1. \A k : Pending("notice", k)' => Pending("notice", k)
    BY <1>9
  <2>2. \A k \in Items : ~Away(k)' =>
            \/ k = i /\ run'[k].at = "reporting"
            \/ k = n /\ n \in Range(waiting) /\ n \notin Range(waiting')
    BY <1>3
  <2> QED
    BY <2>1, <2>2, EndTold
<1> QED
  BY <1>14, <1>15, <1>16, <1>17, <1>18, <1>19, <1>20 DEF TurnInv

(* Only the turn of i is under way.                                        *)
LEMMA OneActive ==
    ASSUME TurnInv, NEW i \in Items, ~Away(i)
    PROVE  /\ \A k \in Items : k # i => Away(k)
           /\ i \in Hearers => i \notin Range(waiting) /\ i \notin Sent /\ ~Pending("notice", i)
           /\ i \in Hearers /\ i \notin Jobs /\ run[i].at \in {"handoff", "working", "saving"} => told[i] = <<>>
           /\ live = NoItem \/ (live = i /\ run[i].at = "working")
           /\ output \in BOOLEAN /\ (output => live # NoItem)
<1>1. /\ \A k \in Items : k # i => Away(k)
      /\ output => live # NoItem
  BY DEF TurnInv, RunInv
<1>2. live = NoItem \/ (live = i /\ run[i].at = "working")
  <2>1. ASSUME live # NoItem
        PROVE  live = i /\ run[i].at = "working"
    <3>1. live \in Items /\ run[live].at = "working"
      BY <2>1, ItemKinds DEF TurnInv, RunInv
    <3> QED
      BY <1>1, <3>1 DEF Away
  <2> QED
    BY <2>1
<1>3. i \in Hearers => i \notin Range(waiting) /\ i \notin Sent /\ ~Pending("notice", i)
  BY DEF TurnInv, PlaceInv
<1>4. i \in Hearers /\ i \notin Jobs /\ run[i].at \in {"handoff", "working", "saving"} => told[i] = <<>>
  BY DEF TurnInv, ToldInv, Due
<1> QED
  BY <1>1, <1>2, <1>3, <1>4 DEF TurnInv, ChatTypeOK

(* Those settled with the whole run and those that wait have heard nothing *)
(* when the turn of i has ended.                                           *)
LEMMA OverGrows ==
    ASSUME TurnInv, NEW i \in Items, ~Away(i), NEW t, Settled(i, t),
           NEW W, NEW o \in {"skipped", "failed"}, W \cap Items \subseteq Hearers, W \cap Items \subseteq Range(waiting)
    PROVE  /\ Grows(t, Tell(t, W, o), W)
           /\ Grows(t, Tell(Tell(t, W, o), chain, "done"), W \cup chain)
           /\ Grows(t, Tell(t, chain, "done"), chain)
<1>1. o \in Outs /\ "done" \in Outs /\ o # "done" /\ t \in [Items -> Seq(Outs)]
  BY DEF Outs, Settled
<1>2. \A k \in W \cap Items : k # i /\ k \notin chain /\ told[k] = <<>> /\ t[k] = <<>>
  <2>1. ASSUME NEW k \in W \cap Items
        PROVE  k # i /\ k \notin chain /\ told[k] = <<>>
    BY OneActive DEF TurnInv, PlaceInv, ToldInv, Due
  <2> QED
    BY <2>1 DEF Settled
<1>3. chain \subseteq Invokes /\ chain \subseteq Items /\ \A k \in chain : k \notin Jobs /\ k \in Hearers
  BY ItemKinds DEF TurnInv, ChatTypeOK
<1>4. \A k \in chain : t[k] = <<>>
  <2>1. ASSUME NEW k \in chain
        PROVE  t[k] = told[k] /\ told[k] = <<>>
    <3>1. told[k] = <<>>
      BY <1>3 DEF TurnInv, ToldInv, Due
    <3>2. t[k] = told[k]
      BY <1>3 DEF Settled
    <3> QED
      BY <3>1, <3>2
  <2> QED
    BY <2>1
<1> DEFINE u == Tell(t, W, o)
<1>5. Grows(t, u, W)
  <2>1. \A k \in W \cap Items : k \notin Jobs => t[k] = <<>>
    BY <1>2
  <2>2. o = "done" => W \cap Jobs = {}
    BY <1>1
  <2> QED
    BY <1>1, <2>1, <2>2, TellGrows, Zenon
<1>6. "done" = "done" => chain \cap Jobs = {}
  BY <1>3
<1> HIDE DEF u
<1>7. Grows(u, Tell(u, chain, "done"), chain)
  <2>1. u \in [Items -> Seq(Outs)]
    BY <1>5 DEF Grows
  <2>2. \A k \in chain \cap Items : k \notin Jobs => u[k] = <<>>
    BY <1>2, <1>4, <1>5 DEF Grows
  <2> QED
    BY <1>1, <1>6, <2>1, <2>2, TellGrows, Zenon
<1>8. Grows(t, Tell(u, chain, "done"), W \cup chain)
  BY <1>5, <1>7, GrowsTwice, Zenon
<1>9. Grows(t, Tell(t, chain, "done"), chain)
  <2>1. \A k \in chain \cap Items : k \notin Jobs => t[k] = <<>>
    BY <1>4
  <2> QED
    BY <1>1, <1>6, <2>1, TellGrows, Zenon
<1> QED
  BY <1>5, <1>8, <1>9 DEF u

(* What Over leaves of the turns.                                          *)
LEMMA OverFacts ==
    ASSUME TurnInv, NEW i \in Items, ~Away(i), NEW t, Over(i, t)
    PROVE  /\ run' \in [Items -> [at: {"none", "handoff", "working", "saving", "reporting"},
                                  out: Outs \cup {"none"}, err: BOOLEAN]]
           /\ \A k \in Items : Away(k)'
           /\ told' = Tell(t, chain, "done") /\ chain' = {}
<1> DEFINE R == [at: {"none", "handoff", "working", "saving", "reporting"},
                 out: Outs \cup {"none"}, err: BOOLEAN]
<1>1. run \in [Items -> R]
  BY DEF TurnInv, ChatTypeOK
<1>2. Idle \in R /\ Idle.at = "none"
  BY DEF Idle
<1> HIDE DEF R
<1>3. run' = [run EXCEPT ![i] = Idle]
  BY DEF Over
<1>4. run' \in [Items -> R] /\ run'[i] = Idle /\ \A k \in Items : k # i => run'[k] = run[k]
  BY <1>1, <1>2, <1>3
<1>5. \A k \in Items : Away(k)'
  BY <1>2, <1>4, OneActive DEF Away
<1> QED
  BY <1>4, <1>5 DEF R, Over

(* pending: the queue is drained by a turn that ended.                     *)
LEMMA DrainKeeps ==
    ASSUME TurnInv, NEW i \in Items, ~Away(i), NEW s, Goes(s), \A x \in Range(s) : x.for \notin {"end", "handoff"},
           NEW t, Settled(i, t), Drain(i, t, s),
           UNCHANGED <<started, asked, spent, cancelled, folded, closed>>,
           live' = NoItem, output' = FALSE, stop' \in {"none", "stopped", "interrupted"},
           draft' \in [id: Drafts \cup {NoItem}, at: {"none", "queued", "running"}]
    PROVE  TurnInv'
<1>1. /\ waiting \in Seq(Items) /\ Len(waiting) \in Nat /\ NoDup(waiting) /\ Range(waiting) \subseteq Items
  BY WaitTypes
<1>2. /\ closed \in {"open", "stopped", "closing", "closed"} /\ busy \in BOOLEAN
      /\ chain \subseteq Invokes /\ spent \subseteq Notes
      /\ run \in [Items -> [at: {"none", "handoff", "working", "saving", "reporting"},
                            out: Outs \cup {"none"}, err: BOOLEAN]]
  BY DEF TurnInv, ChatTypeOK
<1>3. \A k \in Range(waiting) : k \in Hearers => k \notin chain
  BY DEF TurnInv, PlaceInv
<1>4. \A k \in chain : k \in Hearers /\ k \notin Range(waiting)
  BY <1>2, <1>3, ItemKinds
<1>5. Open' => Open
  BY DEF Open
<1>6. NoItem \notin Items /\ NoItem \notin Messages
  BY ItemAssumption, ItemKinds
<1>7. CASE ~Open /\ Over(i, t) /\ saves' = s /\ UNCHANGED <<entries, waiting, busy>>
  <2>1. /\ run' \in [Items -> [at: {"none", "handoff", "working", "saving", "reporting"},
                               out: Outs \cup {"none"}, err: BOOLEAN]]
        /\ \A k \in Items : Away(k)'
        /\ told' = Tell(t, chain, "done") /\ chain' = {}
    BY <1>7, OverFacts
  <2>2. Grows(t, Tell(t, chain, "done"), chain)
    BY OverGrows, {} \cap Items \subseteq Hearers /\ {} \cap Items \subseteq Range(waiting)
  <2>3. Grows(t, told', chain)
    BY <2>1, <2>2
  <2>4. Rests(i, NoItem, s)
    BY <1>7, <2>1 DEF Rests
  <2>5. NoItem \notin chain
    BY <1>2, <1>6, ItemKinds
  <2>6. chain \cap Items \subseteq Hearers /\ chain \cap Items \subseteq chain \cup Range(waiting)
    BY <1>4
  <2>7. Range(waiting') \cap chain = {} /\ NoDup(waiting') /\ waiting' \in Seq(Items)
    BY <1>1, <1>4, <1>7
  <2> QED
    BY <1>1, <1>2, <1>5, <1>7, <2>1, <2>3, <2>4, <2>5, <2>6, <2>7, EndKeeps
<1>8. CASE /\ Open /\ Range(waiting) \subseteq spent /\ Over(i, Tell(t, Range(waiting), "skipped"))
           /\ busy' = FALSE /\ waiting' = <<>> /\ saves' = s /\ UNCHANGED entries
  <2> DEFINE W == Range(waiting)
  <2>1. /\ run' \in [Items -> [at: {"none", "handoff", "working", "saving", "reporting"},
                               out: Outs \cup {"none"}, err: BOOLEAN]]
        /\ \A k \in Items : Away(k)'
        /\ told' = Tell(Tell(t, W, "skipped"), chain, "done") /\ chain' = {}
    BY <1>8, OverFacts
  <2>2. W \cap Items \subseteq Hearers /\ W \cap Items \subseteq Range(waiting)
    BY <1>2, <1>8, ItemKinds
  <2>3. Grows(t, told', W \cup chain)
    <3>1. Grows(t, Tell(Tell(t, W, "skipped"), chain, "done"), W \cup chain)
      BY <2>2, OverGrows
    <3> QED
      BY <2>1, <3>1
  <2>4. Rests(i, NoItem, s)
    BY <1>8, <2>1 DEF Rests
  <2>5. NoItem \notin W \cup chain
    BY <1>1, <1>2, <1>6, ItemKinds
  <2>6. (W \cup chain) \cap Items \subseteq Hearers /\ (W \cup chain) \cap Items \subseteq chain \cup Range(waiting)
    BY <1>4, <2>2
  <2>7. Range(waiting') = {} /\ NoDup(waiting') /\ waiting' \in Seq(Items)
    BY <1>8, EmptyFacts
  <2> HIDE DEF W
  <2> QED
    BY <1>1, <1>2, <1>5, <1>8, <2>1, <2>3, <2>4, <2>5, <2>6, <2>7, EndKeeps
<1>9. CASE /\ Open
           /\ \E n \in DOMAIN waiting :
                /\ waiting[n] \notin spent /\ {waiting[k] : k \in 1 .. n - 1} \subseteq spent
                /\ told' = Tell(t, {waiting[k] : k \in 1 .. n - 1}, "skipped")
                /\ waiting' = SubSeq(waiting, n + 1, Len(waiting))
                /\ entries' = IF waiting[n] \in Messages THEN Append(entries, waiting[n]) ELSE entries
                /\ run' = [run EXCEPT ![i] = Idle, ![waiting[n]] = [Idle EXCEPT !.at = "handoff"]]
                /\ saves' = Append(s, [for |-> "handoff", item |-> waiting[n]])
           /\ UNCHANGED <<busy, chain>>
  <2>1. PICK p \in DOMAIN waiting :
                /\ waiting[p] \notin spent /\ {waiting[k] : k \in 1 .. p - 1} \subseteq spent
                /\ told' = Tell(t, {waiting[k] : k \in 1 .. p - 1}, "skipped")
                /\ waiting' = SubSeq(waiting, p + 1, Len(waiting))
                /\ entries' = IF waiting[p] \in Messages THEN Append(entries, waiting[p]) ELSE entries
                /\ run' = [run EXCEPT ![i] = Idle, ![waiting[p]] = [Idle EXCEPT !.at = "handoff"]]
                /\ saves' = Append(s, [for |-> "handoff", item |-> waiting[p]])
    BY <1>9
  <2>2. PICK n : n = waiting[p]
    OBVIOUS
  <2>3. PICK W : W = {waiting[k] : k \in 1 .. p - 1}
    OBVIOUS
  <2>4. p \in 1 .. Len(waiting) /\ n \in Range(waiting) /\ n \in Items /\ \A k \in W : k \in Range(waiting)
    BY <1>1, <2>2, <2>3, DomFacts
  <2>5. n \notin W /\ W \subseteq Notes
    BY <1>2, <2>1, <2>2, <2>3
  <2>6. W \cap Items \subseteq Hearers /\ W \cap Items \subseteq Range(waiting)
    BY <2>4, <2>5, ItemKinds
  <2>7. Grows(t, told', W)
    <3>1. told' = Tell(t, W, "skipped")
      BY <2>1, <2>3
    <3> QED
      BY <2>6, <3>1, OverGrows
  <2>8. /\ waiting' \in Seq(Items) /\ Len(waiting') = Len(waiting) - p /\ NoDup(waiting')
        /\ Range(waiting') \subseteq Range(waiting)
        /\ \A k \in 1 .. p : waiting[k] \notin Range(waiting')
    <3>1. waiting' = Rest(waiting, p)
      BY <2>1 DEF Rest
    <3> QED
      BY <1>1, <3>1, DropFacts
  <2>9. Len(waiting') < Len(waiting)
    BY <1>1, <2>4, <2>8
  <2>10. n \notin Range(waiting') /\ Range(waiting') \cap W = {}
    BY <2>2, <2>3, <2>4, <2>8
  <2>11. /\ run' \in [Items -> [at: {"none", "handoff", "working", "saving", "reporting"},
                                out: Outs \cup {"none"}, err: BOOLEAN]]
         /\ run'[n].at = "handoff" /\ \A k \in Items : k # n => Away(k)'
    <3> DEFINE R == [at: {"none", "handoff", "working", "saving", "reporting"},
                     out: Outs \cup {"none"}, err: BOOLEAN]
    <3>1. PICK q \in R : q = [Idle EXCEPT !.at = "handoff"] /\ q.at = "handoff"
      <4>1. Idle \in R
        BY DEF Idle
      <4>2. \A q \in R : [q EXCEPT !.at = "handoff"] \in R /\ [q EXCEPT !.at = "handoff"].at = "handoff"
        OBVIOUS
      <4> QED
        BY <4>1, <4>2
    <3>2. Idle \in R /\ Idle.at = "none" /\ run \in [Items -> R]
      BY <1>2 DEF Idle
    <3> HIDE DEF R
    <3>3. run' = [run EXCEPT ![i] = Idle, ![n] = q]
      BY <2>1, <2>2, <3>1
    <3>4. /\ run' \in [Items -> R] /\ run'[n] = q
          /\ \A k \in Items : k # n => run'[k] = IF k = i THEN Idle ELSE run[k]
      BY <2>4, <3>1, <3>2, <3>3
    <3>5. \A k \in Items : k # n => Away(k)'
      BY <3>2, <3>4, OneActive DEF Away
    <3> QED
      BY <3>1, <3>4, <3>5 DEF R
  <2>12. Rests(i, n, s)
    BY <1>9, <2>1, <2>2, <2>4, <2>10, <2>11 DEF Rests
  <2>13. W \cap Items \subseteq chain \cup Range(waiting) /\ chain' \subseteq chain /\ chain' \cap W = {}
    BY <1>2, <1>9, <2>5, <2>6, ItemKinds
  <2> QED
    BY <1>2, <1>5, <1>9, <2>4, <2>5, <2>6, <2>7, <2>8, <2>9, <2>10, <2>11, <2>12, <2>13, EndKeeps
<1> QED
  BY <1>7, <1>8, <1>9 DEF Drain

(* stopAfterPersistenceFailure: the queue is dropped.                      *)
LEMMA StopAllKeeps ==
    ASSUME TurnInv, NEW i \in Items, ~Away(i), Goes(saves'), \A x \in Range(saves') : x.for \notin {"end", "handoff"},
           NEW t, Settled(i, t), StopAll(i, t),
           UNCHANGED <<started, asked, spent, cancelled, folded>>,
           live' = NoItem, output' = FALSE, stop' \in {"none", "stopped", "interrupted"},
           draft' \in [id: Drafts \cup {NoItem}, at: {"none", "queued", "running"}]
    PROVE  TurnInv'
<1> DEFINE W == Heard(waiting)
<1>1. /\ closed' = (IF Open THEN "stopped" ELSE closed) /\ busy' = FALSE /\ waiting' = <<>>
      /\ Over(i, Tell(t, W, "failed")) /\ UNCHANGED entries
  BY DEF StopAll
<1>2. /\ run' \in [Items -> [at: {"none", "handoff", "working", "saving", "reporting"},
                             out: Outs \cup {"none"}, err: BOOLEAN]]
      /\ \A k \in Items : Away(k)'
      /\ told' = Tell(Tell(t, W, "failed"), chain, "done") /\ chain' = {}
  BY <1>1, OverFacts
<1>3. W \cap Items \subseteq Hearers /\ W \cap Items \subseteq Range(waiting) /\ W \subseteq Items
  BY ItemKinds DEF Heard, Hearing, Hearers
<1>4. Grows(t, told', W \cup chain)
  <2>1. Grows(t, Tell(Tell(t, W, "failed"), chain, "done"), W \cup chain)
    BY <1>3, OverGrows
  <2> QED
    BY <1>2, <2>1
<1>5. Rests(i, NoItem, saves')
  BY <1>1, <1>2 DEF Rests
<1>6. chain \subseteq Hearers /\ chain \subseteq Items /\ NoItem \notin W \cup chain
  <2>1. chain \subseteq Invokes
    BY DEF TurnInv, ChatTypeOK
  <2> QED
    BY <1>3, <2>1, ItemKinds, ItemAssumption
<1>7. /\ (W \cup chain) \cap Items \subseteq Hearers
      /\ (W \cup chain) \cap Items \subseteq chain \cup Range(waiting)
  BY <1>3, <1>6
<1>8. Range(waiting') = {} /\ NoDup(waiting') /\ waiting' \in Seq(Items)
  BY <1>1, EmptyFacts
<1>9. closed' \in {"open", "stopped", "closing", "closed"} /\ (Open' => Open)
  BY <1>1 DEF TurnInv, ChatTypeOK, Open
<1> HIDE DEF W
<1> QED
  BY <1>1, <1>2, <1>4, <1>5, <1>6, <1>7, <1>8, <1>9, EndKeeps

(* Only i hears, when its turn ends.                                       *)
LEMMA TellSettled ==
    ASSUME TurnInv, NEW i \in Items, NEW J, J \subseteq {i}, NEW o \in Outs,
           i \in J => /\ i \in Hearers /\ i \notin chain /\ (i \notin Jobs => told[i] = <<>>)
                      /\ i \in cancelled => o # "done" \/ told[i] # <<>>,
           i \in cancelled => i \in J \/ told[i] # <<>>
    PROVE  Settled(i, Tell(told, J, o))
<1> DEFINE u == Tell(told, J, o)
<1>1. told \in [Items -> Seq(Outs)]
  BY DEF TurnInv, ChatTypeOK
<1>2. /\ u \in [Items -> Seq(Outs)]
      /\ \A k \in Items : k \notin J \/ (k \in Jobs /\ told[k] # <<>>) => u[k] = told[k]
      /\ \A k \in Items : k \in J /\ told[k] = <<>> => u[k] = <<o>>
      /\ \A k \in Items : k \in J => u[k] # <<>>
  BY <1>1, TellFacts
<1> SUFFICES Settled(i, u)
  OBVIOUS
<1> HIDE DEF u
<1>3. \A k \in Items : k # i => u[k] = told[k]
  BY <1>2
<1>4. CASE i \notin J \/ told[i] # <<>>
  <2>1. u[i] = told[i]
    BY <1>2, <1>4
  <2>2. i \in cancelled => u[i] # <<>>
    BY <1>2, <2>1
  <2> QED
    BY <1>2, <1>3, <2>1, <2>2 DEF Settled
<1>5. CASE i \in J /\ told[i] = <<>>
  <2>1. u[i] = <<o>> /\ Len(<<o>>) = 1 /\ <<o>> # <<>> /\ (o # "done" => <<o>> # <<"done">>)
    BY <1>2, <1>5, OneOutcome
  <2>2. Len(u[i]) = 1 /\ u[i] # <<>> /\ (i \in cancelled => u[i] # <<"done">>)
    BY <1>5, <2>1
  <2> QED
    BY <1>2, <1>3, <1>5, <2>2 DEF Settled
<1> QED
  BY <1>4, <1>5

(* An item that hears of nothing when its turn ends.                       *)
LEMMA NoneSettled ==
    ASSUME TurnInv, NEW i \in Items, i \in cancelled => told[i] # <<>>
    PROVE  Settled(i, told)
  BY DEF TurnInv, ChatTypeOK, Settled

(* The end of a turn after its save, or without one.                       *)
LEMMA SettleKeeps ==
    ASSUME TurnInv, NEW i \in Items, run[i].at \in {"working", "saving"}, NEW s, Goes(s),
           \A x \in Range(s) : x.for \notin {"end", "handoff"},
           NEW out \in Outs, NEW err \in BOOLEAN, Settle(i, out, err, s),
           i \in cancelled => out # "done" \/ told[i] # <<>> \/ ~Open,
           UNCHANGED <<started, asked, spent, cancelled, folded>>,
           live' = NoItem, output' = FALSE, stop' \in {"none", "stopped", "interrupted"}
    PROVE  TurnInv'
<1> DEFINE ended == i \in Notes \cup (Invokes \ chain)
           t == IF i \in Jobs THEN Tell(told, {i}, IF Open /\ ~err THEN out ELSE "failed")
                ELSE IF ended /\ (Open \/ err)
                THEN Tell(told, {i}, IF err THEN "failed" ELSE out) ELSE told
<1>1. /\ draft' = (IF draft.id = i THEN NoDraft ELSE draft)
      /\ \/ err /\ StopAll(i, t) /\ saves' = s
         \/ /\ ~err /\ ended /\ Open /\ told' = t /\ run' = [run EXCEPT ![i].at = "reporting"] /\ saves' = s
            /\ UNCHANGED <<entries, waiting, busy, chain, closed>>
         \/ ~err /\ Drain(i, t, s) /\ UNCHANGED closed
  BY DEF Settle
<1>2. ~Away(i) /\ "failed" \in Outs /\ cancelled \subseteq Jobs /\ chain \subseteq Invokes
  BY DEF Away, Outs, TurnInv, ChatTypeOK
<1>3. Settled(i, t)
  <2>1. CASE i \in Jobs
    <3>1. i \in Hearers /\ i \notin chain
      BY <1>2, <2>1, ItemKinds
    <3>2. PICK o \in Outs : o = IF Open /\ ~err THEN out ELSE "failed"
      BY <1>2
    <3>3. i \in cancelled => o # "done" \/ told[i] # <<>>
      BY <3>2
    <3>4. Settled(i, Tell(told, {i}, o))
      BY <2>1, <3>1, <3>3, TellSettled
    <3>5. t = Tell(told, {i}, o)
      BY <2>1, <3>2
    <3> QED
      BY <3>4, <3>5
  <2>2. CASE i \notin Jobs /\ ended /\ (Open \/ err)
    <3>1. i \in Hearers /\ i \notin chain
      BY <1>2, <2>2, ItemKinds
    <3>2. told[i] = <<>>
      BY <1>2, <2>2, <3>1, OneActive
    <3>3. PICK o \in Outs : o = IF err THEN "failed" ELSE out
      BY <1>2
    <3>4. Settled(i, Tell(told, {i}, o))
      BY <1>2, <2>2, <3>1, <3>2, TellSettled
    <3>5. t = Tell(told, {i}, o)
      BY <2>2, <3>3
    <3> QED
      BY <3>4, <3>5
  <2>3. CASE i \notin Jobs /\ ~(ended /\ (Open \/ err))
    <3>1. t = told
      BY <2>3
    <3>2. Settled(i, told)
      BY <1>2, <2>3, NoneSettled
    <3> QED
      BY <3>1, <3>2
  <2> QED
    BY <2>1, <2>2, <2>3
<1> HIDE DEF t
<1>4. draft' \in [id: Drafts \cup {NoItem}, at: {"none", "queued", "running"}]
  <2>1. draft \in [id: Drafts \cup {NoItem}, at: {"none", "queued", "running"}]
    BY DEF TurnInv, ChatTypeOK
  <2> QED
    BY <1>1, <2>1 DEF NoDraft
<1>5. CASE err /\ StopAll(i, t) /\ saves' = s
  BY <1>2, <1>3, <1>4, <1>5, StopAllKeeps
<1>6. CASE ~err /\ Drain(i, t, s) /\ UNCHANGED closed
  BY <1>2, <1>3, <1>4, <1>6, DrainKeeps
<1>7. CASE /\ ended /\ told' = t /\ run' = [run EXCEPT ![i].at = "reporting"] /\ saves' = s
           /\ UNCHANGED <<entries, waiting, busy, chain, closed>>
  <2>1. /\ run' \in [Items -> [at: {"none", "handoff", "working", "saving", "reporting"},
                               out: Outs \cup {"none"}, err: BOOLEAN]]
        /\ run'[i].at = "reporting" /\ \A k \in Items : k # i => run'[k] = run[k]
    <3> DEFINE R == [at: {"none", "handoff", "working", "saving", "reporting"},
                     out: Outs \cup {"none"}, err: BOOLEAN]
    <3>1. run \in [Items -> R]
      BY DEF TurnInv, ChatTypeOK
    <3>2. \A q \in R : [q EXCEPT !.at = "reporting"] \in R /\ [q EXCEPT !.at = "reporting"].at = "reporting"
      OBVIOUS
    <3> HIDE DEF R
    <3>3. run[i] \in R /\ run' = [run EXCEPT ![i] = [run[i] EXCEPT !.at = "reporting"]]
      BY <1>7, <3>1
    <3>4. PICK r \in R : r = [run[i] EXCEPT !.at = "reporting"] /\ r.at = "reporting"
      BY <3>2, <3>3
    <3>5. run' = [run EXCEPT ![i] = r]
      BY <3>3, <3>4
    <3>6. run' \in [Items -> R] /\ run'[i] = r /\ \A k \in Items : k # i => run'[k] = run[k]
      BY <3>1, <3>5
    <3> QED
      BY <3>4, <3>6 DEF R
  <2>2. \A k \in Items : k # i => Away(k)'
    BY <1>2, <2>1, OneActive DEF Away
  <2>3. Rests(i, NoItem, s)
    BY <1>7, <2>1, <2>2 DEF Rests
  <2>4. Grows(t, told', {})
    <3>1. t \in [Items -> Seq(Outs)]
      BY <1>3 DEF Settled
    <3> QED
      BY <1>7, <3>1, GrowsNot
  <2>5. waiting \in Seq(Items) /\ NoDup(waiting) /\ busy \in BOOLEAN /\ closed \in {"open", "stopped", "closing", "closed"}
    BY WaitTypes DEF TurnInv, ChatTypeOK
  <2>6. Open' => Open
    BY <1>7 DEF Open
  <2>7. /\ {} \cap Items \subseteq Hearers /\ {} \cap Items \subseteq chain \cup Range(waiting)
        /\ chain' \cap {} = {} /\ Range(waiting') \cap {} = {} /\ NoItem \notin {}
    OBVIOUS
  <2>8. UNCHANGED <<waiting, busy>> /\ chain' \subseteq chain /\ closed' \in {"open", "stopped", "closing", "closed"}
        /\ busy' \in BOOLEAN /\ saves' = s /\ waiting' \in Seq(Items) /\ NoDup(waiting')
        /\ Range(waiting') \subseteq Range(waiting)
    BY <1>7, <2>5
  <2> QED
    BY <1>2, <1>3, <1>4, <2>1, <2>3, <2>4, <2>6, <2>7, <2>8, EndKeeps
<1> QED
  BY <1>1, <1>5, <1>6, <1>7

(* The save that ends is the only one of a turn.                           *)
LEMMA RunSave ==
    ASSUME TurnInv, NEW for \in {"end", "handoff"}, NEW ok \in BOOLEAN, SaveEnds(for, ok), UNCHANGED sending
    PROVE  /\ Item \in Items /\ ~Away(Item)
           /\ run[Item].at = (IF for = "end" THEN "saving" ELSE "handoff")
           /\ Goes(Tail(saves)) /\ \A x \in Range(Tail(saves)) : x.for \notin {"end", "handoff"}
           /\ ok => saved' = Range(entries)
<1>1. for \in Fors
  BY DEF Fors
<1>2. /\ Item \in Items /\ [for |-> for, item |-> Item] \in Range(saves)
      /\ Tail(saves) \in Seq([for: Fors, item: Items]) /\ NoDup(Tail(saves))
      /\ Range(Tail(saves)) = Range(saves) \ {[for |-> for, item |-> Item]}
      /\ saved' = saved \/ saved' = Range(entries)
      /\ ok => saved' = Range(entries)
      /\ load' \in [asks: [Items -> Nat], faults: Nat] /\ load'.asks = load.asks
      /\ fatal' \in BOOLEAN
  BY <1>1, FirstSave
<1>3. Goes(Tail(saves))
  BY <1>2 DEF Goes
<1> DEFINE x == [for |-> for, item |-> Item]
<1>4. x.for = for /\ x.item = Item
  OBVIOUS
<1> HIDE DEF x
<1>5. run[Item].at = (IF for = "end" THEN "saving" ELSE "handoff")
  BY <1>2, <1>4 DEF TurnInv, SavesInv, x
<1>6. ~Away(Item)
  BY <1>5 DEF Away
<1>7. ASSUME NEW y \in Range(Tail(saves)), y.for \in {"end", "handoff"}
      PROVE  FALSE
  <2>1. y \in Range(saves) /\ y # x /\ y.item \in Items /\ y = [for |-> y.for, item |-> y.item]
    BY <1>2, <1>7, SaveTypes DEF TurnInv, x
  <2>2. run[y.item].at = (IF y.for = "end" THEN "saving" ELSE "handoff")
    BY <1>7, <2>1 DEF TurnInv, SavesInv
  <2>3. y.item = Item
    BY <1>2, <1>6, <2>1, <2>2, OneActive DEF Away
  <2>4. y.for = for
    BY <1>5, <1>7, <2>2, <2>3
  <2> QED
    BY <2>1, <2>3, <2>4 DEF x
<1> QED
  BY <1>2, <1>3, <1>5, <1>6, <1>7

(* The end of a turn is saved, or is not.                                  *)
LEMMA EndSavedKeeps ==
    ASSUME TurnInv, NEW ok \in BOOLEAN, EndSaved(ok)
    PROVE  TurnInv'
<1>1. /\ SaveEnds("end", ok) /\ Settle(Item, run[Item].out, run[Item].err \/ ~ok, Tail(saves))
      /\ UNCHANGED <<sending, started, live, output, stop, asked, spent, cancelled, folded>>
  BY DEF EndSaved, job, people
<1>2. /\ Item \in Items /\ ~Away(Item) /\ run[Item].at = "saving"
      /\ Goes(Tail(saves)) /\ \A x \in Range(Tail(saves)) : x.for \notin {"end", "handoff"}
  BY <1>1, RunSave
<1>3. PICK i \in Items : i = Item
  BY <1>2
<1>4. live' = NoItem /\ output' = FALSE /\ stop' \in {"none", "stopped", "interrupted"}
  BY <1>1, <1>2, OneActive DEF TurnInv, ChatTypeOK
<1>5. run[i].out \in Outs
  <2>1. run[i].out \in Outs \cup {"none"}
    BY DEF TurnInv, ChatTypeOK
  <2> QED
    BY <1>2, <1>3, <2>1 DEF TurnInv, RunInv
<1>6. PICK err \in BOOLEAN : err = (run[i].err \/ ~ok)
  OBVIOUS
<1>7. i \in cancelled => run[i].out # "done" \/ told[i] # <<>>
  BY <1>2, <1>3 DEF TurnInv, JobInv
<1>8. Settle(i, run[i].out, err, Tail(saves))
  BY <1>1, <1>3, <1>6
<1> QED
  BY <1>1, <1>2, <1>3, <1>4, <1>5, <1>7, <1>8, SettleKeeps

(* The outcome of a turn was reported, and what waits is drained.          *)
LEMMA ReportedKeeps ==
    ASSUME TurnInv, NEW i \in Items, Reported(i)
    PROVE  TurnInv'
<1>1. /\ run[i].at = "reporting" /\ Drain(i, told, saves)
      /\ UNCHANGED <<saved, sending, started, closed, fatal, load, live, output, stop, draft,
                     asked, spent, cancelled, folded>>
  BY DEF Reported, ends, job, people
<1>2. ~Away(i)
  BY <1>1 DEF Away
<1>3. Goes(saves) /\ \A x \in Range(saves) : x.for \notin {"end", "handoff"}
  <2>1. Goes(saves)
    BY <1>1 DEF Goes, TurnInv, ChatTypeOK, SavesInv
  <2>2. \A x \in Range(saves) : x.for \notin {"end", "handoff"}
    BY <1>1, <1>2, SaveTypes, OneActive DEF TurnInv, SavesInv, Away
  <2> QED
    BY <2>1, <2>2
<1>4. /\ live' = NoItem /\ output' = FALSE /\ stop' \in {"none", "stopped", "interrupted"}
      /\ draft' \in [id: Drafts \cup {NoItem}, at: {"none", "queued", "running"}]
  BY <1>1, <1>2, OneActive DEF TurnInv, ChatTypeOK
<1>5. Settled(i, told)
  BY <1>1, NoneSettled DEF TurnInv, JobInv
<1> QED
  BY <1>1, <1>2, <1>3, <1>4, <1>5, DrainKeeps

(* The turn that is handed over is saved, or is not.                       *)
LEMMA HandoffKeeps ==
    ASSUME TurnInv, NEW ok \in BOOLEAN, HandoffSaved(ok)
    PROVE  TurnInv'
<1>1. PICK i : i = Item
  OBVIOUS
<1>2. /\ SaveEnds("handoff", ok) /\ UNCHANGED <<sending, asked, spent, cancelled, folded>>
  BY DEF HandoffSaved, people
<1>3. /\ i \in Items /\ ~Away(i) /\ run[i].at = "handoff"
      /\ Goes(Tail(saves)) /\ \A x \in Range(Tail(saves)) : x.for \notin {"end", "handoff"}
      /\ ok => saved' = Range(entries)
  BY <1>1, <1>2, RunSave
<1>4. /\ live = NoItem /\ output = FALSE /\ stop \in {"none", "stopped", "interrupted"}
      /\ draft \in [id: Drafts \cup {NoItem}, at: {"none", "queued", "running"}]
      /\ cancelled \subseteq Jobs /\ chain \subseteq Invokes
  BY <1>3, OneActive DEF TurnInv, ChatTypeOK
<1>5. i \in cancelled => told[i] # <<>>
  BY <1>3 DEF TurnInv, JobInv
<1>6. Settled(i, Tell(told, {i} \cap Jobs, "failed"))
  <2>1. "failed" \in Outs /\ "failed" # "done"
    BY DEF Outs
  <2>2. i \in {i} \cap Jobs => i \in Hearers /\ i \notin chain
    BY <1>4, ItemKinds
  <2> QED
    BY <1>3, <1>5, <2>1, <2>2, TellSettled
<1>7. CASE /\ ~ok /\ StopAll(i, Tell(told, {i} \cap Jobs, "failed"))
           /\ saves' = Tail(saves) /\ UNCHANGED <<started, job, draft>>
  <2>1. UNCHANGED <<live, output, stop>>
    BY <1>7 DEF job
  <2> QED
    BY <1>2, <1>3, <1>4, <1>6, <1>7, <2>1, StopAllKeeps
<1>8. CASE /\ ok /\ ~Open /\ Over(i, Tell(told, {i} \cap Jobs, "failed"))
           /\ saves' = Tail(saves) /\ UNCHANGED <<entries, waiting, busy, started, job, draft, closed>>
  <2>1. UNCHANGED <<live, output, stop>>
    BY <1>8 DEF job
  <2>2. Drain(i, Tell(told, {i} \cap Jobs, "failed"), Tail(saves))
    BY <1>8 DEF Drain
  <2> QED
    BY <1>2, <1>3, <1>4, <1>6, <1>8, <2>1, <2>2, DrainKeeps
<1>9. CASE /\ ok /\ Open /\ i \in Jobs /\ told[i] # <<>>
           /\ Drain(i, told, Tail(saves)) /\ UNCHANGED <<started, job, draft, closed>>
  <2>1. UNCHANGED <<live, output, stop>>
    BY <1>9 DEF job
  <2>2. Settled(i, told)
    BY <1>3, <1>5, NoneSettled
  <2> QED
    BY <1>2, <1>3, <1>4, <1>9, <2>1, <2>2, DrainKeeps
<1>10. CASE /\ ok /\ Open /\ ~(i \in Jobs /\ told[i] # <<>>) /\ Starts(i) /\ saves' = Tail(saves)
            /\ draft' = (IF draft.id = i THEN [draft EXCEPT !.at = "running"] ELSE draft)
            /\ UNCHANGED <<entries, waiting, chain, closed, told>>
  <2>1. \A k \in Items : k # i => Away(k)
    BY <1>3, OneActive
  <2>2. \A x \in Range(saves') : x.for \notin {"end", "handoff", "send"}
    <3>1. \A x \in Range(saves') : x \in Range(saves)
      BY <1>3, <1>10 DEF Goes
    <3>2. \A x \in Range(saves') : x.for # "send"
      BY <1>3, <1>10, <3>1 DEF TurnInv, SavesInv
    <3> QED
      BY <1>3, <1>10, <3>2
  <2>3. draft' \in [id: Drafts \cup {NoItem}, at: {"none", "queued", "running"}] /\ folded' \subseteq Notes
    <3>1. [draft EXCEPT !.at = "running"] \in [id: Drafts \cup {NoItem}, at: {"none", "queued", "running"}]
      BY <1>4
    <3>2. folded \subseteq Notes
      BY DEF TurnInv, ChatTypeOK
    <3> QED
      BY <1>2, <1>4, <1>10, <3>1, <3>2
  <2>4. i \in Messages => i \in Range(entries) /\ i \in saved' /\ started[i] = 0 /\ i \notin Range(waiting)
    <3>1. ASSUME i \in Messages
          PROVE  i \in Range(entries) /\ i \in saved' /\ started[i] = 0 /\ i \notin Range(waiting)
      <4>1. i \in Range(entries) /\ i \notin Range(waiting) /\ started[i] <= 1 /\ started[i] # 1 /\ started[i] \in Nat
        BY <1>3, <3>1 DEF TurnInv, MessageInv, ChatTypeOK
      <4> QED
        BY <1>3, <1>10, <4>1
    <3> QED
      BY <3>1
  <2>5. i \in Hearers => told[i] = <<>> /\ i \notin Sent' /\ ~Pending("notice", i)' /\ i \notin Range(waiting)
    <3>1. ASSUME i \in Hearers
          PROVE  told[i] = <<>> /\ i \notin Sent' /\ ~Pending("notice", i)' /\ i \notin Range(waiting)
      <4>1. i \notin Range(waiting) /\ i \notin Sent /\ ~Pending("notice", i)
        BY <1>3, <3>1, OneActive
      <4>2. told[i] = <<>>
        BY <1>3, <1>10, <3>1, OneActive
      <4>3. i \notin Sent' /\ ~Pending("notice", i)'
        BY <1>2, <1>3, <1>10, <4>1 DEF Sent, Pending, Goes
      <4> QED
        BY <4>1, <4>2, <4>3
    <3> QED
      BY <3>1
  <2>6. (i \in Range(waiting) => i \in Drafts) /\ (waiting' = Without(waiting, i) \/ (i \in Drafts /\ UNCHANGED waiting))
    <3>1. i \in Messages \/ i \in Hearers \/ i \in Drafts
      BY <1>3, ItemKinds
    <3>2. i \notin Range(waiting) => Without(waiting, i) = waiting
      BY WaitTypes, WithoutFacts
    <3> QED
      BY <1>10, <2>4, <2>5, <3>1, <3>2
  <2>7. i \in Messages \/ asked'[i] # 0
    BY <1>2, <1>3 DEF TurnInv, AskedInv, Seen
  <2>8. i \in Jobs => i \notin cancelled
    BY <1>5, <1>10
  <2> QED
    BY <1>2, <1>3, <1>10, <2>1, <2>2, <2>3, <2>4, <2>5, <2>6, <2>7, <2>8, StartKeeps
<1> QED
  BY <1>1, <1>7, <1>8, <1>9, <1>10 DEF HandoffSaved

(* The session is over: its turn is saved, unless the Chat closed.         *)
LEMMA TurnOverKeeps ==
    ASSUME TurnInv, NEW i \in Items, TurnOver(i)
    PROVE  TurnInv'
<1>1. PICK out \in (IF i \in Jobs THEN {JobOut}
                    ELSE IF stop = "stopped" THEN {"stopped"}
                    ELSE IF stop = "interrupted" THEN {"failed"} ELSE {"done", "failed"}),
           err \in BOOLEAN :
         /\ err => i \in Jobs /\ load.faults > 0
         /\ load' = IF err THEN [load EXCEPT !.faults = @ - 1] ELSE load
         /\ IF Open
            THEN /\ run' = [run EXCEPT ![i] = [at |-> "saving", out |-> out, err |-> err]]
                 /\ saves' = Append(saves, [for |-> "end", item |-> i])
                 /\ UNCHANGED <<entries, waiting, busy, chain, closed, draft, told>>
            ELSE Settle(i, out, err, saves)
  BY DEF TurnOver
<1>2. /\ run[i].at = "working" /\ live' = NoItem /\ output' = FALSE /\ stop' = "none"
      /\ UNCHANGED <<saved, sending, started, fatal, asked, spent, cancelled, folded>>
  BY DEF TurnOver, people
<1>3. ~Away(i)
  BY <1>2 DEF Away
<1>4. /\ \A k \in Items : k # i => Away(k)
      /\ i \in Hearers => i \notin Range(waiting) /\ i \notin Sent /\ ~Pending("notice", i)
      /\ live = NoItem \/ live = i
      /\ output \in BOOLEAN /\ (output => live # NoItem)
  BY <1>3, OneActive
<1>5. out \in Outs /\ out # "none" /\ (i \in cancelled => out # "done")
  <2>1. out \in Outs /\ out # "none"
    BY <1>1 DEF Outs, JobOut
  <2>2. ASSUME i \in cancelled, out = "done"
        PROVE  FALSE
    <3>1. i \in Jobs
      BY <2>2 DEF TurnInv, ChatTypeOK
    <3>2. output
      BY <1>1, <2>2, <3>1 DEF JobOut
    <3>3. live = i /\ live # NoItem
      BY <1>4, <3>2
    <3> QED
      BY <2>2, <3>3 DEF TurnInv, JobInv
  <2> QED
    BY <2>1, <2>2
<1>6. load' \in [asks: [Items -> Nat], faults: Nat] /\ load'.asks = load.asks
  <2>1. load \in [asks: [Items -> Nat], faults: Nat]
    BY DEF TurnInv, ChatTypeOK
  <2>2. CASE err
    BY <1>1, <2>1, <2>2
  <2>3. CASE ~err
    BY <1>1, <2>1, <2>3
  <2> QED
    BY <2>2, <2>3
<1>7. \A x \in Range(saves) : x.for \notin {"end", "handoff"}
  BY <1>2, <1>4, SaveTypes DEF TurnInv, SavesInv, Away
<1>8. CASE ~Open
  <2>1. Settle(i, out, err, saves)
    BY <1>1, <1>8
  <2>2. Goes(saves)
    BY <1>2, <1>6 DEF Goes, TurnInv, ChatTypeOK, SavesInv
  <2> QED
    BY <1>2, <1>5, <1>7, <2>1, <2>2, SettleKeeps
<1>9. CASE Open
  <2>1. /\ run' = [run EXCEPT ![i] = [at |-> "saving", out |-> out, err |-> err]]
        /\ saves' = Append(saves, [for |-> "end", item |-> i])
        /\ UNCHANGED <<entries, waiting, busy, chain, closed, draft, told>>
    BY <1>1, <1>9
  <2>2. /\ run' \in [Items -> [at: {"none", "handoff", "working", "saving", "reporting"},
                               out: Outs \cup {"none"}, err: BOOLEAN]]
        /\ run'[i].at = "saving" /\ run'[i].out = out /\ \A k \in Items : k # i => run'[k] = run[k]
    <3> DEFINE R == [at: {"none", "handoff", "working", "saving", "reporting"},
                     out: Outs \cup {"none"}, err: BOOLEAN]
    <3>1. run \in [Items -> R]
      BY DEF TurnInv, ChatTypeOK
    <3>2. PICK r \in R : r = [at |-> "saving", out |-> out, err |-> err] /\ r.at = "saving" /\ r.out = out
      <4>1. [at |-> "saving", out |-> out, err |-> err] \in R
        BY <1>1, <1>5
      <4>2. [at |-> "saving", out |-> out, err |-> err].at = "saving"
        OBVIOUS
      <4>3. [at |-> "saving", out |-> out, err |-> err].out = out
        OBVIOUS
      <4> HIDE DEF R
      <4> QED
        BY <4>1, <4>2, <4>3
    <3> HIDE DEF R
    <3>3. run' = [run EXCEPT ![i] = r]
      BY <2>1, <3>2
    <3>4. run' \in [Items -> R] /\ run'[i] = r /\ \A k \in Items : k # i => run'[k] = run[k]
      BY <3>1, <3>3
    <3> QED
      BY <3>2, <3>4 DEF R
  <2> DEFINE x == [for |-> "end", item |-> i]
  <2>3. x.for = "end" /\ x.item = i /\ x.for \notin Requests /\ x \in [for: Fors, item: Items]
    BY DEF Requests, Fors
  <2>4. \A g, k : [for |-> g, item |-> k] = x => g = "end"
    <3>1. ASSUME NEW g, NEW k, [for |-> g, item |-> k] = x
          PROVE  g = "end"
      <4>1. [for |-> g, item |-> k].for = g
        OBVIOUS
      <4> QED
        BY <2>3, <3>1, <4>1
    <3> QED
      BY <3>1
  <2>5. saves' = Append(saves, x)
    BY <2>1
  <2> HIDE DEF x
  <2>6. /\ saves' \in Seq([for: Fors, item: Items]) /\ Range(saves') = Range(saves) \cup {x} /\ NoDup(saves')
    <3>1. saves \in Seq([for: Fors, item: Items]) /\ NoDup(saves) /\ x \notin Range(saves)
      BY <1>7, <2>3 DEF TurnInv, ChatTypeOK, SavesInv
    <3> QED
      BY <2>3, <2>5, <3>1, AppendSave
  <2>7. \A g, k : Pending(g, k)' /\ g # "end" => Pending(g, k)
    BY <2>4, <2>6 DEF Pending
  <2>8. ChatTypeOK'
    BY <1>2, <1>6, <2>1, <2>2, <2>6 DEF TurnInv, ChatTypeOK
  <2>9. SavesInv'
    <3>1. ASSUME NEW y \in Range(saves')
          PROVE  /\ y.for = "end" => run'[y.item].at = "saving"
                 /\ y.for = "handoff" => run'[y.item].at = "handoff"
                 /\ y.for = "notice" => y.item \in Notes
                 /\ y.for = "send" => y.item \in Messages
                 /\ y.for \in {"invoke", "followup"} => y.item \in Invokes
                 /\ y.for = "draft" => y.item \in Drafts
                 /\ y.for \in Requests => sending' # <<>> /\ sending'[1] = [item |-> y.item, at |-> "saving"]
                 /\ y.for = "send" /\ Open' => busy' /\ \A h \in Items : Away(h)'
      <4>1. CASE y = x
        BY <2>2, <2>3, <4>1
      <4>2. CASE y \in Range(saves)
        <5>1. y.for \notin {"end", "handoff", "send"}
          BY <1>3, <1>7, <1>9, <4>2 DEF TurnInv, SavesInv
        <5> QED
          BY <1>2, <4>2, <5>1 DEF TurnInv, SavesInv
      <4> QED
        BY <2>6, <4>1, <4>2
    <3>2. \A y, z \in Range(saves') : y.for \in Requests /\ z.for \in Requests => y = z
      BY <2>3, <2>6 DEF TurnInv, SavesInv
    <3> QED
      BY <2>6, <3>1, <3>2 DEF SavesInv
  <2>10. RunInv'
    <3>1. \A k \in Items : k # i => Away(k)'
      BY <1>4, <2>2 DEF Away
    <3>2. busy'
      <4>1. busy
        BY <1>3, <1>9 DEF TurnInv, RunInv
      <4> QED
        BY <2>1, <4>1
    <3>3. \A k \in Items : run'[k].at = "saving" => run'[k].out # "none"
      BY <1>5, <2>2, <3>1 DEF Away
    <3> QED
      BY <1>2, <3>1, <3>2, <3>3 DEF RunInv
  <2>11. MessageInv'
    <3> SUFFICES ASSUME NEW m \in Messages
                 PROVE  /\ Once(entries', m)
                        /\ m \in Range(entries') => m \notin Range(waiting')
                        /\ started'[m] <= 1
                        /\ started'[m] = 1 => /\ m \in Range(entries') /\ m \in saved'
                                              /\ ~Pending("send", m)' /\ run'[m].at # "handoff"
                        /\ Pending("send", m)' \/ run'[m].at = "handoff" => m \in Range(entries')
                        /\ Pending("send", m)' => run'[m].at = "none"
      BY DEF MessageInv
    <3>1. /\ Once(entries, m)
          /\ m \in Range(entries) => m \notin Range(waiting)
          /\ started[m] <= 1
          /\ started[m] = 1 => /\ m \in Range(entries) /\ m \in saved
                               /\ ~Pending("send", m) /\ run[m].at # "handoff"
          /\ Pending("send", m) \/ run[m].at = "handoff" => m \in Range(entries)
          /\ Pending("send", m) => run[m].at = "none"
      BY DEF TurnInv, MessageInv
    <3>2. m \in Items /\ (Pending("send", m)' => Pending("send", m))
      BY <2>7, ItemKinds
    <3>3. run'[m].at = "handoff" => run[m].at = "handoff"
      BY <2>2, <3>2
    <3>4. Pending("send", m)' => run'[m].at = "none"
      BY <1>2, <2>2, <3>1, <3>2
    <3> QED
      BY <1>2, <2>1, <3>1, <3>2, <3>3, <3>4
  <2>12. WaitInv'
    <3>1. \A y \in Range(saves') : y \in Range(saves) \/ y.for \notin {"send", "invoke"}
      BY <2>3, <2>6
    <3> QED
      BY <2>1, <3>1 DEF TurnInv, WaitInv
  <2>13. Sent' = Sent /\ \A k \in Items : Away(k)' <=> Away(k)
    BY <1>2, <1>3, <2>2 DEF Sent, Away
  <2>14. \A k : Pending("notice", k)' => Pending("notice", k)
    BY <2>7
  <2>15. PlaceInv'
    BY <2>1, <2>13, <2>14, ItemKinds DEF TurnInv, PlaceInv
  <2>16. ToldInv'
    <3>1. \A k \in Items : Due(k)' => Due(k)
      BY <1>2, <2>1, <2>2, <2>13, <2>14 DEF Due
    <3> QED
      BY <2>1, <3>1 DEF TurnInv, ToldInv
  <2>17. AskedInv'
    <3>1. \A k \in Items : Seen(k)' => Seen(k)
      BY <2>1, <2>13, <2>14 DEF Seen
    <3> QED
      BY <1>2, <1>6, <3>1, AskedKeeps DEF TurnInv
  <2>18. JobInv'
    <3>1. ASSUME NEW j \in cancelled
          PROVE  /\ asked'[j] # 0 /\ told'[j] # <<"done">>
                 /\ \/ told'[j] # <<>>
                    \/ run'[j].at = "working" /\ live' # j
                    \/ run'[j].at = "saving" /\ run'[j].out # "done"
      <4>1. /\ asked[j] # 0 /\ told[j] # <<"done">>
            /\ told[j] # <<>> \/ run[j].at \in {"working", "saving"}
        BY DEF TurnInv, JobInv
      <4>2. j \in Items
        BY ItemKinds DEF TurnInv, ChatTypeOK
      <4>3. told[j] = <<>> => j = i
        BY <1>4, <4>1, <4>2 DEF Away
      <4> QED
        BY <1>2, <1>5, <2>1, <2>2, <4>1, <4>3
    <3> QED
      BY <1>2, <3>1 DEF JobInv
  <2> QED
    BY <1>2, <2>1, <2>8, <2>9, <2>10, <2>11, <2>12, <2>15, <2>16, <2>17, <2>18, SameSend DEF TurnInv
<1> QED
  BY <1>8, <1>9
-----------------------------------------------------------------------------
(* Every state of ChatSpec satisfies the invariant.                        *)
(* A Chat that was just opened has an empty transcript and queue.          *)
LEMMA ChatStarts == ChatInit => TurnInv
<1> SUFFICES ASSUME ChatInit
             PROVE  TurnInv
  OBVIOUS
<1>1. Range(<<>>) = {} /\ NoDup(<<>>) /\ Len(<<>>) = 0 /\ \A S : <<>> \in Seq(S)
  BY EmptyFacts
<1>2. /\ load \in [asks: [Items -> Nat], faults: Nat]
      /\ \A i \in Items \ Messages : load.asks[i] <= 1
      /\ MaxQueue \in Nat /\ MaxPending \in Nat
  BY LoadAssumption DEF ChatInit
<1>3. \A i \in Items : run[i] = Idle /\ started[i] = 0 /\ asked[i] = 0 /\ told[i] = <<>>
  BY DEF ChatInit
<1>4. \A i \in Items : Away(i) /\ run[i].at = "none"
  BY <1>3 DEF Away, Idle
<1>5. Sent = {} /\ \A f, i : ~Pending(f, i)
  BY <1>1 DEF ChatInit, Sent, Pending
<1>6. ChatTypeOK
  <2>1. run \in [Items -> [at: {"none", "handoff", "working", "saving", "reporting"},
                           out: Outs \cup {"none"}, err: BOOLEAN]]
    BY DEF ChatInit, Idle
  <2>2. draft \in [id: Drafts \cup {NoItem}, at: {"none", "queued", "running"}]
    BY DEF ChatInit, NoDraft
  <2>3. told \in [Items -> Seq(Outs)]
    BY <1>1 DEF ChatInit
  <2>4. Len(sending) <= MaxPending
    BY <1>1, <1>2 DEF ChatInit
  <2>5. entries \in Seq(Messages \cup Invokes) /\ waiting \in Seq(Items)
        /\ sending \in Seq([item: Messages \cup Invokes \cup Drafts, at: {"new", "checked", "saving"}])
        /\ saves \in Seq([for: Fors, item: Items])
    BY <1>1 DEF ChatInit
  <2> QED
    BY <1>2, <2>1, <2>2, <2>3, <2>4, <2>5 DEF ChatInit, ChatTypeOK
<1>7. SavesInv
  BY <1>1 DEF ChatInit, SavesInv
<1>8. RunInv
  BY <1>4 DEF ChatInit, RunInv
<1>9. SendInv
  BY DEF ChatInit, SendInv
<1>10. MessageInv
  <2>1. Messages \subseteq Items
    BY ItemKinds
  <2> QED
    BY <1>1, <1>3, <1>4, <1>5, <2>1 DEF ChatInit, MessageInv, Once
<1>11. WaitInv
  <2>1. Len(waiting) <= MaxQueue + 1 /\ ~(Len(waiting) > MaxQueue)
    BY <1>1, <1>2 DEF ChatInit
  <2> QED
    BY <1>1, <2>1 DEF ChatInit, WaitInv
<1>12. PlaceInv
  BY <1>1, <1>5 DEF ChatInit, PlaceInv
<1>13. ToldInv
  BY <1>1, <1>3 DEF ToldInv
<1>14. AskedInv
  BY <1>1, <1>2, <1>3, <1>4, <1>5 DEF ChatInit, AskedInv, Seen
<1>15. JobInv
  BY DEF ChatInit, JobInv
<1> QED
  BY <1>6, <1>7, <1>8, <1>9, <1>10, <1>11, <1>12, <1>13, <1>14, <1>15 DEF TurnInv

(* Every step of a Chat keeps the invariant.                               *)
LEMMA ChatStep == TurnInv /\ [ChatNext]_chatVars => TurnInv'
<1> SUFFICES ASSUME TurnInv, [ChatNext]_chatVars
             PROVE  TurnInv'
  OBVIOUS
<1>1. CASE Saved
  <2>1. PICK ok \in BOOLEAN :
          \/ NoticeSaved(ok) \/ FollowupSaved(ok) \/ MessageSaved(ok) \/ InvokeSaved(ok)
          \/ DraftSaved(ok) \/ EndSaved(ok) \/ HandoffSaved(ok)
    BY <1>1 DEF Saved
  <2> QED
    BY <2>1, NoticeKeeps, FollowupKeeps, MessageKeeps, InvokeKeeps, DraftKeeps, EndSavedKeeps, HandoffKeeps
<1>2. CASE Process
  <2>1. PICK k : Check(k) \/ Refuse(k) \/ SendMessage(k) \/ SendInvoke(k) \/ SendDraft(k)
    BY <1>2 DEF Process
  <2> QED
    BY <2>1, CheckKeeps, RefuseKeeps, SendMessageKeeps, SendInvokeKeeps, SendDraftKeeps
<1>3. CASE Turn
  BY <1>3, TurnOverKeeps, ReportedKeeps DEF Turn
<1>4. CASE JobSubmits
  BY <1>4, SubmitKeeps
<1>5. CASE Close
  BY <1>5, CloseKeeps
<1>6. CASE Closed
  BY <1>6, ClosedKeeps
<1>7. CASE \E i \in Messages \cup Invokes \cup Drafts : Ask(i)
  BY <1>7, AskKeeps
<1>8. CASE \E i \in Items : Unqueue(i)
  BY <1>8, UnqueueKeeps
<1>9. CASE \E n \in Notes : Instruct(n) \/ Resolve(n)
  BY <1>9, InstructKeeps, ResolveKeeps
<1>10. CASE \E j \in Jobs : AskJob(j) \/ CancelJob(j)
  BY <1>10, AskJobKeeps, CancelKeeps
<1>11. CASE \E how \in {"stopped", "interrupted"} : StopTurn(how)
  BY <1>11, StopKeeps
<1>12. CASE UNCHANGED chatVars
  <2>1. UNCHANGED <<entries, saved, waiting, sending, saves, busy, run, chain, started, closed, fatal, load,
                    live, output, stop, draft, asked, spent, cancelled, told, folded>>
    BY <1>12 DEF chatVars, transcript, turns, ends, job, people, words
  <2>2. ChatTypeOK'
    BY <2>1 DEF TurnInv, ChatTypeOK
  <2>3. load'.asks = load.asks
    BY <2>1
  <2> QED
    BY <2>1, <2>2, <2>3, SameSaves, SameRun, SameSend, SameMessage, SameWait, SamePlace, SameTold,
       SameAsked, SameJob DEF TurnInv
<1> QED
  BY <1>1, <1>2, <1>3, <1>4, <1>5, <1>6, <1>7, <1>8, <1>9, <1>10, <1>11, <1>12 DEF ChatNext

(* The inductive invariant holds in every state a Chat reaches.            *)
LEMMA ChatReach == ChatSpec => []TurnInv
<1>1. ChatInit => TurnInv
  BY ChatStarts
<1>2. TurnInv /\ [ChatNext]_chatVars => TurnInv'
  BY ChatStep
<1> QED
  BY <1>1, <1>2, PTL DEF ChatSpec

-----------------------------------------------------------------------------
(* What the invariant says of the properties.                              *)

(* A sequence has no more values than places, and fewer of them are        *)
(* outside a set that one of its values belongs to.                        *)
LEMMA RangeSize ==
    ASSUME NEW S, NEW q \in Seq(S)
    PROVE  /\ IsFiniteSet(Range(q)) /\ Cardinality(Range(q)) <= Len(q)
           /\ \A T : /\ IsFiniteSet(Range(q) \ T) /\ Cardinality(Range(q) \ T) \in Nat
                     /\ Cardinality(Range(q) \ T) <= Len(q)
                     /\ (\E x \in T : x \in Range(q)) => Cardinality(Range(q) \ T) < Len(q)
<1>1. DOMAIN q = 1 .. Len(q) /\ Len(q) \in Nat
  BY DomFacts
<1>2. IsFiniteSet(DOMAIN q) /\ Cardinality(DOMAIN q) = Len(q)
  BY <1>1, FS_Interval
<1>3. q \in Surjection(DOMAIN q, Range(q))
  <2>1. q \in [DOMAIN q -> Range(q)]
    BY DEF Range
  <2>2. \A x \in Range(q) : \E k \in DOMAIN q : q[k] = x
    BY DEF Range
  <2> QED
    BY <2>1, <2>2 DEF Surjection
<1>4. IsFiniteSet(Range(q)) /\ Cardinality(Range(q)) <= Len(q)
  BY <1>2, <1>3, FS_Surjection
<1>5. Cardinality(Range(q)) \in Nat
  BY <1>4, FS_CardinalityType
<1>6. ASSUME NEW T
      PROVE  /\ IsFiniteSet(Range(q) \ T) /\ Cardinality(Range(q) \ T) \in Nat
             /\ Cardinality(Range(q) \ T) <= Len(q)
             /\ (\E x \in T : x \in Range(q)) => Cardinality(Range(q) \ T) < Len(q)
  <2>1. Range(q) \ T \in SUBSET Range(q)
    OBVIOUS
  <2>2. IsFiniteSet(Range(q) \ T) /\ Cardinality(Range(q) \ T) <= Cardinality(Range(q))
        /\ (Cardinality(Range(q)) = Cardinality(Range(q) \ T) => Range(q) = Range(q) \ T)
    BY <1>4, <2>1, FS_Subset
  <2>3. Cardinality(Range(q) \ T) \in Nat
    BY <2>2, FS_CardinalityType
  <2>4. (\E x \in T : x \in Range(q)) => Range(q) # Range(q) \ T
    OBVIOUS
  <2>5. (\E x \in T : x \in Range(q)) => Cardinality(Range(q)) # Cardinality(Range(q) \ T)
    BY <2>2, <2>4
  <2> HIDE DEF Range
  <2> DEFINE c == Cardinality(Range(q) \ T)
             d == Cardinality(Range(q))
  <2>6. c \in Nat /\ d \in Nat /\ c <= d /\ d <= Len(q) /\ Len(q) \in Nat
    BY <1>1, <1>4, <1>5, <2>2, <2>3
  <2>7. (\E x \in T : x \in Range(q)) => c # d
    BY <2>5
  <2> HIDE DEF c, d
  <2>8. c <= Len(q) /\ (c # d => c < Len(q))
    BY <2>6
  <2>9. c <= Len(q) /\ ((\E x \in T : x \in Range(q)) => c < Len(q))
    BY <2>7, <2>8
  <2> QED
    BY <2>2, <2>3, <2>9 DEF c
<1> QED
  BY <1>4, <1>6

(* How often a value occurs where it occurs at most once.                  *)
LEMMA OccursOnce ==
    ASSUME NEW S, NEW q \in Seq(S), NEW x, Once(q, x)
    PROVE  /\ Occurs(q, x) \in {0, 1}
           /\ x \notin Range(q) => Occurs(q, x) = 0
<1> DEFINE P == {k \in 1 .. Len(q) : q[k] = x}
<1>1. DOMAIN q = 1 .. Len(q)
  BY DomFacts
<1>2. CASE P = {}
  BY <1>2, FS_EmptySet DEF Occurs
<1>3. CASE P # {}
  <2>1. PICK k \in P : TRUE
    BY <1>3
  <2>2. k \in DOMAIN q /\ q[k] = x
    BY <1>1, <2>1
  <2>3. \A l \in P : l = k
    BY <1>1, <2>2 DEF Once
  <2>4. P = {k}
    BY <2>1, <2>3
  <2>5. Occurs(q, x) = 1
    BY <2>4, FS_Singleton DEF Occurs
  <2>6. x \in Range(q)
    BY <2>2 DEF Range
  <2> QED
    BY <2>5, <2>6
<1> QED
  BY <1>2, <1>3

(* At most one item has a turn, and then nobody finds the Chat idle.       *)
LEMMA OneTurnHolds == TurnInv => OneTurn
<1> SUFFICES ASSUME TurnInv
             PROVE  OneTurn
  OBVIOUS
<1>1. /\ \A i, j \in Items : ~Away(i) /\ ~Away(j) => i = j
      /\ \A i \in Items : ~Away(i) /\ Open => busy
  BY DEF TurnInv, RunInv
<1>2. \A i : i \in Active <=> i \in Items /\ ~Away(i)
  BY DEF Active, Away
<1>3. Active # {} /\ Open => busy
  BY <1>1, <1>2
<1>4. Cardinality(Active) <= 1
  <2>1. CASE Active = {}
    <3>1. Cardinality(Active) = 0
      BY <2>1, FS_EmptySet
    <3> QED
      BY <3>1
  <2>2. CASE Active # {}
    <3>1. PICK i \in Active : TRUE
      BY <2>2
    <3>2. \A j \in Active : j = i
      BY <1>1, <1>2, <3>1
    <3>3. Active = {i}
      BY <3>1, <3>2
    <3>4. Cardinality(Active) = 1
      BY <3>3, FS_Singleton
    <3> QED
      BY <3>4
  <2> QED
    BY <2>1, <2>2
<1> QED
  BY <1>3, <1>4 DEF OneTurn

(* The queue exceeds MAX_QUEUE by no more than an invocation.              *)
LEMMA QueueBoundHolds == TurnInv => QueueBound
<1> SUFFICES ASSUME TurnInv
             PROVE  QueueBound
  OBVIOUS
<1>1. waiting \in Seq(Items) /\ Len(waiting) \in Nat /\ MaxQueue \in Nat
  BY WaitTypes
<1>2. /\ Len(waiting) <= MaxQueue + 1
      /\ Len(waiting) > MaxQueue => \E i \in Invokes : i \in Range(waiting)
  BY DEF TurnInv, WaitInv
<1> DEFINE c == Cardinality(Range(waiting) \ Invokes)
<1>3. c \in Nat /\ c <= Len(waiting) /\ ((\E i \in Invokes : i \in Range(waiting)) => c < Len(waiting))
  BY <1>1, RangeSize
<1> HIDE DEF c
<1>4. Len(waiting) > MaxQueue => c < Len(waiting)
  BY <1>2, <1>3
<1>5. c <= MaxQueue
  BY <1>1, <1>2, <1>3, <1>4
<1> QED
  BY <1>2, <1>5 DEF c, QueueBound

(* A message that has had a turn is one a restart would find.              *)
LEMMA DurableHolds == TurnInv => DurableBeforeTurn
<1> SUFFICES ASSUME TurnInv, NEW m \in Messages, started[m] > 0
             PROVE  m \in saved
  BY DEF DurableBeforeTurn
<1>1. m \in Items
  BY ItemKinds
<1>2. started[m] \in Nat /\ started[m] <= 1 /\ (started[m] = 1 => m \in saved)
  BY <1>1 DEF TurnInv, ChatTypeOK, MessageInv
<1> QED
  BY <1>2

(* In every state of a Chat the transcript, the queue and the turns agree: *)
(* run, processSend, invoke, postDraft, instruct and the drain never have  *)
(* two turns at a time or find a Chat idle while one runs, never start the *)
(* turn of a message that is not saved, and keep the queue's bound.        *)
THEOREM ChatHolds == ChatSpec => []ChatInv
<1>1. TurnInv => ChatInv
  BY OneTurnHolds, QueueBoundHolds, DurableHolds DEF TurnInv, ChatInv
<1> QED
  BY <1>1, ChatReach, PTL

(* However processSend, its replays, the drain and a failed save meet, a   *)
(* message is once in the transcript or in the queue and has one turn.     *)
THEOREM OnceHolds == ChatSpec => []ExactlyOnce
<1>1. TurnInv => ExactlyOnce
  <2> SUFFICES ASSUME TurnInv, NEW m \in Messages
               PROVE  Occurs(entries, m) + Occurs(waiting, m) <= 1 /\ started[m] <= 1
    BY DEF ExactlyOnce
  <2>1. /\ Once(entries, m) /\ started[m] <= 1
        /\ m \in Range(entries) => m \notin Range(waiting)
    BY DEF TurnInv, MessageInv
  <2>2. entries \in Seq(Messages \cup Invokes) /\ waiting \in Seq(Items) /\ Once(waiting, m)
    BY DEF TurnInv, ChatTypeOK, WaitInv, NoDup, Once
  <2>3. /\ Occurs(entries, m) \in {0, 1} /\ (m \notin Range(entries) => Occurs(entries, m) = 0)
        /\ Occurs(waiting, m) \in {0, 1} /\ (m \notin Range(waiting) => Occurs(waiting, m) = 0)
    BY <2>1, <2>2, OccursOnce
  <2>4. Occurs(entries, m) = 0 \/ Occurs(waiting, m) = 0
    BY <2>1, <2>3
  <2>5. Occurs(entries, m) + Occurs(waiting, m) <= 1
    BY <2>3, <2>4
  <2> QED
    BY <2>1, <2>5
<1> QED
  BY <1>1, ChatReach, PTL

(* Whoever waits for a turn is told at most once how it ended, also when a *)
(* cancel, a close and the turn's own end meet; a job its owner cancelled  *)
(* is never done, and chat.job names no job that is over.                  *)
THEOREM OutcomesOnce == ChatSpec => []OutcomesHold
<1>1. TurnInv => OutcomesHold
  BY DEF TurnInv, ToldInv, JobInv, OutcomesHold
<1> QED
  BY <1>1, ChatReach, PTL
=============================================================================
