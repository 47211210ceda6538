----------------------------- MODULE WriterLease -----------------------------
(***************************************************************************)
(* The storage writer lease.  One PostgreSQL row names the process that    *)
(* may write and a fencing number; every server process is its own owner   *)
(* (a fresh UUID at startup).  The module composes                         *)
(*   - the row and the row locks of storage/postgres/adapter.ts: a fenced  *)
(*     write holds the writer's advisory lock and the row FOR KEY SHARE    *)
(*     until it commits, a takeover takes the row FOR UPDATE, a renewal    *)
(*     FOR NO KEY UPDATE, which does not wait for a fenced write;          *)
(*   - the holder of storage/writer-lease.ts: renewals in flight, retries, *)
(*     lost replies, and the watchdog that stops the process;              *)
(*   - the startup and shutdown of main.ts around them.                    *)
(*                                                                         *)
(* `now' is real time.  Both clocks are only used for durations, so one    *)
(* variable stands for clock_timestamp() and Date.now().  Timers may fire  *)
(* late: no action is forced to happen before time passes.  A statement    *)
(* takes effect when it commits but reads the clock when it runs, at any   *)
(* moment since its transaction got its row lock.                          *)
(***************************************************************************)
EXTENDS Integers, Sequences, FiniteSets

CONSTANTS
    Procs,          \* server processes, each with its own owner id
    NoProc,         \* not a process
    Ttl,            \* LEASE_TTL_MS
    Safety,         \* LEASE_SAFETY_MS
    MaxTime,        \* bound on `now'
    MaxWrites,      \* bound on the fenced writes issued
    MaxBackends     \* bound on the renewals of one process the database runs

ASSUME NoProcAssumption == NoProc \notin Procs
ASSUME TimingAssumption == Ttl \in Nat /\ Safety \in Nat /\ Safety < Ttl
ASSUME BoundAssumption == MaxTime \in Nat /\ MaxWrites \in Nat /\ MaxBackends \in Nat

None == -1          \* an unset time: a timer that is not armed, no renewal in flight

VARIABLES
    now,
    \* the row of storage_leases; owner NoProc, fencing 0 is the missing row
    owner, fencing, expires,
    \* locks and transactions in the database
    takers,         \* processes whose acquire waits for the row FOR UPDATE
    locker,         \* <<p, at>>: the acquire holding the row FOR UPDATE since `at'
    requests,       \* fenced writes sent and waiting for the advisory lock
    writer,         \* the fenced write in flight, past #assertLease
    backends,       \* renewal transactions in the database, locked since `at'
    replies,        \* renewal results on their way to their process
    log,            \* fencing numbers of the committed fenced writes, in order
    releases,       \* release UPDATEs on their way to the database
    \* the processes
    pc,             \* how far startup has come
    down,           \* how far drain has come: the two run side by side
    held,           \* the fencing number of `held', 0 once it is lost
    anchor,         \* #renewedAt as `hold' set it
    watch,          \* the armed watchdog deadline
    sent            \* #renewalStartedAt

row   == <<owner, fencing, expires>>
locks == <<takers, locker>>
proc  == <<pc, down, held, anchor, watch, sent>>
vars  == <<now, row, locks, requests, writer, backends, replies, log, releases, proc>>

Times   == Nat \cup {None}
Kinds   == {"write", "reset", "drop"}
Request == [proc: Procs, token: Nat, kind: Kinds]
NoWrite == [proc |-> NoProc, token |-> 0, kind |-> "write", at |-> 0]
Write   == [proc: Procs, token: Nat, kind: Kinds, at: Nat]
Backend == [proc: Procs, token: Nat, sent: Nat, at: Times]
Reply   == [proc: Procs, token: Nat, sent: Nat, ok: BOOLEAN]
NoLock  == [proc |-> NoProc, at |-> 0]
Token   == [proc: Procs, token: Nat]
States  == {"idle", "acquiring", "granted", "resetting", "dropping", "dropped",
            "started", "gone"}
Downs   == {"no", "stopped", "releasing", "released"}

TypeOK ==
    /\ now \in Nat
    /\ owner \in Procs \cup {NoProc} /\ fencing \in Nat /\ expires \in Nat
    /\ takers \subseteq Procs
    /\ locker \in [proc: Procs, at: Nat] \cup {NoLock}
    /\ requests \subseteq Request
    /\ writer \in Write \cup {NoWrite}
    /\ backends \subseteq Backend /\ replies \subseteq Reply
    /\ log \in Seq(Nat)
    /\ releases \subseteq Token
    /\ pc \in [Procs -> States] /\ down \in [Procs -> Downs]
    /\ held \in [Procs -> Nat] /\ anchor \in [Procs -> Nat]
    /\ watch \in [Procs -> Times] /\ sent \in [Procs -> Times]

Init ==
    /\ now = 0
    /\ owner = NoProc /\ fencing = 0 /\ expires = 0
    /\ takers = {} /\ locker = NoLock
    /\ requests = {} /\ writer = NoWrite
    /\ backends = {} /\ replies = {}
    /\ log = <<>> /\ releases = {}
    /\ pc = [p \in Procs |-> "idle"] /\ down = [p \in Procs |-> "no"]
    /\ held = [p \in Procs |-> 0]
    /\ anchor = [p \in Procs |-> 0]
    /\ watch = [p \in Procs |-> None] /\ sent = [p \in Procs |-> None]

Tick == now < MaxTime /\ now' = now + 1
        /\ UNCHANGED <<row, locks, requests, writer, backends, replies, log, releases, proc>>

-----------------------------------------------------------------------------
(* Acquiring: leases.acquire at startup, with its row lock.                *)

Acquire(p) ==
    /\ pc[p] = "idle"
    /\ pc' = [pc EXCEPT ![p] = "acquiring"]
    /\ takers' = takers \cup {p}
    /\ UNCHANGED <<now, row, locker, requests, writer, backends, replies, log, releases,
                   down, held, anchor, watch, sent>>

\* A row lock other transactions conflict with; a fenced write's KEY SHARE is
\* only in the way of FOR UPDATE.
RowLocked == locker # NoLock \/ \E b \in backends : b.at # None

\* Mutation: a bare UPDATE, which does not wait for KEY SHARE.
MayTakeBareUpdate == ~RowLocked

\* SELECT ... FOR UPDATE is granted: behind every fenced write in flight.
MayTake == writer = NoWrite /\ ~RowLocked

LockForUpdate(p) ==
    /\ p \in takers /\ MayTake
    /\ takers' = takers \ {p}
    /\ locker' = [proc |-> p, at |-> now]
    /\ UNCHANGED <<now, row, requests, writer, backends, replies, log, releases, proc>>

\* The UPDATE, run at `t', commits.  The reply is on its way in "granted".
Take(p) ==
    /\ locker.proc = p /\ p \in Procs
    /\ locker' = NoLock
    /\ \E t \in locker.at .. now :
         \/ /\ expires <= t \/ owner = p
            /\ fencing' = IF owner = p /\ expires > t THEN fencing ELSE fencing + 1
            /\ owner' = p /\ expires' = t + Ttl
            /\ IF pc[p] = "acquiring"
               THEN /\ pc' = [pc EXCEPT ![p] = "granted"]
                    /\ held' = [held EXCEPT ![p] = fencing']
               ELSE UNCHANGED <<pc, held>>
         \/ /\ expires > t /\ owner # p
            /\ pc' = [pc EXCEPT ![p] = "gone"]      \* another instance owns the database
            /\ UNCHANGED <<row, held>>
    /\ UNCHANGED <<now, takers, requests, writer, backends, replies, log, releases,
                   down, anchor, watch, sent>>

\* The reply: hold measures the deadline from here, signals are listened to and
\* sessions.reset, startup's first fenced write, is sent.
Hold(p) ==
    /\ pc[p] = "granted"
    /\ pc' = [pc EXCEPT ![p] = "resetting"]
    /\ anchor' = [anchor EXCEPT ![p] = now]
    /\ requests' = requests \cup {[proc |-> p, token |-> held[p], kind |-> "reset"]}
    /\ UNCHANGED <<now, row, locks, writer, backends, replies, log, releases,
                   down, held, watch, sent>>

-----------------------------------------------------------------------------
(* Fenced writes.  #assertLease takes the advisory lock and the row FOR    *)
(* KEY SHARE and checks the row under them.                                *)

\* A write captures `held' when it is issued and may wait for a long time.
IssueWrite(p) ==
    /\ pc[p] = "started" /\ held[p] # 0
    /\ Len(log) + Cardinality(requests) < MaxWrites
    /\ requests' = requests \cup {[proc |-> p, token |-> held[p], kind |-> "write"]}
    /\ UNCHANGED <<now, row, locks, writer, backends, replies, log, releases, proc>>

\* Mutation: any unexpired lease lets the write through.
MayWriteUnowned(r) == expires > now

MayWrite(r) == owner = r.proc /\ fencing = r.token /\ expires > now

\* A refused write ("storage lease is no longer held") rolls back.
AssertLease(r) ==
    /\ r \in requests /\ writer = NoWrite /\ locker = NoLock
    /\ requests' = requests \ {r}
    /\ writer' = IF MayWrite(r)
                 THEN [proc |-> r.proc, token |-> r.token, kind |-> r.kind, at |-> now]
                 ELSE NoWrite
    /\ UNCHANGED <<now, row, locks, backends, replies, log, releases, proc>>

\* Startup waits for its dropChildConversations, as callers do for their writes.
CommitWrite ==
    /\ writer # NoWrite /\ writer.kind # "reset"
    /\ writer' = NoWrite
    /\ log' = Append(log, writer.token)
    /\ pc' = IF writer.kind = "drop" /\ pc[writer.proc] = "dropping"
             THEN [pc EXCEPT ![writer.proc] = "dropped"] ELSE pc
    /\ UNCHANGED <<now, row, locks, requests, backends, replies, releases,
                   down, held, anchor, watch, sent>>

\* reset commits; if startup still waits for it, it goes on to
\* dropChildConversations with the lease reset returned.  The UPDATE does not
\* check the expiry again: KEY SHARE kept every taker away.
CommitReset ==
    /\ writer # NoWrite /\ writer.kind = "reset" /\ ~RowLocked
    /\ writer' = NoWrite
    /\ log' = Append(log, writer.token)
    /\ \E t \in writer.at .. now : expires' = t + Ttl
    /\ IF pc[writer.proc] = "resetting"
       THEN /\ pc' = [pc EXCEPT ![writer.proc] = "dropping"]
            /\ requests' = requests \cup
                   {[proc |-> writer.proc, token |-> writer.token, kind |-> "drop"]}
       ELSE UNCHANGED <<pc, requests>>
    /\ UNCHANGED <<now, owner, fencing, locks, backends, replies, releases,
                   down, held, anchor, watch, sent>>

AbortWrite ==
    /\ writer # NoWrite
    /\ writer' = NoWrite
    /\ UNCHANGED <<now, row, locks, requests, backends, replies, log, releases, proc>>

\* The end of a process: what it sent may still run in the database.
Exit(p) ==
    /\ pc' = [pc EXCEPT ![p] = "gone"]
    /\ down' = [down EXCEPT ![p] = "no"]
    /\ held' = [held EXCEPT ![p] = 0]
    /\ anchor' = [anchor EXCEPT ![p] = 0]
    /\ watch' = [watch EXCEPT ![p] = None]
    /\ sent' = [sent EXCEPT ![p] = None]
    /\ replies' = {r \in replies : r.proc # p}

\* The reset or the drop was refused, was rolled back or lost its answer, and
\* then it may still run.  Startup's catch releases the lease and exits.
StartupFails(p) ==
    /\ pc[p] \in {"resetting", "dropping"}
    /\ releases' = releases \cup {[proc |-> p, token |-> held[p]]}
    /\ Exit(p)
    /\ UNCHANGED <<now, row, locks, requests, writer, backends, log>>

\* Mutation: the deadline counted from the reply.
DeadlineFromReply(started) == now + Ttl - Safety

\* The deadline armWatchdog computes from when the lease was last extended.
Deadline(started) == started + Ttl - Safety

\* writerLease.start, whether or not the process is shutting down.  From stop() to
\* the release drain waits for nothing but the reset, so it cannot come between.
Start(p) ==
    /\ pc[p] = "dropped" /\ down[p] # "stopped"
    /\ pc' = [pc EXCEPT ![p] = "started"]
    /\ watch' = [watch EXCEPT ![p] = Deadline(anchor[p])]
    /\ UNCHANGED <<now, row, locks, requests, writer, backends, replies, log, releases,
                   down, held, anchor, sent>>

-----------------------------------------------------------------------------
(* Renewing.                                                               *)

\* #renew: the interval or a retry, unless a renewal is in flight.
RenewSend(p) ==
    /\ held[p] # 0 /\ watch[p] # None /\ sent[p] = None
    /\ Cardinality({b \in backends : b.proc = p}) < MaxBackends
    /\ sent' = [sent EXCEPT ![p] = now]
    /\ backends' = backends \cup {[proc |-> p, token |-> held[p], sent |-> now, at |-> None]}
    /\ UNCHANGED <<now, row, locks, requests, writer, replies, log, releases,
                   pc, down, held, anchor, watch>>

\* SELECT ... FOR NO KEY UPDATE is granted; a fenced write is not in the way.
RenewLock(b) ==
    /\ b \in backends /\ b.at = None /\ ~RowLocked
    /\ backends' = (backends \ {b}) \cup {[b EXCEPT !.at = now]}
    /\ UNCHANGED <<now, row, locks, requests, writer, replies, log, releases, proc>>

\* The UPDATE, run at `t' under the lock, commits.
RenewCommit(b) ==
    /\ b \in backends /\ b.at # None
    /\ backends' = backends \ {b}
    /\ \E t \in b.at .. now, ok \in BOOLEAN :
         /\ ok <=> owner = b.proc /\ fencing = b.token /\ expires > t
         /\ expires' = IF ok THEN t + Ttl ELSE expires
         /\ replies' = IF sent[b.proc] = b.sent
                       THEN replies \cup {[proc |-> b.proc, token |-> b.token,
                                           sent |-> b.sent, ok |-> ok]}
                       ELSE replies     \* nobody waits for it any more
    /\ UNCHANGED <<now, owner, fencing, locks, requests, writer, log, releases, proc>>

\* Statement, lock or idle timeout, or a lost connection.
RenewAbort(b) ==
    /\ b \in backends
    /\ backends' = backends \ {b}
    /\ UNCHANGED <<now, row, locks, requests, writer, replies, log, releases, proc>>

Renewed(r) ==
    LET p == r.proc IN
    /\ r \in replies /\ sent[p] = r.sent
    /\ replies' = replies \ {r}
    /\ sent' = [sent EXCEPT ![p] = None]
    /\ \/ /\ r.ok            \* also after the watchdog fired: the lease is held again
          /\ held' = [held EXCEPT ![p] = r.token]
          /\ watch' = IF down[p] = "stopped" THEN watch
                      ELSE [watch EXCEPT ![p] = Deadline(r.sent)]
       \/ /\ ~r.ok           \* lost: the watchdog has nothing left to take away
          /\ held' = [held EXCEPT ![p] = 0]
          /\ watch' = [watch EXCEPT ![p] = None]
    /\ UNCHANGED <<now, row, locks, requests, writer, backends, log, releases,
                   pc, down, anchor>>

\* The attempt fails or no reply comes within LEASE_RENEW_STALL_MS.  The database
\* may still run the statement; a reply after this one is never read.
RenewFailed(p) ==
    /\ sent[p] # None
    /\ sent' = [sent EXCEPT ![p] = None]
    /\ replies' = {r \in replies : r.proc # p}
    /\ UNCHANGED <<now, row, locks, requests, writer, backends, log, releases,
                   pc, down, held, anchor, watch>>

Watchdog(p) ==
    /\ watch[p] # None /\ now >= watch[p]
    /\ watch' = [watch EXCEPT ![p] = None]
    /\ held' = [held EXCEPT ![p] = 0]
    /\ UNCHANGED <<now, row, locks, requests, writer, backends, replies, log, releases,
                   pc, down, anchor, sent>>

-----------------------------------------------------------------------------
(* Stopping: drain, which startup neither waits for nor looks at.          *)

\* drain reaches writerLease.stop, which clears the interval, the retry and the
\* watchdog.  What began it, a signal also while startup still runs, a lost lease
\* or a failure after start(), changes nothing of the lease before.
Stop(p) ==
    /\ pc[p] \in {"resetting", "dropping", "dropped", "started"} /\ down[p] = "no"
    /\ down' = [down EXCEPT ![p] = "stopped"]
    /\ watch' = [watch EXCEPT ![p] = None]
    /\ UNCHANGED <<now, row, locks, requests, writer, backends, replies, log, releases,
                   pc, held, anchor, sent>>

\* Mutation: drain does not wait for the reset.
ResetAwaitedNot(p) == TRUE

\* drain waits for the reset, which extends the lease it is about to give back.
ResetAwaited(p) == pc[p] # "resetting"

\* After the renewal and the reset in flight drain releases what is held.
Release(p) ==
    /\ pc[p] # "gone" /\ down[p] = "stopped" /\ sent[p] = None /\ ResetAwaited(p)
    /\ down' = [down EXCEPT ![p] = "releasing"]
    /\ releases' = IF held[p] = 0 THEN releases
                   ELSE releases \cup {[proc |-> p, token |-> held[p]]}
    /\ UNCHANGED <<now, row, locks, requests, writer, backends, replies, log,
                   pc, held, anchor, watch, sent>>

\* The UPDATE; it conflicts with a renewal and a takeover, not with a fenced write.
ReleaseCommit(r) ==
    /\ r \in releases /\ ~RowLocked
    /\ releases' = releases \ {r}
    /\ IF owner = r.proc /\ fencing = r.token
       THEN /\ expires' = 0
            /\ down' = IF pc[r.proc] = "gone" THEN down ELSE [down EXCEPT ![r.proc] = "released"]
       ELSE UNCHANGED <<expires, down>>
    /\ UNCHANGED <<now, owner, fencing, locks, requests, writer, backends, replies, log,
                   pc, held, anchor, watch, sent>>

\* The process exits when it has drained, or dies.
Crash(p) ==
    /\ pc[p] \notin {"idle", "gone"}
    /\ Exit(p)
    /\ UNCHANGED <<now, row, locks, requests, writer, backends, log, releases>>

-----------------------------------------------------------------------------
Next ==
    \/ Tick
    \/ CommitWrite \/ CommitReset \/ AbortWrite
    \/ \E r \in requests : AssertLease(r)
    \/ \E b \in backends : RenewLock(b) \/ RenewCommit(b) \/ RenewAbort(b)
    \/ \E r \in replies : Renewed(r)
    \/ \E r \in releases : ReleaseCommit(r)
    \/ \E p \in Procs :
         \/ Acquire(p) \/ LockForUpdate(p) \/ Take(p) \/ Hold(p)
         \/ IssueWrite(p) \/ StartupFails(p) \/ Start(p)
         \/ RenewSend(p) \/ RenewFailed(p) \/ Watchdog(p)
         \/ Stop(p) \/ Release(p) \/ Crash(p)

Spec == Init /\ [][Next]_vars

-----------------------------------------------------------------------------
(* Properties.                                                             *)

(* Fencing: the fenced writes storage commits never step back to an        *)
(* earlier holder, however late a write captured its lease, waited for the *)
(* advisory lock or outlived its own lease (#assertLease against           *)
(* #acquire's FOR UPDATE).                                                 *)
WritesFenced ==
    /\ \A i \in 1 .. Len(log) : log[i] <= fencing
    /\ \A i, j \in 1 .. Len(log) : i < j => log[i] <= log[j]

(* The comments of #assertLease and #acquire: a takeover waits for every   *)
(* write in flight.  A write commits under the fencing number the row has  *)
(* at that moment, so none lands once a new holder has been granted the    *)
(* lease and may have read what the write changes.                         *)
NoLateWrite == [][Len(log') > Len(log) => log'[Len(log')] = fencing]_vars

(* The comment on #armWatchdog: the deadline is armed from the earliest    *)
(* moment the expiry can start.  Until Safety after its deadline, an armed *)
(* holder still owns an unexpired row, so a holder whose timers are late   *)
(* by less than Safety never acts on a lease another process took.  This   *)
(* holds until the process itself sends the row's release: main.ts:2947    *)
(* does not look at draining and may arm the watchdog after that, although *)
(* the comment in #renew says a stopped owner cleared it for good.         *)
OwnedUntilDeadline ==
    \A p \in Procs :
        watch[p] # None /\ now < watch[p] + Safety
        /\ down[p] \notin {"releasing", "released"} =>
            owner = p /\ fencing = held[p] /\ expires > now

(* A stop that arrives while startup still runs must release the lease, or *)
(* the next start finds it held (main.ts:2918): nothing the same process   *)
(* still has on its way, its reset, its drop or renewals of timers started *)
(* after the release, takes a released row again.  It is about processes  *)
(* that still run: the reset a failed startup gave up may follow the       *)
(* release of its catch, and keeps the row for one Ttl.                    *)
ReleasedStaysFree ==
    \A p \in Procs :
        down[p] = "released" => owner # p \/ expires = 0

(* What the lease is for: to everything that is stored, the processes, row *)
(* locks, late writes and zombie renewals are an append-only log with one  *)
(* writer at a time.  A fenced write that commits is an entry of the       *)
(* current term, a takeover or a re-acquired lease is a new term.          *)
FL == INSTANCE FencedLog WITH Writers <- Procs, NoWriter <- NoProc,
                              holder <- owner, term <- fencing, entries <- log

ImplementsFencedLog == FL!Spec

-----------------------------------------------------------------------------
(* The inductive invariant behind both.                                    *)

\* The row locks: a fenced write keeps the row as it found it, except for its
\* expiry; FOR UPDATE and FOR NO KEY UPDATE exclude each other.
LockInv ==
    /\ writer # NoWrite => locker = NoLock /\ writer.token = fencing /\ writer.proc = owner
    /\ \A b \in backends : b.at # None => locker = NoLock
    /\ \A b, c \in backends : b.at # None /\ c.at # None => b = c

\* Clocks are read in order, and an expiry never lies more than Ttl ahead of
\* the moment the row was last locked.
ClockInv ==
    /\ \A p \in Procs : anchor[p] <= now
    /\ \A b \in backends : b.sent <= now
    /\ \A b \in backends : b.at # None => b.sent <= b.at /\ expires <= b.at + Ttl
    /\ writer.at <= now /\ expires <= now + Ttl

\* A process acquires once, before anything else.
TakerInv ==
    /\ \A p \in Procs : p \in takers \/ p = locker.proc => pc[p] \in {"acquiring", "gone"}
    /\ locker.proc \notin takers

\* p's startup waits for its reset or has given up on it, and it holds `token'
\* if it waits.
Quiet(p, token) ==
    /\ pc[p] \in {"resetting", "gone"}
    /\ pc[p] = "resetting" => held[p] = token

\* A process resets once, before its timers start, with the lease it holds.
Resets == {r \in requests : r.kind = "reset"}

ResetInv ==
    /\ \A r \in Resets : Quiet(r.proc, r.token)
    /\ \A r, q \in Resets : r.proc = q.proc => r = q
    /\ writer.kind = "reset" =>
         /\ Quiet(writer.proc, writer.token)
         /\ \A r \in Resets : r.proc # writer.proc
         /\ pc[writer.proc] = "resetting" => anchor[writer.proc] <= writer.at

\* Timers run only after start(), and only drain and a failed startup release.
TimerInv ==
    /\ \A p \in Procs :
         /\ watch[p] # None \/ sent[p] # None => pc[p] = "started"
         /\ pc[p] \in {"idle", "acquiring", "granted", "gone"} => down[p] = "no"
         /\ pc[p] = "resetting" => down[p] \in {"no", "stopped"}
         /\ down[p] = "stopped" => watch[p] = None
    /\ \A r \in replies : pc[r.proc] = "started"
    /\ \A r \in releases : pc[r.proc] = "gone" \/ down[r.proc] \in {"releasing", "released"}

\* Lease `token' of p lasts until `end', or `end' has passed.
Lasts(p, token, end) == (owner = p /\ fencing = token /\ expires >= end) \/ now >= end

\* p has not sent its release.
Keeps(p) == down[p] \notin {"releasing", "released"}

\* What the watchdog counts on, what start() will let it count on, and what a
\* renewal's reply will.
FreshInv ==
    /\ \A p \in Procs : watch[p] # None /\ Keeps(p) => Lasts(p, held[p], watch[p] + Safety)
    /\ \A p \in Procs :
         pc[p] \in {"dropping", "dropped"} /\ Keeps(p) => Lasts(p, held[p], anchor[p] + Ttl)
    /\ \A r \in replies :
         r.ok /\ Keeps(r.proc) => Lasts(r.proc, r.token, r.sent + Ttl)

(* The inductive invariant: the row locks, the order of clock readings and *)
(* the order of startup keep every fact the watchdog relies on true        *)
(* through takeovers, lost replies, zombie renewals and restarts, whatever *)
(* drain does meanwhile.                                                   *)
LeaseInv ==
    /\ TypeOK /\ LockInv /\ ClockInv /\ TakerInv /\ ResetInv /\ TimerInv /\ FreshInv
    /\ WritesFenced /\ ReleasedStaysFree
=============================================================================
