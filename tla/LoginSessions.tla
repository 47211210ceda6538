---------------------------- MODULE LoginSessions ----------------------------
(***************************************************************************)
(* The browser logins of the hosted server (auth/session.ts): the entries  *)
(* a process holds in memory, the encrypted rows behind them, the shared   *)
(* restores and refreshes, and the revocations that end a login.           *)
(*                                                                         *)
(* A step runs to the next await that leaves the process: a storage call,  *)
(* a call to GitHub, or another request's shared work. A request resumed   *)
(* by shared work that ended runs before anything else does.               *)
(***************************************************************************)
EXTENDS Naturals, FiniteSets

CONSTANTS
    Logins,       \* session ids
    Delegated,    \* the ones a paired machine holds: no cookie, no stored credentials
    Tasks,        \* requests that may be in the process at once
    Loads         \* bounds, one record per workload: the logins and the tasks in it, which
                  \* of the tasks may be a sign-out (outs) or resolve the owner (binders), the
                  \* revisions of a login, failed calls, lost replies and restarts (faults),
                  \* 401s and lost admissions (refusals), claims and resets of the channel,
                  \* and whether the server is stopped (stops)

ASSUME LoginsAssumption == Logins # {} /\ Delegated \subseteq Logins
LoadRecords == [logins: SUBSET Logins, tasks: SUBSET Tasks, outs: SUBSET Tasks,
                binders: SUBSET Tasks, revs: Nat \ {0}, faults: Nat, refusals: Nat, claims: Nat,
                resets: Nat, stops: Nat]

ASSUME LoadsAssumption == Loads \subseteq LoadRecords

VARIABLES
    born,      \* how far `issue' or `delegate' has come
    mem,       \* #sessions: the revision and the refresh token in memory
    row,       \* web_sessions, and whether it was stored under this origin
    age,       \* of the access token: 1 within REFRESH_EARLY_MS of its expiry,
               \* 2 within EXPIRY_SKEW_MS of it, 3 expired
    over,      \* logins past their absolute expiry
    restore,   \* #restores
    refresh,   \* #refreshes
    revoking,  \* #revocations
    pending,   \* #pendingDeletes
    task,      \* the requests
    github,    \* the refresh token GitHub accepts, one use each
    lost,      \* logins with a refresh or a revocation the process did not see through
    signedOut, \* the sign-outs answered with success, and whether their request had seen the
               \* row go, or assumed it of another's revocation that it found under way;
               \* dropped: that revocation died with the process
    load       \* what is left of the bounds

store == <<born, row, github, lost>>
work  == <<restore, refresh, revoking, pending>>
vars  == <<born, mem, row, age, over, restore, refresh, revoking, pending, task, github, lost,
           signedOut, load>>

None       == [rev |-> 0, tok |-> 0]
NoRow      == [rev |-> 0, tok |-> 0, here |-> TRUE]
NoRestore  == [at |-> "none", rev |-> 0, tok |-> 0, here |-> TRUE]
NoRefresh  == [at |-> "none", held |-> None, rejected |-> 0, grant |-> 0]
Idle(l)    == [kind |-> "none", login |-> l, at |-> "idle", held |-> 0, try |-> 1,
               rejected |-> 0, joined |-> FALSE, result |-> "none"]
Revisions  == 0 .. load.revs
Tokens     == Nat

SignOuts    == [login: Logins, row: {"seen", "assumed", "dropped"}]
Births      == {"new", "creating", "born", "never"}
Credentials == [rev: Revisions, tok: Tokens]
Rows        == [rev: Revisions, tok: Tokens, here: BOOLEAN]
Restores    == [at: {"none", "get", "user", "move"}, rev: Revisions, tok: Tokens, here: BOOLEAN]
Refreshes   == [at: {"none", "source", "before", "github", "commit", "reply", "missed", "revoke",
                     "ends"},
                held: Credentials, rejected: Revisions, grant: Tokens]
Requests    == [kind: {"none", "auth", "out", "bind"}, login: Logins,
                at: {"idle", "finding", "found", "rotating", "retry", "authorize", "resolved",
                     "operation", "checked", "rejecting", "revoking", "agent", "latest", "read"},
                held: Revisions, try: {1, 2}, rejected: Revisions, joined: BOOLEAN,
                result: {"none", "ok", "error"}]

TypeOK ==
    /\ born \in [Logins -> Births]
    /\ mem \in [Logins -> Credentials] /\ row \in [Logins -> Rows]
    /\ age \in [Logins -> 0 .. 3] /\ over \subseteq Logins
    /\ restore \in [Logins -> Restores] /\ refresh \in [Logins -> Refreshes]
    /\ revoking \in [Logins -> {"none", "callback", "delete"}]
    /\ pending \subseteq Logins
    /\ task \in [Tasks -> Requests]
    /\ github \in [Logins -> Tokens] /\ lost \subseteq Logins /\ signedOut \subseteq SignOuts
    /\ load \in LoadRecords

Init ==
    /\ born = [l \in Logins |-> "new"] /\ mem = [l \in Logins |-> None]
    /\ row = [l \in Logins |-> NoRow] /\ age = [l \in Logins |-> 0] /\ over = {}
    /\ restore = [l \in Logins |-> NoRestore] /\ refresh = [l \in Logins |-> NoRefresh]
    /\ revoking = [l \in Logins |-> "none"] /\ pending = {}
    /\ task = [t \in Tasks |-> Idle(CHOOSE l \in Logins : TRUE)]
    /\ github = [l \in Logins |-> 1] /\ lost = {} /\ signedOut = {}
    /\ load \in Loads

Spend(b) == load[b] > 0 /\ load' = [load EXCEPT ![b] = @ - 1]
Fault    == Spend("faults")
Refusal  == Spend("refusals")

Seen(l)    == [login |-> l, row |-> "seen"]
Assumed(l) == [login |-> l, row |-> "assumed"]

\* The process dies: what it still had to delete for a sign-out it has answered is forgotten.
Dropped(s) == IF s.row = "assumed" /\ s.login \in pending THEN [s EXCEPT !.row = "dropped"] ELSE s

-----------------------------------------------------------------------------
(* Sign-in. The row is committed before the entry is made.                 *)

IssueRow(l) ==
    /\ born[l] = "new" /\ l \in load.logins
    /\ born' = [born EXCEPT ![l] = "creating"]
    /\ row' = [row EXCEPT ![l] = [rev |-> 1, tok |-> 1, here |-> TRUE]]
    /\ UNCHANGED <<mem, age, over, work, task, github, lost, signedOut, load>>

Issue(l) ==
    /\ born[l] = "creating"
    /\ born' = [born EXCEPT ![l] = "born"]
    /\ mem' = [mem EXCEPT ![l] = [rev |-> 1, tok |-> 1]]
    /\ UNCHANGED <<row, age, over, work, task, github, lost, signedOut, load>>

Aged(l) ==
    /\ mem[l] # None /\ age[l] < 3 /\ mem[l].rev < load.revs
    /\ age' = [age EXCEPT ![l] = @ + 1]
    /\ UNCHANGED <<store, mem, over, work, task, signedOut, load>>

Expired(l) ==
    /\ born[l] = "born" /\ l \notin over
    /\ over' = over \cup {l}
    /\ UNCHANGED <<store, mem, age, work, task, signedOut, load>>

-----------------------------------------------------------------------------
(* Revocation.                                                             *)

Live(l) == mem[l] # None

\* #revokeExact and the start of #deleteRegistry: the entry leaves memory, and
\* the login is blocked until its row is known to be deleted.
RevokeNow(l) ==
    /\ mem' = [mem EXCEPT ![l] = None]
    /\ pending' = pending \cup {l}
    /\ revoking' = [revoking EXCEPT ![l] = "callback"]

\* Nothing is left of a request but its answer.
Done(k, result) == [Idle(k.login) EXCEPT !.result = result]

\* onRevoked has returned; the row's deletion is sent.
RevokeDelete(l) ==
    /\ revoking[l] = "callback"
    /\ revoking' = [revoking EXCEPT ![l] = "delete"]
    /\ UNCHANGED <<store, mem, age, over, restore, refresh, pending, task, signedOut, load>>

\* Whoever awaited the revocation of `l' goes on, with its error if it failed.
AfterRevoke(l, failed) ==
    /\ task' = [t \in Tasks |->
                  IF task[t].at # "revoking" \/ task[t].login # l THEN task[t]
                  ELSE Done(task[t], IF failed THEN "error"
                                     ELSE IF task[t].kind = "out" THEN "ok" ELSE "none")]
    /\ refresh' = [refresh EXCEPT ![l] = IF @.at = "revoke"
                                         THEN [@ EXCEPT !.at = "ends", !.held = None,
                                                        !.grant = IF failed THEN 1 ELSE 0]
                                         ELSE @]
    /\ signedOut' = IF ~failed /\ \E t \in Tasks : /\ task[t].at = "revoking"
                                                   /\ task[t].login = l
                                                   /\ task[t].kind = "out"
                    THEN signedOut \cup {Seen(l)} ELSE signedOut

RevokeDeleted(l) ==
    /\ revoking[l] = "delete"
    /\ revoking' = [revoking EXCEPT ![l] = "none"]
    /\ pending' = pending \ {l}
    /\ row' = [row EXCEPT ![l] = NoRow]
    /\ AfterRevoke(l, FALSE)
    /\ UNCHANGED <<born, mem, age, over, restore, github, lost, load>>

\* The deletion fails, before or after it committed.
RevokeFails(l) ==
    /\ revoking[l] = "delete" /\ Fault
    /\ revoking' = [revoking EXCEPT ![l] = "none"]
    /\ row' \in {row, [row EXCEPT ![l] = NoRow]}
    /\ AfterRevoke(l, TRUE)
    /\ UNCHANGED <<born, mem, age, over, restore, pending, github, lost>>

\* Mutation: cleanup looks only at the entries in memory.
CleanNothing(l) ==
    /\ l \in pending /\ Live(l)
    /\ pending' = pending \ {l} /\ row' = [row EXCEPT ![l] = NoRow]
    /\ UNCHANGED <<born, mem, age, over, restore, refresh, revoking, task, github, lost, signedOut,
                   load>>

\* cleanupExpired: the deletions that failed, the expired entries, the expired rows.
CleanPending(l) ==
    /\ l \in pending
    /\ pending' = pending \ {l} /\ row' = [row EXCEPT ![l] = NoRow]
    /\ UNCHANGED <<born, mem, age, over, restore, refresh, revoking, task, github, lost, signedOut,
                   load>>

CleanExpired(l) ==
    /\ l \in over /\ Live(l)
    /\ RevokeNow(l)
    /\ UNCHANGED <<store, age, over, restore, refresh, task, signedOut, load>>

CleanRows(l) ==
    /\ l \in over /\ row[l] # NoRow
    /\ row' = [row EXCEPT ![l] = NoRow]
    /\ UNCHANGED <<born, mem, age, over, work, task, github, lost, signedOut, load>>

\* end: a paired machine was revoked.
End(l) ==
    /\ l \in Delegated /\ Live(l)
    /\ RevokeNow(l)
    /\ UNCHANGED <<store, age, over, restore, refresh, task, signedOut, load>>

-----------------------------------------------------------------------------
(* Refresh: one at a time per login, shared by whoever asks meanwhile.     *)

\* What `k', an owner of the result of #rotate, does with it.
Rotated(k, rev) ==
    IF k.rejected = 0
    THEN IF rev = 0 THEN Done(k, "none")
         ELSE [k EXCEPT !.at = "authorize", !.held = rev, !.try = 1]
    ELSE IF rev = 0 \/ mem'[k.login].rev # rev THEN Done(k, "none")
         ELSE [k EXCEPT !.at = IF k.kind = "bind" /\ k.result = "ok" THEN "operation" ELSE "authorize",
                        !.held = rev, !.try = 2]

\* Mutation: every caller starts its own refresh.
RotateAlone(t, k, rejected) ==
    LET l == k.login
        q == [k EXCEPT !.at = "rotating", !.rejected = rejected, !.joined = FALSE]
    IN  /\ Live(l)
        /\ refresh' = [refresh EXCEPT ![l] =
                            [at |-> IF l \in Delegated THEN "source" ELSE "before",
                             held |-> mem[l], rejected |-> rejected, grant |-> 0]]
        /\ task' = [task EXCEPT ![t] = q]
        /\ UNCHANGED <<mem, revoking, pending>>

\* #rotate, and #rotateOnce up to its first await, for request `t' in state `k'.
\* `rejected' is the revision GitHub refused, 0 when the token is only old.
Rotate(t, k, rejected) ==
    LET l == k.login
        q == [k EXCEPT !.at = "rotating", !.rejected = rejected, !.joined = FALSE]
    IN  \/ /\ refresh[l].at # "none"
           /\ task' = [task EXCEPT ![t] = [q EXCEPT !.joined = TRUE]]
           /\ UNCHANGED <<mem, refresh, revoking, pending>>
        \/ /\ refresh[l].at = "none" /\ Live(l) /\ l \in over
           /\ RevokeNow(l)
           /\ refresh' = [refresh EXCEPT ![l] = [NoRefresh EXCEPT !.at = "revoke"]]
           /\ task' = [task EXCEPT ![t] = q]
        \/ /\ refresh[l].at = "none" /\ ~(Live(l) /\ l \in over)
           /\ \/ ~Live(l)
              \/ rejected # 0 /\ mem[l].rev # rejected
              \/ rejected = 0 /\ age[l] = 0
           /\ UNCHANGED <<mem, refresh, revoking, pending>>
           /\ task' = [task EXCEPT ![t] = Rotated(q, mem[l].rev)]
        \/ /\ refresh[l].at = "none" /\ Live(l) /\ l \notin over
           /\ IF rejected = 0 THEN age[l] > 0 ELSE mem[l].rev = rejected
           /\ refresh' = [refresh EXCEPT ![l] =
                            [at |-> IF l \in Delegated THEN "source" ELSE "before",
                             held |-> mem[l], rejected |-> rejected, grant |-> 0]]
           /\ task' = [task EXCEPT ![t] = q]
           /\ UNCHANGED <<mem, revoking, pending>>

\* Mutation: only the request that started the refresh is resumed.
EndsAlone(l, rev, failed) ==
    /\ refresh' = [refresh EXCEPT ![l] = NoRefresh]
    /\ task' = [t \in Tasks |->
                  IF task[t].at # "rotating" \/ task[t].login # l \/ task[t].joined THEN task[t]
                  ELSE IF failed THEN Done(task[t], "error") ELSE Rotated(task[t], rev)]

\* The refresh of `l' ends: with a revision (0 for none) or an error. A request that
\* joined it and was refused the revision it returns asks again.
Ends(l, rev, failed) ==
    /\ refresh' = [refresh EXCEPT ![l] = NoRefresh]
    /\ task' = [t \in Tasks |->
                  IF task[t].at # "rotating" \/ task[t].login # l THEN task[t]
                  ELSE IF failed THEN Done(task[t], "error")
                  ELSE IF /\ task[t].joined /\ task[t].rejected # 0
                          /\ rev # 0 /\ rev = task[t].rejected
                       THEN [task[t] EXCEPT !.at = "retry"]
                       ELSE Rotated(task[t], rev)]

Held(l) == mem[l] = refresh[l].held

\* The refresh stops because the login changed under it.
Overtaken(l) ==
    /\ ~Held(l)
    /\ UNCHANGED mem
    /\ Ends(l, mem[l].rev, FALSE)

\* #rotateOnce and #rotateDelegated revoke the login they hold.
RefreshRevokes(l) ==
    IF Held(l)
    THEN /\ RevokeNow(l)
         /\ refresh' = [refresh EXCEPT ![l].at = "revoke"]
         /\ UNCHANGED task
    ELSE /\ UNCHANGED <<mem, revoking, pending>>
         /\ Ends(l, mem[l].rev, FALSE)

Go(l, at) ==
    /\ Held(l)
    /\ refresh' = [refresh EXCEPT ![l].at = at]
    /\ UNCHANGED <<mem, task>>

\* Mutation: the replacement counts the revision it was stored as once more.
InstallTwice(l, tok) ==
    /\ mem' = [mem EXCEPT ![l] = [rev |-> refresh[l].held.rev + 2, tok |-> tok]]
    /\ age' = [age EXCEPT ![l] = 0]
    /\ Ends(l, refresh[l].held.rev + 2, FALSE)

\* The replacement is published to memory, and to whoever awaits it.
Install(l, tok) ==
    /\ mem' = [mem EXCEPT ![l] = [rev |-> refresh[l].held.rev + 1, tok |-> tok]]
    /\ age' = [age EXCEPT ![l] = 0]
    /\ Ends(l, refresh[l].held.rev + 1, FALSE)

\* beforeRefresh has returned: the agents that used the old credentials are reset.
RefreshBefore(l) ==
    /\ refresh[l].at = "before"
    /\ \/ Overtaken(l) /\ UNCHANGED age
       \/ l \notin Delegated /\ Go(l, "github") /\ UNCHANGED age
       \/ l \in Delegated /\ Held(l) /\ Install(l, refresh[l].grant)
    /\ UNCHANGED <<store, over, restore, revoking, pending, signedOut, load>>

\* A delegated login's source answers: the token it has, or a newer one.
RefreshSource(l) ==
    /\ refresh[l].at = "source"
    /\ \/ Overtaken(l)
       \/ Held(l) /\ UNCHANGED mem /\ Ends(l, mem[l].rev, FALSE)
       \/ /\ Held(l) /\ UNCHANGED <<mem, task>>
          /\ refresh' = [refresh EXCEPT ![l].at = "before", ![l].grant = refresh[l].held.tok + 1]
    /\ UNCHANGED <<store, age, over, restore, revoking, pending, signedOut, load>>

\* GitHub accepts the refresh token, once.
RefreshGranted(l) ==
    /\ refresh[l].at = "github" /\ refresh[l].held.tok = github[l]
    /\ github' = [github EXCEPT ![l] = @ + 1]
    /\ \/ Overtaken(l) /\ UNCHANGED <<revoking, pending>>
       \/ Held(l) /\ l \in over /\ RefreshRevokes(l)
       \/ /\ Held(l) /\ l \notin over
          /\ refresh' = [refresh EXCEPT ![l].at = "commit", ![l].grant = github[l] + 1]
          /\ UNCHANGED <<mem, task, revoking, pending>>
    /\ UNCHANGED <<born, row, age, over, restore, lost, signedOut, load>>

\* A terminal answer: the refresh token was used before, or the source is revoked.
RefreshRefused(l) ==
    /\ \/ refresh[l].at = "github" /\ refresh[l].held.tok # github[l] /\ UNCHANGED load
       \/ refresh[l].at = "source" /\ Refusal
    /\ RefreshRevokes(l)
    /\ UNCHANGED <<store, age, over, restore, signedOut>>

\* Any other failure, a lost reply among them: the entry stays, and serves while its
\* access token does, unless that token is the one refused.
RefreshFails(l) ==
    /\ refresh[l].at \in {"github", "source"} /\ Fault
    /\ \/ UNCHANGED <<github, lost>>
       \/ /\ refresh[l].at = "github" /\ refresh[l].held.tok = github[l]
          /\ github' = [github EXCEPT ![l] = @ + 1] /\ lost' = lost \cup {l}
    /\ UNCHANGED mem
    /\ IF /\ refresh[l].rejected = 0 /\ age[l] < 3
          /\ Held(l) \/ refresh[l].at = "source"
       THEN Ends(l, refresh[l].held.rev, FALSE) ELSE Ends(l, 0, TRUE)
    /\ UNCHANGED <<born, row, age, over, restore, revoking, pending, signedOut>>

\* storage.sessions.rotate commits if the row has the revision the refresh started from.
RefreshCommit(l) ==
    /\ refresh[l].at = "commit"
    /\ IF row[l].rev = refresh[l].held.rev
       THEN /\ row' = [row EXCEPT ![l] = [rev |-> @.rev + 1, tok |-> refresh[l].grant, here |-> TRUE]]
            /\ refresh' = [refresh EXCEPT ![l].at = "reply"]
       ELSE /\ UNCHANGED row
            /\ refresh' = [refresh EXCEPT ![l].at = "missed"]
    /\ UNCHANGED <<born, mem, age, over, restore, revoking, pending, task, github, lost, signedOut,
                   load>>

\* The replacement is published, or dropped with the entry when no row took it.
RefreshReply(l) ==
    /\ \/ refresh[l].at = "reply" /\ Overtaken(l) /\ UNCHANGED age
       \/ refresh[l].at = "reply" /\ Held(l) /\ Install(l, refresh[l].grant)
       \/ /\ refresh[l].at = "missed"
          /\ mem' = IF Held(l) THEN [mem EXCEPT ![l] = None] ELSE mem
          /\ Ends(l, 0, FALSE) /\ UNCHANGED age
    /\ UNCHANGED <<store, over, restore, revoking, pending, signedOut, load>>

\* Mutation: the entry with the consumed token stays.
CommitFailsKept(l) ==
    /\ refresh[l].at \in {"commit", "reply"} /\ Fault
    /\ UNCHANGED <<mem, revoking, pending>>
    /\ Ends(l, 0, TRUE)
    /\ UNCHANGED <<store, age, over, restore, signedOut>>

\* The write fails, committed or not: the login is revoked.
CommitFails(l) ==
    /\ refresh[l].at \in {"commit", "reply"} /\ Fault
    /\ IF Held(l) THEN RefreshRevokes(l)
       ELSE UNCHANGED <<mem, revoking, pending>> /\ Ends(l, mem[l].rev, FALSE)
    /\ UNCHANGED <<store, age, over, restore, signedOut>>

\* The revocation a refresh awaited is over.
RefreshOver(l) ==
    /\ refresh[l].at = "ends"
    /\ UNCHANGED mem
    /\ Ends(l, mem[l].rev, refresh[l].grant = 1)
    /\ UNCHANGED <<store, age, over, restore, revoking, pending, signedOut, load>>

-----------------------------------------------------------------------------
(* Requests.                                                               *)

\* #resolve up to its first await, for request `t' in state `k', whose login is live.
Fresh(t, k) ==
    LET l == k.login
    IN  \/ /\ l \in over
           /\ RevokeNow(l)
           /\ task' = [task EXCEPT ![t] = [k EXCEPT !.at = "revoking"]]
           /\ UNCHANGED refresh
        \/ /\ l \notin over /\ age[l] = 0
           /\ task' = [task EXCEPT ![t] = [k EXCEPT !.at = "authorize", !.held = mem[l].rev,
                                                    !.try = 1, !.rejected = 0]]
           /\ UNCHANGED <<mem, refresh, revoking, pending>>
        \/ l \notin over /\ age[l] > 0 /\ Rotate(t, k, 0)

\* The entry the request holds was replaced: #resolve starts again, if there is another.
FreshAgain(t, k) ==
    IF Live(k.login) THEN Fresh(t, k)
    ELSE /\ task' = [task EXCEPT ![t] = Done(k, "none")]
         /\ UNCHANGED <<mem, refresh, revoking, pending>>

\* #revokeExact of the entry request `t' holds, which it then awaits.
RevokeAwait(t, k) ==
    /\ RevokeNow(k.login)
    /\ task' = [task EXCEPT ![t] = [k EXCEPT !.at = "revoking"]]
    /\ UNCHANGED refresh

\* Mutation: a login whose row could not be deleted is looked up like any other.
BlockedWhileRevoking(l) == revoking[l] # "none"

Blocked(l)  == l \in pending \/ revoking[l] # "none"
Quiet       == \A t \in Tasks : task[t].at \notin {"found", "retry"}
Available(t) == task[t].at = "idle"

Answer(t, k, result) ==
    /\ task' = [task EXCEPT ![t] = Done(k, result)]
    /\ UNCHANGED <<mem, refresh, revoking, pending>>

\* #find for a login that is not in memory: one restore, shared.
Find(t, k) ==
    /\ task' = [task EXCEPT ![t] = [k EXCEPT !.at = "finding"]]
    /\ restore' = [restore EXCEPT ![k.login] = IF @.at = "none" THEN [@ EXCEPT !.at = "get"] ELSE @]
    /\ UNCHANGED <<mem, refresh, revoking, pending>>

Authenticate(t, l) ==
    LET k == [Idle(l) EXCEPT !.kind = "auth"]
    IN  /\ Available(t) /\ born[l] = "born" /\ l \notin Delegated
        /\ \/ (Blocked(l) \/ (Live(l) /\ l \in over)) /\ Answer(t, k, "none") /\ UNCHANGED restore
           \/ ~Blocked(l) /\ Live(l) /\ l \notin over /\ Fresh(t, k) /\ UNCHANGED restore
           \/ ~Blocked(l) /\ ~Live(l) /\ Find(t, k)
        /\ UNCHANGED <<store, age, over, signedOut, load>>

\* Mutation: the sign-out answers once memory is clear.
SignOutEarly(t, l) ==
    LET k == [Idle(l) EXCEPT !.kind = "out"]
    IN  /\ Available(t) /\ t \in load.outs /\ born[l] = "born" /\ l \notin Delegated
        /\ Live(l) /\ RevokeNow(l)
        /\ task' = [task EXCEPT ![t] = Done(k, "ok")] /\ signedOut' = signedOut \cup {Seen(l)}
        /\ UNCHANGED <<store, age, over, restore, refresh, load>>

\* revoke: retries a deletion that failed, or finds the entry and revokes it.
SignOut(t, l) ==
    LET k == [Idle(l) EXCEPT !.kind = "out"]
    IN  /\ Available(t) /\ t \in load.outs /\ born[l] = "born" /\ l \notin Delegated
        /\ \/ /\ l \in pending
              /\ task' = [task EXCEPT ![t] = [k EXCEPT !.at = "revoking"]]
              /\ revoking' = [revoking EXCEPT ![l] = IF @ = "none" THEN "callback" ELSE @]
              /\ UNCHANGED <<mem, restore, refresh, pending, signedOut>>
           \/ /\ l \notin pending /\ revoking[l] # "none"
              /\ Answer(t, k, "ok") /\ signedOut' = signedOut \cup {Seen(l)} /\ UNCHANGED restore
           \/ ~Blocked(l) /\ Live(l) /\ RevokeAwait(t, k) /\ UNCHANGED <<restore, signedOut>>
           \/ ~Blocked(l) /\ ~Live(l) /\ Find(t, k) /\ UNCHANGED signedOut
        /\ UNCHANGED <<store, age, over, load>>

\* The restore of `l' ends: every request that shares it is resumed, or has nothing.
Found(l, rev) ==
    /\ restore' = [restore EXCEPT ![l] = NoRestore]
    /\ task' = [t \in Tasks |->
                  IF task[t].at # "finding" \/ task[t].login # l THEN task[t]
                  ELSE IF rev # 0 THEN [task[t] EXCEPT !.at = "found", !.held = rev]
                  ELSE Done(task[t], IF task[t].kind = "out" THEN "ok" ELSE "none")]
    /\ signedOut' = IF rev = 0 /\ \E t \in Tasks : /\ task[t].at = "finding" /\ task[t].login = l
                                                   /\ task[t].kind = "out"
                    THEN signedOut \cup {Seen(l)} ELSE signedOut

RestoreGet(l) ==
    /\ restore[l].at = "get"
    /\ IF row[l] = NoRow \/ l \in over THEN Found(l, 0)
       ELSE /\ restore' = [restore EXCEPT ![l] = [at |-> "user", rev |-> row[l].rev,
                                                  tok |-> row[l].tok, here |-> row[l].here]]
            /\ UNCHANGED <<task, signedOut>>
    /\ UNCHANGED <<store, mem, age, over, refresh, revoking, pending, load>>

\* The stored access token may be of any age.
Restored(l, rev) ==
    /\ mem' = [mem EXCEPT ![l] = [rev |-> rev, tok |-> restore[l].tok]]
    /\ \E a \in 0 .. 3 : (rev = load.revs => a = 0) /\ age' = [age EXCEPT ![l] = a]
    /\ Found(l, rev)

RestoreUser(l) ==
    /\ restore[l].at = "user"
    /\ \/ Blocked(l) /\ Found(l, 0) /\ UNCHANGED <<mem, age>>
       \/ ~Blocked(l) /\ restore[l].here /\ Restored(l, restore[l].rev)
       \/ /\ ~Blocked(l) /\ ~restore[l].here
          /\ restore' = [restore EXCEPT ![l].at = "move"]
          /\ UNCHANGED <<mem, age, task, signedOut>>
    /\ UNCHANGED <<store, over, refresh, revoking, pending, load>>

\* A row stored under a previous origin is stored again as the next revision.
RestoreMove(l) ==
    /\ restore[l].at = "move"
    /\ \/ /\ row[l].rev = restore[l].rev
          /\ row' = [row EXCEPT ![l].rev = @ + 1, ![l].here = TRUE]
          /\ \/ Blocked(l) /\ Found(l, 0) /\ UNCHANGED <<mem, age>>
             \/ ~Blocked(l) /\ Restored(l, restore[l].rev + 1)
       \/ /\ row[l].rev # restore[l].rev
          /\ restore' = [restore EXCEPT ![l].at = "get"]
          /\ UNCHANGED <<mem, age, row, task, signedOut>>
    /\ UNCHANGED <<born, over, refresh, revoking, pending, github, lost, load>>

\* A storage call of the restore fails.
RestoreFails(l) ==
    /\ restore[l].at # "none" /\ Fault
    /\ restore' = [restore EXCEPT ![l] = NoRestore]
    /\ task' = [t \in Tasks |-> IF task[t].at = "finding" /\ task[t].login = l
                                THEN Done(task[t], "error") ELSE task[t]]
    /\ UNCHANGED <<store, mem, age, over, refresh, revoking, pending, signedOut>>

\* A request goes on with the entry it was given. A sign-out whose entry another one has
\* taken out of memory meanwhile is answered as if its own revocation were over.
Resume(t) ==
    LET k == task[t]
        l == k.login
    IN  /\ \/ /\ k.at = "found" /\ k.kind = "auth"
              /\ IF l \in over THEN Answer(t, k, "none") ELSE FreshAgain(t, k)
              /\ UNCHANGED signedOut
           \/ /\ k.at = "found" /\ k.kind = "out" /\ mem[l].rev = k.held
              /\ RevokeAwait(t, k) /\ UNCHANGED signedOut
           \/ /\ k.at = "found" /\ k.kind = "out" /\ mem[l].rev # k.held
              /\ Answer(t, k, "ok") /\ signedOut' = signedOut \cup {Assumed(l)}
           \/ k.at = "retry" /\ Rotate(t, k, k.rejected) /\ UNCHANGED signedOut
        /\ UNCHANGED <<store, age, over, restore, load>>

\* Whoever asked has its login: a request is answered, a binding goes on.
Resolve(t, k) ==
    IF k.kind = "auth" THEN Answer(t, k, "ok")
    ELSE /\ task' = [task EXCEPT ![t] = [k EXCEPT !.at = "resolved", !.result = "ok"]]
         /\ UNCHANGED <<mem, refresh, revoking, pending>>

\* authorize returned: admitted, or not.
Authorized(t) ==
    LET k == task[t]
        l == k.login
    IN  /\ k.at = "authorize"
        /\ \/ mem[l].rev # k.held /\ FreshAgain(t, k) /\ UNCHANGED load
           \/ mem[l].rev = k.held /\ Resolve(t, k) /\ UNCHANGED load
           \/ mem[l].rev = k.held /\ Refusal /\ RevokeAwait(t, k)
        /\ UNCHANGED <<store, age, over, restore, signedOut>>

\* The operation `use' runs against GitHub returned.
Operated(t) ==
    LET k == task[t]
    IN  /\ k.at = "operation"
        /\ \/ task' = [task EXCEPT ![t] = [k EXCEPT !.at = "checked"]] /\ UNCHANGED load
           \/ task' = [task EXCEPT ![t] = Done(k, "none")] /\ Refusal
        /\ UNCHANGED <<store, mem, age, over, work, signedOut>>

\* GitHub answers 401: the first time the credentials are refreshed, the second time
\* the login is rejected.
Refused(t) ==
    LET k == task[t]
    IN  /\ k.at \in {"authorize", "operation"} /\ k.held < load.revs /\ Refusal
        /\ \/ k.try = 1 /\ Rotate(t, k, k.held)
           \/ /\ k.try = 2
              /\ task' = [task EXCEPT ![t] = [k EXCEPT !.at = "rejecting"]]
              /\ UNCHANGED <<mem, refresh, revoking, pending>>
        /\ UNCHANGED <<store, age, over, restore, signedOut>>

\* Any other failure is the caller's.
CallFails(t) ==
    /\ task[t].at \in {"authorize", "operation"} /\ Fault
    /\ Answer(t, task[t], "error")
    /\ UNCHANGED <<store, age, over, restore, signedOut>>

\* #reject: awaits a refresh in progress, and revokes only the revision refused.
Reject(t) ==
    LET k == task[t]
        l == k.login
    IN  /\ k.at = "rejecting" /\ refresh[l].at = "none"
        /\ \/ ~Live(l) /\ Answer(t, k, "none")
           \/ Live(l) /\ mem[l].rev = k.held /\ RevokeAwait(t, k)
           \/ /\ Live(l) /\ mem[l].rev # k.held
              /\ IF k.result = "ok" THEN Answer(t, k, "error") ELSE Fresh(t, k)
        /\ UNCHANGED <<store, age, over, restore, signedOut, load>>

\* The process dies. The next one, which holds the writer lease, deletes the rows
\* without credentials and the expired ones; the deployment may have moved.
Restart ==
    /\ Fault
    /\ \E moved \in BOOLEAN :
          row' = [l \in Logins |->
                    IF l \in Delegated \cup over THEN NoRow
                    ELSE IF moved /\ row[l].rev \in 1 .. load.revs - 1
                         THEN [row[l] EXCEPT !.here = FALSE] ELSE row[l]]
    /\ born' = [l \in Logins |-> IF born[l] = "creating" THEN "never" ELSE born[l]]
    /\ mem' = [l \in Logins |-> None] /\ age' = [l \in Logins |-> 0]
    /\ restore' = [l \in Logins |-> NoRestore] /\ refresh' = [l \in Logins |-> NoRefresh]
    /\ revoking' = [l \in Logins |-> "none"] /\ pending' = {}
    /\ task' = [t \in Tasks |-> Idle(task[t].login)]
    /\ \E used \in SUBSET {l \in Logins : /\ refresh[l].at = "github"
                                           /\ refresh[l].held.tok = github[l]} :
          /\ github' = [l \in Logins |-> IF l \in used THEN github[l] + 1 ELSE github[l]]
          /\ lost' = lost \cup used \cup {l \in Logins : refresh[l].at = "commit" \/ Blocked(l)}
    /\ signedOut' = {Dropped(s) : s \in signedOut}
    /\ UNCHANGED over

-----------------------------------------------------------------------------
LoginStep(l) ==
    \/ IssueRow(l) \/ Issue(l) \/ Aged(l) \/ Expired(l)
    \/ RevokeDelete(l) \/ RevokeDeleted(l) \/ RevokeFails(l)
    \/ CleanPending(l) \/ CleanExpired(l) \/ CleanRows(l)
    \/ RefreshBefore(l) \/ RefreshGranted(l) \/ RefreshRefused(l) \/ RefreshFails(l)
    \/ RefreshCommit(l) \/ RefreshReply(l) \/ CommitFails(l) \/ RefreshOver(l)
    \/ RestoreGet(l) \/ RestoreUser(l) \/ RestoreMove(l) \/ RestoreFails(l)

Arrive(t)   == \E l \in Logins : Authenticate(t, l) \/ SignOut(t, l)
Called(t)   == Authorized(t) \/ Refused(t) \/ CallFails(t) \/ Reject(t)

-----------------------------------------------------------------------------
\* Nobody has the login, and no row is left to restore it from.
SignedOff(l) == ~Live(l) /\ (row[l] = NoRow \/ l \in over)

(* What the code keeps to, however many sign-outs there are. One that has  *)
(* seen the row go is final: not a request that was already looking the    *)
(* login up, not a refresh that was in flight, not the next process brings *)
(* it back. One that took another's word leaves the login gone, or blocked *)
(* until its row is deleted; only a process that dies before the deletion  *)
(* leaves the row to be restored. docs/authentication.md:403 promises more *)
(* (the row is deleted before success is reported): a second sign-out that *)
(* shares a restore with the first does not wait for the first's deletion. *)
SignedOutStaysOut ==
    \A s \in signedOut :
        \/ SignedOff(s.login)
        \/ s.row = "assumed" /\ ~Live(s.login) /\ s.login \in pending
        \/ s.row = "dropped"

(* A login that is being revoked, or whose row could not be deleted yet,   *)
(* is in nobody's hands: no restore puts it back meanwhile.                *)
BlockedIsOut == \A l \in Logins : Live(l) => l \notin pending /\ revoking[l] = "none"

(* Between refreshes memory holds the refresh token GitHub accepts: no     *)
(* token is spent twice, and a token whose replacement could not be stored *)
(* is not kept. Only a lost reply or a process that dies meanwhile breaks  *)
(* it.                                                                     *)
NoConsumedToken ==
    \A l \in Logins \ (lost \cup Delegated) :
        Live(l) /\ refresh[l].at = "none" => mem[l].tok = github[l]

(* The row is never ahead of the entry in memory, except for the time it   *)
(* takes the reply to a write to arrive: a process that dies and restores  *)
(* the login has the credentials the last one used.                        *)
RowInStep ==
    \A l \in Logins \ Delegated :
        Live(l) /\ refresh[l].at # "reply" /\ row[l] # NoRow =>
            row[l].rev = mem[l].rev /\ row[l].tok = mem[l].tok

-----------------------------------------------------------------------------
(* Why they hold.                                                          *)

\* Credentials count their revisions from one, and none of the last revision gets old.
RevisionInv(l) ==
    /\ Live(l) => mem[l].rev > 0 /\ (age[l] > 0 => mem[l].rev < load.revs)
    /\ row[l] # NoRow => row[l].rev > 0 /\ (row[l].here \/ row[l].rev < load.revs)

\* A login whose sign-in has not come to an end is nowhere but in its row.
UnbornInv(l) ==
    born[l] # "born" =>
        /\ ~Live(l) /\ ~Blocked(l) /\ restore[l].at = "none" /\ refresh[l].at = "none"
        /\ age[l] = 0 /\ l \notin over
        /\ born[l] = "creating" => row[l].rev = 1 /\ row[l].tok = 1 /\ github[l] = 1
        /\ born[l] = "new" => github[l] = 1

\* A revocation in progress has its row's deletion still to come, or behind it.
RevokingInv(l) == revoking[l] # "none" => l \in pending \/ row[l] = NoRow

\* A login is restored only while it is neither in memory nor being revoked, and a row that
\* was read is as it was read, or gone.
RestoreInv(l) ==
    LET r == restore[l]
    IN  /\ r.at # "none" =>
              /\ l \notin Delegated /\ ~Live(l) /\ ~Blocked(l)
              /\ refresh[l].at = "none" \/ row[l] = NoRow
        /\ r.at \in {"user", "move"} =>
              /\ refresh[l].at = "none" /\ r.rev > 0
              /\ r.here \/ r.rev < load.revs
              /\ row[l] # NoRow => row[l].rev = r.rev /\ row[l].tok = r.tok
        /\ r.at = "move" => ~r.here

Renewing == {"source", "before", "github", "commit", "reply", "missed"}

\* The login is gone and no restore can bring it back.
Gone(l) == ~Live(l) /\ (Blocked(l) \/ row[l] = NoRow)

\* While a refresh is on its way the login it holds is in memory, or gone.
RefreshInv(l) ==
    LET r == refresh[l]
    IN  /\ r.at \in Renewing => r.held.rev > 0 /\ r.held.rev < load.revs
        /\ r.at \in Renewing /\ ~Held(l) => Gone(l)
        /\ r.at \in {"revoke", "ends"} => Gone(l)
        /\ r.at = "source" => l \in Delegated
        /\ r.at \in {"github", "commit", "reply", "missed"} => l \notin Delegated
        /\ r.at = "missed" => row[l] = NoRow

\* What the row of a browser's login has while its refresh is on its way.
RowInv(l) ==
    LET r == refresh[l]
    IN  l \notin Delegated /\ row[l] # NoRow =>
          /\ r.at \in {"before", "github", "commit"} =>
                row[l].rev = r.held.rev /\ row[l].tok = r.held.tok
          /\ r.at = "reply" => row[l].rev = r.held.rev + 1 /\ row[l].tok = r.grant

\* Where the refresh token GitHub accepts is kept, as long as no reply was lost: in memory, in
\* the row of a login that may be restored, in a restore that has read it, in a refresh that
\* was granted it.
TokenInv(l) ==
    l \notin lost \cup Delegated =>
        /\ Live(l) /\ refresh[l].at \in {"none", "before", "github"} => mem[l].tok = github[l]
        /\ ~Live(l) /\ ~Blocked(l) /\ row[l] # NoRow => row[l].tok = github[l]
        /\ restore[l].at \in {"user", "move"} => restore[l].tok = github[l]
        /\ refresh[l].at \in {"commit", "reply"} => refresh[l].grant = github[l]

\* A request is about a login that was born, names a revision there was, and has a
\* refresh made only of one that has a successor.
Fit(k) ==
    /\ k.at \notin {"idle", "agent"} => born[k.login] = "born"
    /\ k.at \in {"found", "authorize"} => k.held > 0
    /\ k.at \in {"rotating", "retry"} /\ k.rejected # 0 => k.rejected < load.revs

LoginInv ==
    /\ \A l \in Logins :
          /\ RevisionInv(l) /\ UnbornInv(l) /\ RevokingInv(l) /\ RestoreInv(l)
          /\ RefreshInv(l) /\ RowInv(l) /\ TokenInv(l)
    /\ \A t \in Tasks : Fit(task[t])

=============================================================================
