---------------------------- MODULE OwnerBindings ----------------------------
(***************************************************************************)
(* Who may act for a channel's Planner (agent/active-owner.ts): the login  *)
(* that owns the channel in storage, the bindings a process has handed out *)
(* for it, and what ends them. Composed with the logins of LoginSessions,  *)
(* whose hooks (beforeRefresh, onRevoked) are wired to it in main.ts.      *)
(***************************************************************************)
EXTENDS LoginSessions

CONSTANT NoLogin

ASSUME OwnerAssumption == NoLogin \notin Logins

VARIABLES
    owner,       \* agent_state.owner_session_id of the channel
    gen,         \* agent_state.generation
    bindings,    \* #states
    epoch,       \* #channelEpochs
    revoked,     \* #revokedSessions
    rotated,     \* #revokedCredentials
    asked,       \* what a resolve in progress read: the generation and the epoch
    reset,       \* an owner reset in progress
    unheard,     \* generations whose owner was cleared and the bindings not told
    closed

agent == <<owner, gen, reset, unheard>>
local == <<bindings, epoch, revoked, rotated, closed>>
bvars == <<vars, owner, gen, bindings, epoch, revoked, rotated, asked, reset, unheard, closed>>

NoReset == [at |-> "none", login |-> NoLogin, gen |-> 0]

OwnerTypeOK ==
    /\ TypeOK
    /\ owner \in Logins \cup {NoLogin} /\ gen \in Nat
    /\ bindings \subseteq [login: Logins, rev: Revisions, gen: Nat \ {0}, epoch: Nat]
    /\ epoch \in Nat
    /\ revoked \subseteq Logins /\ rotated \subseteq Logins \X Revisions
    /\ asked \in [Tasks -> [gen: Nat, epoch: Nat]]
    /\ reset \in [at: {"none", "loaded", "cleared"}, login: Logins \cup {NoLogin}, gen: Nat]
    /\ unheard \subseteq Nat /\ closed \in BOOLEAN

OwnerInit ==
    /\ Init
    /\ owner = NoLogin /\ gen = 0 /\ bindings = {} /\ epoch = 0
    /\ revoked = {} /\ rotated = {}
    /\ asked = [t \in Tasks |-> [gen |-> 0, epoch |-> 0]]
    /\ reset = NoReset /\ unheard = {} /\ closed = FALSE

-----------------------------------------------------------------------------
(* What a step of the logins does to the bindings.                         *)

Ended    == {l \in Logins : revoking[l] = "none" /\ revoking'[l] = "callback"}
Rotating == {<<l, refresh'[l].held.rev>> :
                l \in {x \in Logins : refresh[x].at # "before" /\ refresh'[x].at = "before"}}

\* The timer of a binding fires EXPIRY_SKEW_MS before its access token or login ends.
Ran(b) == age'[b.login] >= 2 \/ b.login \in over'

\* Mutation: a rotation does not reach the bindings.
RevocationsNoRotation ==
    /\ revoked' = revoked \cup Ended
    /\ rotated' = rotated
    /\ bindings' = {b \in bindings : b.login \notin Ended /\ ~Ran(b)}
    /\ UNCHANGED <<epoch, closed>>

\* sessionRevoked and credentialsWillRotate, before their first await.
Revocations ==
    /\ revoked' = revoked \cup Ended
    /\ rotated' = rotated \cup Rotating
    /\ bindings' = {b \in bindings : /\ b.login \notin Ended
                                     /\ <<b.login, b.rev>> \notin Rotating
                                     /\ ~Ran(b)}
    /\ UNCHANGED <<epoch, closed>>

\* A login's row is deleted together with what it owns.
Hooks ==
    /\ Revocations
    /\ owner' = IF owner \in Logins /\ row'[owner] = NoRow THEN NoLogin ELSE owner
    /\ UNCHANGED <<gen, asked, reset, unheard>>

-----------------------------------------------------------------------------
(* The owner in storage.                                                   *)

\* claimAgentOwner: for a login that has a row, where no live login owns the channel.
Claim(l) ==
    /\ row[l] # NoRow /\ l \notin over /\ born[l] = "born" /\ Spend("claims")
    /\ owner = NoLogin \/ owner \in over
    /\ owner' = l /\ gen' = gen + 1
    /\ UNCHANGED <<store, mem, age, over, work, task, signedOut, local, asked, reset, unheard>>

\* The reset route: reads the owner, clears it if it is still the one read, and has
\* every binding of the channel revoked.
ResetLoad ==
    /\ reset.at = "none" /\ Spend("resets")
    /\ reset' = [at |-> "loaded", login |-> owner, gen |-> gen]
    /\ UNCHANGED <<store, mem, age, over, work, task, signedOut, local, asked, owner, gen, unheard>>

\* clearAgentOwner, guarded by the login and the generation.
Cleared(l, g) == IF owner = l /\ gen = g THEN NoLogin ELSE owner

ResetClear ==
    /\ reset.at = "loaded"
    /\ reset' = [reset EXCEPT !.at = "cleared"]
    /\ owner' = Cleared(reset.login, reset.gen)
    /\ UNCHANGED <<vars, local, asked, gen, unheard>>

\* The clear fails, or commits and its reply is lost: the route answers with the failure and
\* tells nobody.
ResetFails ==
    /\ reset.at = "loaded" /\ Fault
    /\ reset' = NoReset
    /\ owner' \in {owner, Cleared(reset.login, reset.gen)}
    /\ unheard' = IF owner' = owner THEN unheard ELSE unheard \cup {gen}
    /\ UNCHANGED <<store, mem, age, over, work, task, signedOut, local, asked, gen>>

\* The attachments (harness/remote/attachments.ts) clear an owner whose hold has ended or that
\* no hold is for, before another claims the channel. They tell the bindings nothing.
AttachmentClears ==
    /\ owner # NoLogin /\ Spend("resets")
    /\ owner' = NoLogin /\ unheard' = unheard \cup {gen}
    /\ UNCHANGED <<store, mem, age, over, work, task, signedOut, local, asked, gen, reset>>

\* revokeChannel.
ResetDone ==
    /\ reset.at = "cleared"
    /\ reset' = NoReset /\ epoch' = epoch + 1 /\ bindings' = {}
    /\ UNCHANGED <<vars, asked, owner, gen, unheard, revoked, rotated, closed>>

-----------------------------------------------------------------------------
(* resolve.                                                                *)

Bind(t) ==
    /\ Available(t) /\ t \in load.binders /\ ~closed
    /\ task' = [task EXCEPT ![t] = [Idle(task[t].login) EXCEPT !.kind = "bind", !.at = "agent"]]
    /\ asked' = [asked EXCEPT ![t] = [gen |-> 0, epoch |-> epoch]]
    /\ UNCHANGED <<store, mem, age, over, work, signedOut, load, agent, local>>

\* readAgent names no owner whose login is gone or expired.
Named == owner \in Logins /\ row[owner] # NoRow /\ owner \notin over

Resolvable == Named /\ owner \notin revoked /\ Live(owner)

BindRead(t) ==
    /\ task[t].at = "agent"
    /\ UNCHANGED <<store, age, over, restore, signedOut, load, agent>>
    /\ \/ ~Resolvable /\ Answer(t, task[t], "none") /\ UNCHANGED <<local, asked>>
       \/ /\ Resolvable /\ Fresh(t, [task[t] EXCEPT !.login = owner])
          /\ asked' = [asked EXCEPT ![t].gen = gen]
          /\ Revocations

\* The owner is resolved: its repository access is read with its current token.
BindUse(t) ==
    LET k == task[t]
    IN  /\ k.at = "resolved"
        /\ \/ /\ k.login \in revoked \cup over \/ ~Live(k.login)
              /\ Answer(t, k, "none")
           \/ /\ k.login \notin revoked \cup over /\ Live(k.login)
              /\ task' = [task EXCEPT ![t] = [k EXCEPT !.at = "operation", !.try = 1,
                                                       !.held = mem[k.login].rev]]
              /\ UNCHANGED <<mem, refresh, revoking, pending>>
        /\ UNCHANGED <<store, age, over, restore, signedOut, load, agent, local, asked>>

\* Sessions.token, without yielding.
Token(l, rev) == /\ refresh[l].at = "none" /\ revoking[l] = "none"
                 /\ Live(l) /\ mem[l].rev = rev /\ l \notin over /\ age[l] < 3

\* Admission answers; `inspect' must still find the revision the checks were made with.
BindAdmitted(t) ==
    LET k == task[t]
    IN  /\ k.at = "checked"
        /\ \/ Answer(t, k, "none") /\ Refusal
           \/ /\ Token(k.login, k.held) /\ age[k.login] < 2
              /\ task' = [task EXCEPT ![t].at = "latest"]
              /\ UNCHANGED <<mem, refresh, revoking, pending, load>>
           \/ /\ ~(Token(k.login, k.held) /\ age[k.login] < 2)
              /\ Answer(t, k, "none") /\ UNCHANGED load
        /\ UNCHANGED <<store, age, over, restore, signedOut, agent, local, asked>>

\* The owner is read a second time; the reply takes its time.
BindLatest(t) ==
    /\ task[t].at = "latest"
    /\ task' = [task EXCEPT ![t] =
                  IF Named /\ owner = @.login /\ gen = asked[t].gen
                  THEN [@ EXCEPT !.at = "read"] ELSE Done(@, "none")]
    /\ UNCHANGED <<store, mem, age, over, work, signedOut, load, agent, local, asked>>

\* Mutation: the channel's epoch is not compared.
StillBoundAnyEpoch(t) ==
    LET k == task[t]
    IN  /\ Token(k.login, k.held) /\ age[k.login] < 2 /\ ~closed
        /\ k.login \notin revoked /\ <<k.login, k.held>> \notin rotated

\* The last check, made without yielding: nothing revoked what the reads said.
StillBound(t) ==
    LET k == task[t]
    IN  /\ Token(k.login, k.held) /\ age[k.login] < 2 /\ ~closed
        /\ k.login \notin revoked /\ <<k.login, k.held>> \notin rotated
        /\ epoch = asked[t].epoch

BindFinal(t) ==
    LET k == task[t]
    IN  /\ k.at = "read"
        /\ task' = [task EXCEPT ![t] = Done(k, IF StillBound(t) THEN "ok" ELSE "none")]
        /\ bindings' = IF StillBound(t)
                       THEN bindings \cup {[login |-> k.login, rev |-> k.held,
                                            gen |-> asked[t].gen, epoch |-> asked[t].epoch]}
                       ELSE bindings
        /\ UNCHANGED <<store, mem, age, over, work, signedOut, load, agent, epoch, revoked,
                       rotated, closed, asked>>

Release(b) ==
    /\ bindings' = bindings \ {b}
    /\ UNCHANGED <<vars, agent, epoch, revoked, rotated, closed, asked>>

\* revokeAll, as the server stops.
RevokeAll ==
    /\ ~closed /\ Spend("stops") /\ closed' = TRUE /\ bindings' = {}
    /\ UNCHANGED <<store, mem, age, over, work, task, signedOut, agent, epoch, revoked, rotated, asked>>

\* The next process resets every owner before it accepts traffic.
OwnerRestart ==
    /\ Restart
    /\ owner' = NoLogin /\ bindings' = {} /\ epoch' = 0 /\ revoked' = {} /\ rotated' = {}
    /\ asked' = [t \in Tasks |-> [gen |-> 0, epoch |-> 0]]
    /\ reset' = NoReset /\ unheard' = {} /\ closed' = FALSE
    /\ UNCHANGED gen

-----------------------------------------------------------------------------
DelegateStep(l) == End(l) \/ RefreshSource(l)
BindStep(t)     == Bind(t) \/ BindUse(t) \/ BindAdmitted(t) \/ BindLatest(t) \/ BindFinal(t)

OwnerNext ==
    \/ \E t \in Tasks : Resume(t) /\ Hooks
    \/ Quiet /\ \E l \in Logins : (LoginStep(l) \/ DelegateStep(l)) /\ Hooks
    \/ Quiet /\ \E t \in load.tasks \ load.binders : Arrive(t) /\ Hooks
    \/ Quiet /\ \E t \in Tasks : (Called(t) \/ Operated(t)) /\ Hooks
    \/ Quiet /\ \E t \in Tasks : BindRead(t)
    \/ Quiet /\ \E t \in Tasks : BindStep(t)
    \/ Quiet /\ \E l \in Logins : Claim(l)
    \/ Quiet /\ (ResetLoad \/ ResetClear \/ ResetFails \/ ResetDone \/ AttachmentClears
                 \/ RevokeAll)
    \/ Quiet /\ \E b \in bindings : Release(b)
    \/ Quiet /\ OwnerRestart

OwnerSpec == OwnerInit /\ [][OwnerNext]_bvars

-----------------------------------------------------------------------------
\* What the event loop, the storage and GitHub always come back to; cleanup is a timer's.
Work(t) == \/ (Authorized(t) \/ Reject(t) \/ Operated(t)) /\ Hooks
           \/ BindRead(t) \/ BindUse(t) \/ BindAdmitted(t) \/ BindLatest(t) \/ BindFinal(t)

OwnerFairness ==
    /\ \A t \in Tasks : WF_bvars(Resume(t) /\ Hooks) /\ WF_bvars(Quiet /\ Work(t))
    /\ \A l \in Logins :
          /\ WF_bvars(Quiet /\ (RevokeDelete(l) \/ RevokeDeleted(l)) /\ Hooks)
          /\ WF_bvars(Quiet /\ (RefreshSource(l) \/ RefreshBefore(l) \/ RefreshGranted(l) \/ RefreshRefused(l)
                                \/ RefreshCommit(l) \/ RefreshReply(l) \/ RefreshOver(l)) /\ Hooks)
          /\ WF_bvars(Quiet /\ (RestoreGet(l) \/ RestoreUser(l) \/ RestoreMove(l)) /\ Hooks)
          /\ WF_bvars(Quiet /\ CleanPending(l) /\ Hooks)

OwnerLive == OwnerSpec /\ OwnerFairness

-----------------------------------------------------------------------------
\* The agents know of every revocation and of every credential that is being replaced, and
\* are bound by none of them.
HookInv ==
    /\ \A l \in Logins :
          /\ Blocked(l) => l \in revoked
          /\ refresh[l].at \in Renewing \ {"source"} => <<l, refresh[l].held.rev>> \in rotated
    /\ \A b \in bindings : b.login \notin revoked \cup over /\ <<b.login, b.rev>> \notin rotated

\* The owner in storage is a login with a row, and a claim there was.
ClaimInv == owner \in Logins => row[owner] # NoRow /\ born[owner] = "born" /\ gen > 0

\* What a resolve has read twice is so still, or something will keep it from binding.
ReadInv(t) ==
    /\ asked[t].epoch <= epoch
    /\ task[t].at = "read" =>
          /\ asked[t].gen > 0
          /\ \/ owner = task[t].login /\ gen = asked[t].gen
             \/ task[t].login \in revoked \cup over
             \/ asked[t].epoch < epoch \/ reset.at = "cleared" \/ asked[t].gen \in unheard

(* A login that is being revoked is in nobody's hands, memory holds the    *)
(* refresh token GitHub accepts, and the row never runs ahead of memory.   *)
OwnerInv ==
    /\ OwnerTypeOK /\ BlockedIsOut /\ NoConsumedToken /\ RowInStep
    /\ LoginInv /\ HookInv /\ ClaimInv /\ \A t \in Tasks : ReadInv(t)

(* A binding that is not aborted belongs to a login that is signed in, at  *)
(* the revision the login now has: neither a sign-out nor a rotation       *)
(* leaves one behind, however late the resolve that made it finished.      *)
BoundIsCurrent == \A b \in bindings : Live(b.login) /\ mem[b.login].rev = b.rev

(* A binding that is not aborted acts for the owner the channel has, in    *)
(* the generation it was claimed in, or a reset is on its way to it, or it *)
(* is of a generation that ended where nobody tells the bindings: by a     *)
(* reset whose clear was not answered or by an attachment. A reset that is *)
(* answered leaves no binding of the owner it cleared, and no resolve that *)
(* was under way makes one.                                                *)
BoundIsOwner ==
    \A b \in bindings : \/ owner = b.login /\ gen = b.gen
                        \/ reset.at = "cleared"
                        \/ b.gen \in unheard

(* Every request is answered, whatever it shares with others, and a row    *)
(* that could not be deleted is deleted in the end.                        *)
RequestsEnd ==
    /\ \A t \in Tasks : []<>(task[t].at = "idle")
    /\ \A l \in Logins : []<>(l \notin pending)

=============================================================================
