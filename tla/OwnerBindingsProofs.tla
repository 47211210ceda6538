------------------------ MODULE OwnerBindingsProofs ------------------------
(***************************************************************************)
(* The logins and the bindings of the Planner's owner, for any logins,     *)
(* requests and workloads.  A step of the server changes what is known of  *)
(* each login in one of a few ways (Move), and answers or moves on some    *)
(* requests (TaskStep); that is shown of each action once.  The logins'    *)
(* part of the invariant follows for each move, and so does what the       *)
(* owner's part needs to know of it (Hooked).                              *)
(***************************************************************************)
EXTENDS OwnerBindings, TLAPS

-----------------------------------------------------------------------------
(* What is known of one login.                                             *)

OutInv(l)  == Live(l) => l \notin pending /\ revoking[l] = "none"
StepInv(l) ==
    l \notin Delegated =>
        (Live(l) /\ refresh[l].at # "reply" /\ row[l] # NoRow =>
            row[l].rev = mem[l].rev /\ row[l].tok = mem[l].tok)

LoginPart(l) ==
    /\ OutInv(l) /\ StepInv(l) /\ RevisionInv(l) /\ UnbornInv(l) /\ RevokingInv(l)
    /\ RestoreInv(l) /\ RefreshInv(l) /\ RowInv(l) /\ TokenInv(l)

LoginFacts == TypeOK /\ (\A l \in Logins : LoginPart(l)) /\ \A t \in Tasks : Fit(task[t])

-----------------------------------------------------------------------------
(* The ways a step may change what is known of a login.                    *)

KeptStore(l) ==
    /\ born'[l] = born[l] /\ row'[l] = row[l] /\ github'[l] = github[l]
    /\ l \in lost' <=> l \in lost
KeptEntry(l)    == mem'[l] = mem[l] /\ age'[l] = age[l]
KeptOver(l)     == l \in over' <=> l \in over
KeptRestore(l)  == restore'[l] = restore[l]
KeptRefresh(l)  == refresh'[l] = refresh[l]
KeptRevoking(l) == revoking'[l] = revoking[l] /\ (l \in pending' <=> l \in pending)

Rests(l) ==
    /\ KeptStore(l) /\ KeptEntry(l) /\ KeptOver(l) /\ KeptRestore(l) /\ KeptRefresh(l)
    /\ KeptRevoking(l)

\* A sign-in.
Signs(l) ==
    /\ KeptOver(l) /\ KeptRestore(l) /\ KeptRefresh(l) /\ KeptRevoking(l)
    /\ age'[l] = age[l] /\ github'[l] = github[l] /\ (l \in lost' <=> l \in lost)
    /\ \/ /\ born[l] = "new" /\ born'[l] = "creating" /\ mem'[l] = mem[l]
          /\ row'[l] = [rev |-> 1, tok |-> 1, here |-> TRUE]
       \/ /\ born[l] = "creating" /\ born'[l] = "born" /\ row'[l] = row[l]
          /\ mem'[l] = [rev |-> 1, tok |-> 1]

\* Time goes by.
Ages(l) ==
    /\ KeptStore(l) /\ KeptRestore(l) /\ KeptRefresh(l) /\ KeptRevoking(l) /\ mem'[l] = mem[l]
    /\ \/ Live(l) /\ mem[l].rev < load.revs /\ KeptOver(l)
       \/ born[l] = "born" /\ l \in over' /\ age'[l] = age[l]

\* The entry leaves memory, and with it a refresh that holds it.
Revoked(l) ==
    /\ born'[l] = born[l] /\ row'[l] = row[l] /\ (l \in lost' <=> l \in lost)
    /\ KeptOver(l) /\ KeptRestore(l) /\ age'[l] = age[l]
    /\ Live(l) /\ mem'[l] = None /\ l \in pending' /\ revoking'[l] = "callback"
    /\ \/ KeptRefresh(l) /\ github'[l] = github[l]
       \/ /\ refresh[l].at = "none" \/ (refresh[l].at \in Renewing /\ Held(l))
          /\ refresh'[l].at = "revoke"

\* The deletion of the row is sent, sent again, answered, or fails.
Deletes(l) ==
    /\ born'[l] = born[l] /\ github'[l] = github[l] /\ (l \in lost' <=> l \in lost)
    /\ KeptEntry(l) /\ KeptOver(l) /\ KeptRestore(l)
    /\ KeptRefresh(l) \/ (refresh[l].at = "revoke" /\ refresh'[l].at = "ends")
    /\ \/ /\ revoking[l] = "callback" /\ revoking'[l] = "delete" /\ row'[l] = row[l]
          /\ l \in pending' <=> l \in pending
       \/ /\ revoking[l] = "delete" /\ revoking'[l] = "none" /\ row'[l] = NoRow
          /\ l \notin pending'
       \/ /\ revoking[l] = "delete" /\ revoking'[l] = "none" /\ row'[l] \in {row[l], NoRow}
          /\ l \in pending' <=> l \in pending
       \/ /\ l \in pending /\ l \notin pending' /\ row'[l] = NoRow /\ revoking'[l] = revoking[l]
       \/ /\ l \in over /\ row'[l] = NoRow /\ KeptRevoking(l)
       \/ /\ l \in pending /\ l \in pending' /\ revoking[l] = "none"
          /\ revoking'[l] = "callback" /\ row'[l] = row[l]

\* A refresh of the entry starts.
Starts(l) ==
    /\ KeptStore(l) /\ KeptEntry(l) /\ KeptOver(l) /\ KeptRestore(l) /\ KeptRevoking(l)
    /\ refresh[l].at = "none" /\ Live(l) /\ mem[l].rev < load.revs
    /\ refresh'[l].held = mem[l]
    /\ refresh'[l].at = IF l \in Delegated THEN "source" ELSE "before"

\* It goes on.
Goes(l) ==
    LET r == refresh[l]
        s == refresh'[l]
    IN  /\ born'[l] = born[l] /\ (l \in lost' <=> l \in lost) /\ s.held = r.held
        /\ KeptEntry(l) /\ KeptOver(l) /\ KeptRestore(l) /\ KeptRevoking(l)
        /\ \/ /\ Held(l) /\ row'[l] = row[l] /\ github'[l] = github[l]
              /\ \/ r.at = "before" /\ s.at = "github" /\ l \notin Delegated
                 \/ r.at = "source" /\ s.at = "before"
           \/ /\ Held(l) /\ row'[l] = row[l] /\ r.at = "github" /\ s.at = "commit"
              /\ github'[l] = github[l] + 1 /\ s.grant = github[l] + 1
           \/ /\ r.at = "commit" /\ s.at = "reply" /\ s.grant = r.grant /\ github'[l] = github[l]
              /\ row[l].rev = r.held.rev
              /\ row'[l] = [rev |-> r.held.rev + 1, tok |-> r.grant, here |-> TRUE]
           \/ /\ r.at = "commit" /\ s.at = "missed" /\ row[l].rev # r.held.rev
              /\ row'[l] = row[l] /\ github'[l] = github[l]

\* It ends, and nothing came of it.
Stops(l) ==
    LET r == refresh[l]
    IN  /\ born'[l] = born[l] /\ row'[l] = row[l] /\ age'[l] = age[l]
        /\ KeptOver(l) /\ KeptRestore(l) /\ KeptRevoking(l) /\ refresh'[l] = NoRefresh
        /\ \/ mem'[l] = mem[l] /\ r.at \in Renewing /\ ~Held(l) /\ (l \in lost => l \in lost')
           \/ /\ mem'[l] = mem[l] /\ r.at \in {"source", "github", "ends"}
              /\ github'[l] = github[l] /\ (l \in lost => l \in lost')
           \/ mem'[l] = mem[l] /\ r.at = "github" /\ l \in lost'
           \/ r.at = "missed" /\ mem'[l] = None /\ (l \in lost => l \in lost')

\* Its replacement is published.
Installs(l) ==
    LET r == refresh[l]
    IN  /\ KeptStore(l) /\ KeptOver(l) /\ KeptRestore(l) /\ KeptRevoking(l)
        /\ Held(l) /\ refresh'[l] = NoRefresh /\ age'[l] = 0
        /\ mem'[l] = [rev |-> r.held.rev + 1, tok |-> r.grant]
        /\ r.at = "reply" \/ (r.at = "before" /\ l \in Delegated)

\* A login is looked for in storage.
Looks(l) ==
    LET r == restore[l]
        s == restore'[l]
    IN  /\ KeptStore(l) /\ KeptEntry(l) /\ KeptOver(l) /\ KeptRefresh(l) /\ KeptRevoking(l)
        /\ \/ /\ s.at = "get" /\ born[l] = "born" /\ l \notin Delegated
              /\ ~Live(l) /\ ~Blocked(l)
           \/ s = NoRestore
           \/ /\ r.at = "get" /\ row[l] # NoRow /\ l \notin over
              /\ s = [at |-> "user", rev |-> row[l].rev, tok |-> row[l].tok, here |-> row[l].here]
           \/ /\ r.at = "user" /\ s.at = "move" /\ ~r.here
              /\ s.rev = r.rev /\ s.tok = r.tok /\ s.here = r.here
           \/ r.at = "move" /\ s.at = "get"

\* It is found.
Returns(l) ==
    LET r == restore[l]
        m == mem'[l]
    IN  /\ born'[l] = born[l] /\ github'[l] = github[l] /\ (l \in lost' <=> l \in lost)
        /\ KeptOver(l) /\ KeptRefresh(l) /\ KeptRevoking(l) /\ restore'[l] = NoRestore
        /\ ~Blocked(l) /\ m.tok = r.tok /\ (m.rev = load.revs => age'[l] = 0)
        /\ \/ r.at = "user" /\ m.rev = r.rev /\ row'[l] = row[l]
           \/ /\ r.at = "move" /\ m.rev = r.rev + 1 /\ row[l].rev = r.rev
              /\ row'[l].rev = row[l].rev + 1 /\ row'[l].tok = row[l].tok /\ row'[l].here

Move(l) ==
    \/ Rests(l) \/ Signs(l) \/ Ages(l) \/ Revoked(l) \/ Deletes(l) \/ Starts(l) \/ Goes(l)
    \/ Stops(l) \/ Installs(l) \/ Looks(l) \/ Returns(l)

\* What the bindings hear of it.
Ending(l)   == revoking[l] = "none" /\ revoking'[l] = "callback"
Replaced    == Renewing \ {"source"}
Hooked(l) ==
    /\ Blocked(l)' => Blocked(l) \/ Ending(l)
    /\ refresh'[l].at \in Replaced =>
          \/ refresh[l].at \in Replaced /\ refresh'[l].held = refresh[l].held
          \/ refresh[l].at # "before" /\ refresh'[l].at = "before"
    /\ mem'[l] # mem[l] => ~Live(l) \/ Ending(l) \/ (refresh[l].at \in Replaced /\ Held(l))
    /\ row'[l] = NoRow => row[l] = NoRow \/ Blocked(l) \/ l \in over
    /\ l \in over => l \in over'
    /\ born[l] = "born" => born'[l] = "born"
-----------------------------------------------------------------------------
(* Each way keeps the login's part of the invariant.                       *)

\* The types of what is known of a login.
Typed(l) ==
    /\ born[l] \in Births /\ mem[l] \in Credentials /\ row[l] \in Rows /\ age[l] \in 0 .. 3
    /\ restore[l] \in Restores /\ refresh[l] \in Refreshes
    /\ revoking[l] \in {"none", "callback", "delete"} /\ github[l] \in Nat
    /\ mem[l].rev \in Nat /\ mem[l].tok \in Nat /\ row[l].rev \in Nat /\ row[l].tok \in Nat
    /\ restore[l].rev \in Nat /\ restore[l].tok \in Nat /\ refresh[l].held \in Credentials
    /\ refresh[l].held.rev \in Nat /\ refresh[l].held.tok \in Nat /\ refresh[l].grant \in Nat
    /\ load.revs \in Nat /\ load.revs > 0 /\ mem[l].rev <= load.revs
    /\ row[l].here \in BOOLEAN /\ restore[l].here \in BOOLEAN

LEMMA LoginTypes == ASSUME TypeOK, NEW l \in Logins PROVE Typed(l)
  BY DEF Typed, TypeOK, Births, Credentials, Rows, Restores, Refreshes, Revisions, Tokens,
         LoadRecords

LEMMA NextTypes == ASSUME TypeOK', NEW l \in Logins PROVE Typed(l)'
  BY DEF Typed, TypeOK, Births, Credentials, Rows, Restores, Refreshes, Revisions, Tokens,
         LoadRecords

\* Nothing changes.
LEMMA RestsKeep ==
    ASSUME TypeOK, TypeOK', load'.revs = load.revs, NEW l \in Logins, LoginPart(l), Rests(l)
    PROVE  LoginPart(l)' /\ Hooked(l)
  <1>0. Typed(l) /\ Typed(l)'
    BY LoginTypes, NextTypes
  <1> USE <1>0 DEF Typed, LoginPart, OutInv, StepInv, RevisionInv, UnbornInv, RevokingInv,
         RestoreInv, RefreshInv, RowInv, TokenInv, KeptStore, KeptEntry, KeptOver, KeptRestore,
         KeptRefresh, KeptRevoking, Live, Blocked, Gone, Held, Renewing, None, NoRow, NoRestore,
         NoRefresh, Rests
  <1>1. OutInv(l)'
    OBVIOUS
  <1>2. StepInv(l)'
    OBVIOUS
  <1>3. RevisionInv(l)'
    OBVIOUS
  <1>4. UnbornInv(l)'
    OBVIOUS
  <1>5. RevokingInv(l)'
    OBVIOUS
  <1>6. RestoreInv(l)'
    OBVIOUS
  <1>7. RefreshInv(l)'
    OBVIOUS
  <1>8. RowInv(l)'
    OBVIOUS
  <1>9. TokenInv(l)'
    OBVIOUS
  <1>10. Hooked(l)
    BY DEF Hooked, Ending, Replaced
  <1> QED
    BY <1>1, <1>2, <1>3, <1>4, <1>5, <1>6, <1>7, <1>8, <1>9, <1>10 DEF LoginPart

\* A sign-in.
LEMMA SignsKeep ==
    ASSUME TypeOK, TypeOK', load'.revs = load.revs, NEW l \in Logins, LoginPart(l), Signs(l)
    PROVE  LoginPart(l)' /\ Hooked(l)
  <1>0. Typed(l) /\ Typed(l)'
    BY LoginTypes, NextTypes
  <1> USE <1>0 DEF Typed, LoginPart, OutInv, StepInv, RevisionInv, UnbornInv, RevokingInv,
         RestoreInv, RefreshInv, RowInv, TokenInv, KeptStore, KeptEntry, KeptOver, KeptRestore,
         KeptRefresh, KeptRevoking, Live, Blocked, Gone, Held, Renewing, None, NoRow, NoRestore,
         NoRefresh, Signs
  <1>1. OutInv(l)'
    OBVIOUS
  <1>2. StepInv(l)'
    OBVIOUS
  <1>3. RevisionInv(l)'
    OBVIOUS
  <1>4. UnbornInv(l)'
    OBVIOUS
  <1>5. RevokingInv(l)'
    OBVIOUS
  <1>6. RestoreInv(l)'
    OBVIOUS
  <1>7. RefreshInv(l)'
    OBVIOUS
  <1>8. RowInv(l)'
    OBVIOUS
  <1>9. TokenInv(l)'
    OBVIOUS
  <1>10. Hooked(l)
    BY DEF Hooked, Ending, Replaced
  <1> QED
    BY <1>1, <1>2, <1>3, <1>4, <1>5, <1>6, <1>7, <1>8, <1>9, <1>10 DEF LoginPart

\* Time goes by.
LEMMA AgesKeep ==
    ASSUME TypeOK, TypeOK', load'.revs = load.revs, NEW l \in Logins, LoginPart(l), Ages(l)
    PROVE  LoginPart(l)' /\ Hooked(l)
  <1>0. Typed(l) /\ Typed(l)'
    BY LoginTypes, NextTypes
  <1> USE <1>0 DEF Typed, LoginPart, OutInv, StepInv, RevisionInv, UnbornInv, RevokingInv,
         RestoreInv, RefreshInv, RowInv, TokenInv, KeptStore, KeptEntry, KeptOver, KeptRestore,
         KeptRefresh, KeptRevoking, Live, Blocked, Gone, Held, Renewing, None, NoRow, NoRestore,
         NoRefresh, Ages
  <1>1. OutInv(l)'
    OBVIOUS
  <1>2. StepInv(l)'
    OBVIOUS
  <1>3. RevisionInv(l)'
    OBVIOUS
  <1>4. UnbornInv(l)'
    OBVIOUS
  <1>5. RevokingInv(l)'
    OBVIOUS
  <1>6. RestoreInv(l)'
    OBVIOUS
  <1>7. RefreshInv(l)'
    OBVIOUS
  <1>8. RowInv(l)'
    OBVIOUS
  <1>9. TokenInv(l)'
    OBVIOUS
  <1>10. Hooked(l)
    BY DEF Hooked, Ending, Replaced
  <1> QED
    BY <1>1, <1>2, <1>3, <1>4, <1>5, <1>6, <1>7, <1>8, <1>9, <1>10 DEF LoginPart

\* A revocation.
LEMMA RevokedKeep ==
    ASSUME TypeOK, TypeOK', load'.revs = load.revs, NEW l \in Logins, LoginPart(l), Revoked(l)
    PROVE  LoginPart(l)' /\ Hooked(l)
  <1>0. Typed(l) /\ Typed(l)'
    BY LoginTypes, NextTypes
  <1> USE <1>0 DEF Typed, LoginPart, OutInv, StepInv, RevisionInv, UnbornInv, RevokingInv,
         RestoreInv, RefreshInv, RowInv, TokenInv, KeptStore, KeptEntry, KeptOver, KeptRestore,
         KeptRefresh, KeptRevoking, Live, Blocked, Gone, Held, Renewing, None, NoRow, NoRestore,
         NoRefresh, Revoked
  <1>1. OutInv(l)'
    OBVIOUS
  <1>2. StepInv(l)'
    OBVIOUS
  <1>3. RevisionInv(l)'
    OBVIOUS
  <1>4. UnbornInv(l)'
    OBVIOUS
  <1>5. RevokingInv(l)'
    OBVIOUS
  <1>6. RestoreInv(l)'
    OBVIOUS
  <1>7. RefreshInv(l)'
    OBVIOUS
  <1>8. RowInv(l)'
    OBVIOUS
  <1>9. TokenInv(l)'
    OBVIOUS
  <1>10. Hooked(l)
    BY DEF Hooked, Ending, Replaced
  <1> QED
    BY <1>1, <1>2, <1>3, <1>4, <1>5, <1>6, <1>7, <1>8, <1>9, <1>10 DEF LoginPart

\* The row's deletion.
LEMMA DeletesKeep ==
    ASSUME TypeOK, TypeOK', load'.revs = load.revs, NEW l \in Logins, LoginPart(l), Deletes(l)
    PROVE  LoginPart(l)' /\ Hooked(l)
  <1>0. Typed(l) /\ Typed(l)'
    BY LoginTypes, NextTypes
  <1> USE <1>0 DEF Typed, LoginPart, OutInv, StepInv, RevisionInv, UnbornInv, RevokingInv,
         RestoreInv, RefreshInv, RowInv, TokenInv, KeptStore, KeptEntry, KeptOver, KeptRestore,
         KeptRefresh, KeptRevoking, Live, Blocked, Gone, Held, Renewing, None, NoRow, NoRestore,
         NoRefresh, Deletes
  <1>1. OutInv(l)'
    OBVIOUS
  <1>2. StepInv(l)'
    OBVIOUS
  <1>3. RevisionInv(l)'
    OBVIOUS
  <1>4. UnbornInv(l)'
    OBVIOUS
  <1>5. RevokingInv(l)'
    OBVIOUS
  <1>6. RestoreInv(l)'
    OBVIOUS
  <1>7. RefreshInv(l)'
    OBVIOUS
  <1>8. RowInv(l)'
    OBVIOUS
  <1>9. TokenInv(l)'
    OBVIOUS
  <1>10. Hooked(l)
    BY DEF Hooked, Ending, Replaced
  <1> QED
    BY <1>1, <1>2, <1>3, <1>4, <1>5, <1>6, <1>7, <1>8, <1>9, <1>10 DEF LoginPart

\* A refresh starts.
LEMMA StartsKeep ==
    ASSUME TypeOK, TypeOK', load'.revs = load.revs, NEW l \in Logins, LoginPart(l), Starts(l)
    PROVE  LoginPart(l)' /\ Hooked(l)
  <1>0. Typed(l) /\ Typed(l)'
    BY LoginTypes, NextTypes
  <1> USE <1>0 DEF Typed, LoginPart, OutInv, StepInv, RevisionInv, UnbornInv, RevokingInv,
         RestoreInv, RefreshInv, RowInv, TokenInv, KeptStore, KeptEntry, KeptOver, KeptRestore,
         KeptRefresh, KeptRevoking, Live, Blocked, Gone, Held, Renewing, None, NoRow, NoRestore,
         NoRefresh, Starts
  <1>1. OutInv(l)'
    OBVIOUS
  <1>2. StepInv(l)'
    OBVIOUS
  <1>3. RevisionInv(l)'
    OBVIOUS
  <1>4. UnbornInv(l)'
    OBVIOUS
  <1>5. RevokingInv(l)'
    OBVIOUS
  <1>6. RestoreInv(l)'
    OBVIOUS
  <1>7. RefreshInv(l)'
    OBVIOUS
  <1>8. RowInv(l)'
    OBVIOUS
  <1>9. TokenInv(l)'
    OBVIOUS
  <1>10. Hooked(l)
    BY DEF Hooked, Ending, Replaced
  <1> QED
    BY <1>1, <1>2, <1>3, <1>4, <1>5, <1>6, <1>7, <1>8, <1>9, <1>10 DEF LoginPart

\* A refresh goes on.
LEMMA GoesKeep ==
    ASSUME TypeOK, TypeOK', load'.revs = load.revs, NEW l \in Logins, LoginPart(l), Goes(l)
    PROVE  LoginPart(l)' /\ Hooked(l)
  <1>0. Typed(l) /\ Typed(l)'
    BY LoginTypes, NextTypes
  <1> USE <1>0 DEF Typed, LoginPart, OutInv, StepInv, RevisionInv, UnbornInv, RevokingInv,
         RestoreInv, RefreshInv, RowInv, TokenInv, KeptStore, KeptEntry, KeptOver, KeptRestore,
         KeptRefresh, KeptRevoking, Live, Blocked, Gone, Held, Renewing, None, NoRow, NoRestore,
         NoRefresh, Goes
  <1>1. OutInv(l)'
    OBVIOUS
  <1>2. StepInv(l)'
    OBVIOUS
  <1>3. RevisionInv(l)'
    OBVIOUS
  <1>4. UnbornInv(l)'
    OBVIOUS
  <1>5. RevokingInv(l)'
    OBVIOUS
  <1>6. RestoreInv(l)'
    OBVIOUS
  <1>7. RefreshInv(l)'
    OBVIOUS
  <1>8. RowInv(l)'
    OBVIOUS
  <1>9. TokenInv(l)'
    OBVIOUS
  <1>10. Hooked(l)
    BY DEF Hooked, Ending, Replaced
  <1> QED
    BY <1>1, <1>2, <1>3, <1>4, <1>5, <1>6, <1>7, <1>8, <1>9, <1>10 DEF LoginPart

\* A refresh that came to nothing.
LEMMA StopsKeep ==
    ASSUME TypeOK, TypeOK', load'.revs = load.revs, NEW l \in Logins, LoginPart(l), Stops(l)
    PROVE  LoginPart(l)' /\ Hooked(l)
  <1>0. Typed(l) /\ Typed(l)'
    BY LoginTypes, NextTypes
  <1> USE <1>0 DEF Typed, LoginPart, OutInv, StepInv, RevisionInv, UnbornInv, RevokingInv,
         RestoreInv, RefreshInv, RowInv, TokenInv, KeptStore, KeptEntry, KeptOver, KeptRestore,
         KeptRefresh, KeptRevoking, Live, Blocked, Gone, Held, Renewing, None, NoRow, NoRestore,
         NoRefresh, Stops
  <1>1. OutInv(l)'
    OBVIOUS
  <1>2. StepInv(l)'
    OBVIOUS
  <1>3. RevisionInv(l)'
    OBVIOUS
  <1>4. UnbornInv(l)'
    OBVIOUS
  <1>5. RevokingInv(l)'
    OBVIOUS
  <1>6. RestoreInv(l)'
    OBVIOUS
  <1>7. RefreshInv(l)'
    OBVIOUS
  <1>8. RowInv(l)'
    OBVIOUS
  <1>9. TokenInv(l)'
    OBVIOUS
  <1>10. Hooked(l)
    BY DEF Hooked, Ending, Replaced
  <1> QED
    BY <1>1, <1>2, <1>3, <1>4, <1>5, <1>6, <1>7, <1>8, <1>9, <1>10 DEF LoginPart

\* A refresh that is published.
LEMMA InstallsKeep ==
    ASSUME TypeOK, TypeOK', load'.revs = load.revs, NEW l \in Logins, LoginPart(l), Installs(l)
    PROVE  LoginPart(l)' /\ Hooked(l)
  <1>0. Typed(l) /\ Typed(l)'
    BY LoginTypes, NextTypes
  <1> USE <1>0 DEF Typed, LoginPart, OutInv, StepInv, RevisionInv, UnbornInv, RevokingInv,
         RestoreInv, RefreshInv, RowInv, TokenInv, KeptStore, KeptEntry, KeptOver, KeptRestore,
         KeptRefresh, KeptRevoking, Live, Blocked, Gone, Held, Renewing, None, NoRow, NoRestore,
         NoRefresh, Installs
  <1>1. OutInv(l)'
    OBVIOUS
  <1>2. StepInv(l)'
    OBVIOUS
  <1>3. RevisionInv(l)'
    OBVIOUS
  <1>4. UnbornInv(l)'
    OBVIOUS
  <1>5. RevokingInv(l)'
    OBVIOUS
  <1>6. RestoreInv(l)'
    OBVIOUS
  <1>7. RefreshInv(l)'
    OBVIOUS
  <1>8. RowInv(l)'
    OBVIOUS
  <1>9. TokenInv(l)'
    OBVIOUS
  <1>10. Hooked(l)
    BY DEF Hooked, Ending, Replaced
  <1> QED
    BY <1>1, <1>2, <1>3, <1>4, <1>5, <1>6, <1>7, <1>8, <1>9, <1>10 DEF LoginPart

\* A look into storage.
LEMMA LooksKeep ==
    ASSUME TypeOK, TypeOK', load'.revs = load.revs, NEW l \in Logins, LoginPart(l), Looks(l)
    PROVE  LoginPart(l)' /\ Hooked(l)
  <1>0. Typed(l) /\ Typed(l)'
    BY LoginTypes, NextTypes
  <1> USE <1>0 DEF Typed, LoginPart, OutInv, StepInv, RevisionInv, UnbornInv, RevokingInv,
         RestoreInv, RefreshInv, RowInv, TokenInv, KeptStore, KeptEntry, KeptOver, KeptRestore,
         KeptRefresh, KeptRevoking, Live, Blocked, Gone, Held, Renewing, None, NoRow, NoRestore,
         NoRefresh, Looks
  <1>1. OutInv(l)'
    OBVIOUS
  <1>2. StepInv(l)'
    OBVIOUS
  <1>3. RevisionInv(l)'
    OBVIOUS
  <1>4. UnbornInv(l)'
    OBVIOUS
  <1>5. RevokingInv(l)'
    OBVIOUS
  <1>6. RestoreInv(l)'
    <2>1. refresh[l].at \in {"none", "revoke", "ends"} \cup Renewing
      BY DEF Refreshes
    <2>2. restore'[l].at = "get" => RestoreInv(l)'
      BY <2>1
    <2>3. restore'[l].at = "none" => RestoreInv(l)'
      OBVIOUS
    <2>4. restore[l].at = "get" /\ restore'[l].at = "user" => RestoreInv(l)'
      OBVIOUS
    <2>5. restore[l].at = "user" /\ restore'[l].at = "move" => RestoreInv(l)'
      OBVIOUS
    <2> QED
      BY <2>2, <2>3, <2>4, <2>5
  <1>7. RefreshInv(l)'
    OBVIOUS
  <1>8. RowInv(l)'
    OBVIOUS
  <1>9. TokenInv(l)'
    OBVIOUS
  <1>10. Hooked(l)
    BY DEF Hooked, Ending, Replaced
  <1> QED
    BY <1>1, <1>2, <1>3, <1>4, <1>5, <1>6, <1>7, <1>8, <1>9, <1>10 DEF LoginPart

\* A login that is restored.
LEMMA ReturnsKeep ==
    ASSUME TypeOK, TypeOK', load'.revs = load.revs, NEW l \in Logins, LoginPart(l), Returns(l)
    PROVE  LoginPart(l)' /\ Hooked(l)
  <1>0. Typed(l) /\ Typed(l)'
    BY LoginTypes, NextTypes
  <1> USE <1>0 DEF Typed, LoginPart, OutInv, StepInv, RevisionInv, UnbornInv, RevokingInv,
         RestoreInv, RefreshInv, RowInv, TokenInv, KeptStore, KeptEntry, KeptOver, KeptRestore,
         KeptRefresh, KeptRevoking, Live, Blocked, Gone, Held, Renewing, None, NoRow, NoRestore,
         NoRefresh, Returns
  <1>1. OutInv(l)'
    OBVIOUS
  <1>2. StepInv(l)'
    OBVIOUS
  <1>3. RevisionInv(l)'
    OBVIOUS
  <1>4. UnbornInv(l)'
    OBVIOUS
  <1>5. RevokingInv(l)'
    OBVIOUS
  <1>6. RestoreInv(l)'
    OBVIOUS
  <1>7. RefreshInv(l)'
    OBVIOUS
  <1>8. RowInv(l)'
    OBVIOUS
  <1>9. TokenInv(l)'
    OBVIOUS
  <1>10. Hooked(l)
    BY DEF Hooked, Ending, Replaced
  <1> QED
    BY <1>1, <1>2, <1>3, <1>4, <1>5, <1>6, <1>7, <1>8, <1>9, <1>10 DEF LoginPart

LEMMA MoveKeeps ==
    ASSUME TypeOK, TypeOK', load'.revs = load.revs, NEW l \in Logins, LoginPart(l), Move(l)
    PROVE  LoginPart(l)' /\ Hooked(l)
  BY RestsKeep, SignsKeep, AgesKeep, RevokedKeep, DeletesKeep, StartsKeep, GoesKeep, StopsKeep,
     InstallsKeep, LooksKeep, ReturnsKeep DEF Move

-----------------------------------------------------------------------------
(* What a step of LoginSessions does.                                      *)

\* A request moves on; it has not read the owner twice (OwnerBindings).
TaskStep(t) == task'[t] = task[t] \/ (Fit(task'[t]) /\ task'[t].at # "read")

Effects ==
    /\ TypeOK' /\ load'.revs = load.revs
    /\ \A l \in Logins : Move(l)
    /\ \A t \in Tasks : TaskStep(t)

\* The same sets are the types before a step and after it.
LEMMA SameSets ==
    ASSUME load'.revs = load.revs
    PROVE  /\ Revisions' = Revisions /\ Credentials' = Credentials /\ Rows' = Rows
           /\ Restores' = Restores /\ Refreshes' = Refreshes /\ Requests' = Requests
  BY DEF Revisions, Credentials, Rows, Restores, Refreshes, Requests, Tokens

\* The facts keep.
LEMMA FactsKept ==
    ASSUME LoginFacts, Effects
    PROVE  LoginFacts' /\ \A l \in Logins : Hooked(l)
  <1>1. \A l \in Logins : LoginPart(l)' /\ Hooked(l)
    BY MoveKeeps DEF LoginFacts, Effects
  <1>2. ASSUME NEW t \in Tasks
        PROVE  Fit(task[t])'
    <2>1. Fit(task[t]) /\ TaskStep(t)
      BY DEF LoginFacts, Effects
    <2>2. Fit(task'[t])
      BY <2>1 DEF TaskStep
    <2>3. task'[t].login \in Logins
      BY DEF Effects, TypeOK, Requests
    <2>4. born[task'[t].login] = "born" => born'[task'[t].login] = "born"
      BY <1>1, <2>3 DEF Hooked
    <2> QED
      BY <2>2, <2>4 DEF Fit, Effects
  <1> QED
    BY <1>1, <1>2 DEF LoginFacts, Effects

-----------------------------------------------------------------------------
(* What a request does to its login.                                       *)

Still(l) == mem'[l] = mem[l] /\ KeptRefresh(l) /\ KeptRevoking(l)
Bars(l) ==
    /\ Live(l) /\ mem'[l] = None /\ l \in pending' /\ revoking'[l] = "callback"
    /\ KeptRefresh(l) \/ (refresh[l].at = "none" /\ refresh'[l].at = "revoke")
Renews(l) ==
    /\ mem'[l] = mem[l] /\ KeptRevoking(l)
    /\ refresh[l].at = "none" /\ Live(l) /\ mem[l].rev < load.revs
    /\ refresh'[l].held = mem[l]
    /\ refresh'[l].at = IF l \in Delegated THEN "source" ELSE "before"

Served ==
    /\ mem' \in [Logins -> Credentials] /\ refresh' \in [Logins -> Refreshes]
    /\ revoking' \in [Logins -> {"none", "callback", "delete"}] /\ pending' \subseteq Logins
    /\ task' \in [Tasks -> Requests]
    /\ \A l \in Logins : Still(l) \/ Bars(l) \/ Renews(l)
    /\ \A t \in Tasks : TaskStep(t)

LEMMA ServedEffects ==
    ASSUME LoginFacts, Served, UNCHANGED <<store, age, over, restore>>,
           load' \in LoadRecords, load'.revs = load.revs, signedOut' \subseteq SignOuts
    PROVE  Effects
  <1>1. TypeOK'
    BY SameSets DEF LoginFacts, TypeOK, Served, store
  <1>2. ASSUME NEW l \in Logins
        PROVE  Move(l)
    <2>1. CASE Still(l)
      BY <2>1 DEF Still, Move, Rests, KeptStore, KeptEntry, KeptOver, KeptRestore, store
    <2>2. CASE Bars(l)
      BY <2>2 DEF Bars, Move, Revoked, KeptOver, KeptRestore, KeptRefresh, store
    <2>3. CASE Renews(l)
      BY <2>3 DEF Renews, Move, Starts, KeptStore, KeptEntry, KeptOver, KeptRestore, store
    <2> QED
      BY <2>1, <2>2, <2>3 DEF Served
  <1> QED
    BY <1>1, <1>2 DEF Effects, Served

\* The records of requests.
LEMMA IdleFits ==
    ASSUME load.revs \in Nat, NEW l \in Logins
    PROVE  Idle(l) \in Requests /\ Idle(l).at = "idle" /\ Idle(l).login = l
  BY DEF Idle, Requests, Revisions

LEMMA DoneFits ==
    ASSUME load.revs \in Nat, NEW k \in Requests, NEW r \in {"none", "ok", "error"}
    PROVE  /\ Done(k, r) \in Requests /\ Done(k, r).at = "idle" /\ Done(k, r).login = k.login
           /\ Fit(Done(k, r))
  <1>1. Idle(k.login) \in Requests /\ Idle(k.login).at = "idle" /\ Idle(k.login).login = k.login
    BY IdleFits DEF Requests
  <1>2. Done(k, r) \in Requests /\ Done(k, r).at = "idle" /\ Done(k, r).login = k.login
    BY <1>1 DEF Done, Requests
  <1> QED
    BY <1>2 DEF Fit

\* A request that is given another state.
LEMMA OneTask ==
    ASSUME TypeOK, NEW t \in Tasks, NEW k \in Requests, Fit(k), k.at # "read",
           task' = [task EXCEPT ![t] = k]
    PROVE  task' \in [Tasks -> Requests] /\ \A s \in Tasks : TaskStep(s)
  BY DEF TypeOK, TaskStep

LEMMA AnswerServed ==
    ASSUME LoginFacts, NEW t \in Tasks, NEW k \in Requests, NEW r \in {"none", "ok", "error"},
           Answer(t, k, r)
    PROVE  Served
  <1>1. load.revs \in Nat
    BY DEF LoginFacts, TypeOK, LoadRecords
  <1>2. /\ Done(k, r) \in Requests /\ Fit(Done(k, r)) /\ Done(k, r).at # "read"
        /\ task' = [task EXCEPT ![t] = Done(k, r)]
    BY <1>1, DoneFits DEF Answer
  <1>3. task' \in [Tasks -> Requests] /\ \A s \in Tasks : TaskStep(s)
    BY <1>2, OneTask DEF LoginFacts
  <1> QED
    BY <1>3 DEF Answer, Served, Still, KeptRefresh, KeptRevoking, LoginFacts, TypeOK

\* The states a request awaits something in.
LEMMA AwaitFits ==
    ASSUME load.revs \in Nat, NEW k \in Requests, born[k.login] = "born"
    PROVE  /\ [k EXCEPT !.at = "revoking"] \in Requests /\ Fit([k EXCEPT !.at = "revoking"])
           /\ [k EXCEPT !.at = "revoking"].at # "read"
           /\ [k EXCEPT !.at = "finding"] \in Requests /\ Fit([k EXCEPT !.at = "finding"])
           /\ [k EXCEPT !.at = "finding"].at # "read"
  <1>1. ASSUME NEW a \in {"revoking", "finding"}
        PROVE  /\ [k EXCEPT !.at = a] \in Requests /\ [k EXCEPT !.at = a].at = a
               /\ [k EXCEPT !.at = a].login = k.login
    BY DEF Requests
  <1> QED
    BY <1>1 DEF Fit

\* The entry of a login leaves memory.
LEMMA RevokeNowFields ==
    ASSUME LoginFacts, NEW l \in Logins, Live(l), RevokeNow(l)
    PROVE  /\ mem' \in [Logins -> Credentials] /\ pending' \subseteq Logins
           /\ revoking' \in [Logins -> {"none", "callback", "delete"}]
           /\ mem'[l] = None /\ l \in pending' /\ revoking'[l] = "callback"
           /\ \A m \in Logins \ {l} : mem'[m] = mem[m] /\ KeptRevoking(m)
  <1>1. None \in Credentials
    BY DEF None, Credentials, Revisions, Tokens, LoginFacts, TypeOK, LoadRecords
  <1> QED
    BY <1>1 DEF RevokeNow, LoginFacts, TypeOK, KeptRevoking

LEMMA RevokeAwaitServed ==
    ASSUME LoginFacts, NEW t \in Tasks, NEW k \in Requests, born[k.login] = "born",
           Live(k.login), RevokeAwait(t, k)
    PROVE  Served
  <1>1. load.revs \in Nat /\ k.login \in Logins
    BY DEF LoginFacts, TypeOK, LoadRecords, Requests
  <1>2. task' \in [Tasks -> Requests] /\ \A s \in Tasks : TaskStep(s)
    BY <1>1, AwaitFits, OneTask DEF LoginFacts, RevokeAwait
  <1>3. RevokeNow(k.login) /\ refresh' = refresh
    BY DEF RevokeAwait
  <1>4. ASSUME NEW m \in Logins
        PROVE  Still(m) \/ Bars(m)
    BY <1>1, <1>3, RevokeNowFields DEF Still, Bars, KeptRefresh
  <1> QED
    BY <1>1, <1>2, <1>3, <1>4, RevokeNowFields DEF Served, LoginFacts, TypeOK

\* The result of a refresh, for a request that awaited it.
LEMMA RotatedFits ==
    ASSUME load.revs \in Nat, NEW k \in Requests, born[k.login] = "born", NEW rev \in Revisions
    PROVE  Rotated(k, rev) \in Requests /\ Fit(Rotated(k, rev)) /\ Rotated(k, rev).at # "read"
  <1>1. Done(k, "none") \in Requests /\ Fit(Done(k, "none")) /\ Done(k, "none").at # "read"
    BY DoneFits
  <1>2. ASSUME rev # 0, NEW a \in {"authorize", "operation"}, NEW n \in {1, 2}
        PROVE  /\ [k EXCEPT !.at = a, !.held = rev, !.try = n] \in Requests
               /\ Fit([k EXCEPT !.at = a, !.held = rev, !.try = n])
               /\ [k EXCEPT !.at = a, !.held = rev, !.try = n].at # "read"
    <2>1. rev > 0
      BY <1>2 DEF Revisions
    <2>2. /\ [k EXCEPT !.at = a, !.held = rev, !.try = n] \in Requests
          /\ [k EXCEPT !.at = a, !.held = rev, !.try = n].at = a
          /\ [k EXCEPT !.at = a, !.held = rev, !.try = n].held = rev
          /\ [k EXCEPT !.at = a, !.held = rev, !.try = n].login = k.login
      BY DEF Requests
    <2> QED
      BY <2>1, <2>2 DEF Fit
  <1>3. CASE k.rejected = 0 /\ rev = 0
    BY <1>1, <1>3 DEF Rotated
  <1>4. CASE k.rejected = 0 /\ rev # 0
    BY <1>2, <1>4 DEF Rotated
  <1>5. CASE k.rejected # 0 /\ (rev = 0 \/ mem'[k.login].rev # rev)
    BY <1>1, <1>5 DEF Rotated
  <1>6. CASE k.rejected # 0 /\ ~(rev = 0 \/ mem'[k.login].rev # rev)
    <2>1. CASE k.kind = "bind" /\ k.result = "ok"
      BY <1>2, <1>6, <2>1 DEF Rotated
    <2>2. CASE ~(k.kind = "bind" /\ k.result = "ok")
      BY <1>2, <1>6, <2>2 DEF Rotated
    <2> QED
      BY <2>1, <2>2
  <1> QED
    BY <1>3, <1>4, <1>5, <1>6

\* A refresh of an entry that has a successor starts.
LEMMA RenewFields ==
    ASSUME LoginFacts, NEW l \in Logins, NEW rejected \in Revisions,
           refresh[l].at = "none", Live(l), mem[l].rev < load.revs,
           refresh' = [refresh EXCEPT ![l] =
                          [at |-> IF l \in Delegated THEN "source" ELSE "before",
                           held |-> mem[l], rejected |-> rejected, grant |-> 0]],
           UNCHANGED <<mem, revoking, pending>>
    PROVE  refresh' \in [Logins -> Refreshes] /\ \A m \in Logins : Still(m) \/ Renews(m)
  <1>1. mem[l] \in Credentials
    BY DEF LoginFacts, TypeOK
  <1>2. [at |-> IF l \in Delegated THEN "source" ELSE "before", held |-> mem[l],
         rejected |-> rejected, grant |-> 0] \in Refreshes
    BY <1>1 DEF Refreshes, Tokens
  <1>3. refresh' \in [Logins -> Refreshes]
    BY <1>2 DEF LoginFacts, TypeOK
  <1>4. Renews(l)
    BY DEF Renews, KeptRevoking, LoginFacts, TypeOK
  <1>5. \A m \in Logins \ {l} : Still(m)
    BY DEF Still, KeptRefresh, KeptRevoking, LoginFacts, TypeOK
  <1> QED
    BY <1>3, <1>4, <1>5

LEMMA RotateServed ==
    ASSUME LoginFacts, NEW t \in Tasks, NEW k \in Requests, born[k.login] = "born",
           NEW rejected \in Revisions, rejected # 0 => rejected < load.revs,
           Rotate(t, k, rejected)
    PROVE  Served
  <1> DEFINE q == [k EXCEPT !.at = "rotating", !.rejected = rejected, !.joined = FALSE]
  <1>1. load.revs \in Nat /\ k.login \in Logins /\ k.login \in DOMAIN mem
    BY DEF LoginFacts, TypeOK, LoadRecords, Requests
  <1>2. ASSUME NEW j \in BOOLEAN
        PROVE  /\ [q EXCEPT !.joined = j] \in Requests /\ Fit([q EXCEPT !.joined = j])
               /\ [q EXCEPT !.joined = j].at # "read"
    <2>1. /\ [q EXCEPT !.joined = j] \in Requests /\ [q EXCEPT !.joined = j].at = "rotating"
          /\ [q EXCEPT !.joined = j].rejected = rejected
          /\ [q EXCEPT !.joined = j].login = k.login
      BY DEF Requests
    <2> QED
      BY <2>1 DEF Fit
  <1>3. q \in Requests /\ Fit(q) /\ q.at # "read" /\ q.login = k.login
    <2>1. q \in Requests /\ q.at = "rotating" /\ q.rejected = rejected /\ q.login = k.login
      BY DEF Requests
    <2> QED
      BY <2>1 DEF Fit
  <1>4. ASSUME refresh[k.login].at # "none", task' = [task EXCEPT ![t] = [q EXCEPT !.joined = TRUE]],
               UNCHANGED <<mem, refresh, revoking, pending>>
        PROVE  Served
    <2>1. task' \in [Tasks -> Requests] /\ \A s \in Tasks : TaskStep(s)
      BY <1>2, <1>4, OneTask DEF LoginFacts
    <2> QED
      BY <1>4, <2>1 DEF Served, Still, KeptRefresh, KeptRevoking, LoginFacts, TypeOK
  <1>5. ASSUME refresh[k.login].at = "none", Live(k.login), RevokeNow(k.login),
               refresh' = [refresh EXCEPT ![k.login] = [NoRefresh EXCEPT !.at = "revoke"]],
               task' = [task EXCEPT ![t] = q]
        PROVE  Served
    <2>1. task' \in [Tasks -> Requests] /\ \A s \in Tasks : TaskStep(s)
      BY <1>3, <1>5, OneTask DEF LoginFacts
    <2>2. [NoRefresh EXCEPT !.at = "revoke"] \in Refreshes /\ [NoRefresh EXCEPT !.at = "revoke"].at = "revoke"
      BY <1>1 DEF NoRefresh, None, Refreshes, Credentials, Revisions, Tokens
    <2>3. refresh' \in [Logins -> Refreshes] /\ refresh'[k.login].at = "revoke"
          /\ \A m \in Logins \ {k.login} : KeptRefresh(m)
      BY <1>1, <1>5, <2>2 DEF LoginFacts, TypeOK, KeptRefresh
    <2>4. ASSUME NEW m \in Logins
          PROVE  Still(m) \/ Bars(m)
      BY <1>1, <1>5, <2>3, RevokeNowFields DEF Still, Bars
    <2> QED
      BY <1>1, <1>5, <2>1, <2>3, <2>4, RevokeNowFields DEF Served
  <1>6. ASSUME UNCHANGED <<mem, refresh, revoking, pending>>,
               task' = [task EXCEPT ![t] = Rotated(q, mem[k.login].rev)]
        PROVE  Served
    <2>1. mem[k.login].rev \in Revisions
      BY <1>1 DEF LoginFacts, TypeOK, Credentials
    <2>2. task' \in [Tasks -> Requests] /\ \A s \in Tasks : TaskStep(s)
      BY <1>1, <1>3, <1>6, <2>1, RotatedFits, OneTask DEF LoginFacts
    <2> QED
      BY <1>6, <2>2 DEF Served, Still, KeptRefresh, KeptRevoking, LoginFacts, TypeOK
  <1>7. ASSUME refresh[k.login].at = "none", Live(k.login),
               IF rejected = 0 THEN age[k.login] > 0 ELSE mem[k.login].rev = rejected,
               refresh' = [refresh EXCEPT ![k.login] =
                            [at |-> IF k.login \in Delegated THEN "source" ELSE "before",
                             held |-> mem[k.login], rejected |-> rejected, grant |-> 0]],
               task' = [task EXCEPT ![t] = q], UNCHANGED <<mem, revoking, pending>>
        PROVE  Served
    <2>1. task' \in [Tasks -> Requests] /\ \A s \in Tasks : TaskStep(s)
      BY <1>3, <1>7, OneTask DEF LoginFacts
    <2>2. mem[k.login].rev < load.revs
      BY <1>1, <1>7 DEF LoginFacts, LoginPart, RevisionInv
    <2>3. refresh' \in [Logins -> Refreshes] /\ \A m \in Logins : Still(m) \/ Renews(m)
      BY <1>1, <1>7, <2>2, RenewFields
    <2> QED
      BY <1>7, <2>1, <2>3 DEF Served, LoginFacts, TypeOK
  <1> HIDE DEF q
  <1> QED
    BY <1>4, <1>5, <1>6, <1>7 DEF Rotate, q

LEMMA FreshServed ==
    ASSUME LoginFacts, NEW t \in Tasks, NEW k \in Requests, born[k.login] = "born",
           Live(k.login), Fresh(t, k)
    PROVE  Served
  <1>1. load.revs \in Nat /\ k.login \in Logins /\ 0 \in Revisions
    BY DEF LoginFacts, TypeOK, LoadRecords, Requests, Revisions
  <1>2. ASSUME RevokeNow(k.login), task' = [task EXCEPT ![t] = [k EXCEPT !.at = "revoking"]],
               UNCHANGED refresh
        PROVE  Served
    BY <1>2, RevokeAwaitServed DEF RevokeAwait
  <1>3. ASSUME task' = [task EXCEPT ![t] = [k EXCEPT !.at = "authorize", !.held = mem[k.login].rev,
                                                     !.try = 1, !.rejected = 0]],
               UNCHANGED <<mem, refresh, revoking, pending>>
        PROVE  Served
    <2> DEFINE a == [k EXCEPT !.at = "authorize", !.held = mem[k.login].rev, !.try = 1,
                              !.rejected = 0]
    <2>1. mem[k.login].rev \in Revisions /\ mem[k.login].rev > 0
      BY <1>1 DEF LoginFacts, TypeOK, Credentials, LoginPart, RevisionInv
    <2>2. /\ a \in Requests /\ a.at = "authorize" /\ a.held = mem[k.login].rev
          /\ a.login = k.login
      BY <1>1, <2>1 DEF Requests
    <2>3. Fit(a)
      BY <2>1, <2>2 DEF Fit
    <2> HIDE DEF a
    <2>4. task' \in [Tasks -> Requests] /\ \A s \in Tasks : TaskStep(s)
      BY <1>3, <2>2, <2>3, OneTask DEF LoginFacts, a
    <2> QED
      BY <1>3, <2>4 DEF Served, Still, KeptRefresh, KeptRevoking, LoginFacts, TypeOK
  <1>4. ASSUME Rotate(t, k, 0)
        PROVE  Served
    BY <1>1, <1>4, RotateServed
  <1> QED
    BY <1>2, <1>3, <1>4 DEF Fresh

LEMMA FreshAgainServed ==
    ASSUME LoginFacts, NEW t \in Tasks, NEW k \in Requests, born[k.login] = "born", FreshAgain(t, k)
    PROVE  Served
  <1>1. CASE Live(k.login)
    BY <1>1, FreshServed DEF FreshAgain
  <1>2. CASE ~Live(k.login)
    BY <1>2, AnswerServed DEF FreshAgain, Answer
  <1> QED
    BY <1>1, <1>2

-----------------------------------------------------------------------------
(* The actions of a request.                                               *)

LEMMA SpendFields ==
    ASSUME load \in LoadRecords, NEW b \in {"faults", "refusals", "claims", "resets", "stops"},
           Spend(b)
    PROVE  load' \in LoadRecords /\ load'.revs = load.revs /\ load'.binders = load.binders
  BY DEF Spend, LoadRecords

LEMMA TaskFacts ==
    ASSUME LoginFacts, NEW t \in Tasks
    PROVE  /\ task[t] \in Requests /\ Fit(task[t]) /\ task[t].login \in Logins
           /\ load \in LoadRecords /\ load.revs \in Nat /\ signedOut \subseteq SignOuts
           /\ task[t].at \notin {"idle", "agent"} => born[task[t].login] = "born"
           /\ task[t].held \in Revisions /\ task[t].rejected \in Revisions
  BY DEF LoginFacts, TypeOK, Requests, LoadRecords, Fit

LEMMA SignOutTypes ==
    ASSUME NEW l \in Logins
    PROVE  Seen(l) \in SignOuts /\ Assumed(l) \in SignOuts
  BY DEF Seen, Assumed, SignOuts

\* What is served leaves the rest alone.
LEMMA ServedAlone ==
    ASSUME LoginFacts, Served, UNCHANGED <<store, age, over, restore>>, signedOut' \subseteq SignOuts,
           load' = load \/ Refusal \/ Fault
    PROVE  Effects
  <1>1. load' \in LoadRecords /\ load'.revs = load.revs
    BY SpendFields DEF LoginFacts, TypeOK, Refusal, Fault
  <1> QED
    BY <1>1, ServedEffects

LEMMA LiveRevision ==
    ASSUME LoginFacts, NEW l \in Logins, mem[l].rev > 0
    PROVE  Live(l)
  BY DEF Live, None

\* A request looks for its login in storage.
LEMMA FindEffects ==
    ASSUME LoginFacts, NEW t \in Tasks, NEW k \in Requests, born[k.login] = "born",
           k.login \notin Delegated, ~Live(k.login), ~Blocked(k.login), Find(t, k),
           UNCHANGED <<store, age, over, load, signedOut>>
    PROVE  Effects
  <1>1. load.revs \in Nat /\ k.login \in Logins
    BY DEF LoginFacts, TypeOK, LoadRecords, Requests
  <1>2. task' \in [Tasks -> Requests] /\ \A s \in Tasks : TaskStep(s)
    BY <1>1, AwaitFits, OneTask DEF LoginFacts, Find
  <1>3. restore[k.login] \in Restores
    BY <1>1 DEF LoginFacts, TypeOK
  <1>4. /\ restore' \in [Logins -> Restores]
        /\ restore'[k.login] = restore[k.login] \/ restore'[k.login].at = "get"
        /\ \A m \in Logins \ {k.login} : restore'[m] = restore[m]
    BY <1>1, <1>3 DEF LoginFacts, TypeOK, Find, Restores
  <1>5. TypeOK'
    BY <1>2, <1>4, SameSets DEF LoginFacts, TypeOK, Find, store
  <1>6. ASSUME NEW m \in Logins, m # k.login \/ restore'[k.login] = restore[k.login]
        PROVE  Rests(m)
    BY <1>4, <1>6 DEF Rests, Find, KeptStore, KeptEntry, KeptOver, KeptRestore, KeptRefresh,
       KeptRevoking, store
  <1>7. ASSUME restore'[k.login].at = "get"
        PROVE  Looks(k.login)
    BY <1>7 DEF Looks, Find, KeptStore, KeptEntry, KeptOver, KeptRefresh, KeptRevoking, store
  <1> QED
    BY <1>2, <1>4, <1>5, <1>6, <1>7 DEF Effects, Move

LEMMA AuthenticateEffects ==
    ASSUME LoginFacts, NEW t \in Tasks, NEW l \in Logins, Authenticate(t, l)
    PROVE  Effects
  <1> DEFINE k == [Idle(l) EXCEPT !.kind = "auth"]
  <1>1. load.revs \in Nat /\ signedOut \subseteq SignOuts
    BY DEF LoginFacts, TypeOK, LoadRecords
  <1>2. k \in Requests /\ k.login = l /\ born[k.login] = "born"
    BY <1>1, IdleFits DEF Requests, Authenticate
  <1> HIDE DEF k
  <1>3. UNCHANGED <<store, age, over, signedOut, load>> /\ l \notin Delegated
    BY DEF Authenticate
  <1>4. CASE Answer(t, k, "none") /\ UNCHANGED restore
    <2>1. Served
      BY <1>2, <1>4, AnswerServed
    <2> QED
      BY <1>1, <1>3, <1>4, <2>1, ServedAlone
  <1>5. CASE Live(l) /\ Fresh(t, k) /\ UNCHANGED restore
    <2>1. Served
      BY <1>2, <1>5, FreshServed
    <2> QED
      BY <1>1, <1>3, <1>5, <2>1, ServedAlone
  <1>6. CASE ~Blocked(l) /\ ~Live(l) /\ Find(t, k)
    BY <1>2, <1>3, <1>6, FindEffects
  <1> QED
    BY <1>4, <1>5, <1>6 DEF Authenticate, k

LEMMA SignOutEffects ==
    ASSUME LoginFacts, NEW t \in Tasks, NEW l \in Logins, SignOut(t, l)
    PROVE  Effects
  <1> DEFINE k == [Idle(l) EXCEPT !.kind = "out"]
  <1>1. load.revs \in Nat /\ signedOut \subseteq SignOuts
    BY DEF LoginFacts, TypeOK, LoadRecords
  <1>2. k \in Requests /\ k.login = l /\ born[k.login] = "born"
    BY <1>1, IdleFits DEF Requests, SignOut
  <1> HIDE DEF k
  <1>3. UNCHANGED <<store, age, over, load>> /\ l \notin Delegated
    BY DEF SignOut
  <1>4. ASSUME l \in pending, task' = [task EXCEPT ![t] = [k EXCEPT !.at = "revoking"]],
               revoking' = [revoking EXCEPT ![l] = IF @ = "none" THEN "callback" ELSE @],
               UNCHANGED <<mem, restore, refresh, pending, signedOut>>
        PROVE  Effects
    <2>1. task' \in [Tasks -> Requests] /\ \A s \in Tasks : TaskStep(s)
      BY <1>1, <1>2, <1>4, AwaitFits, OneTask DEF LoginFacts
    <2>2. revoking' \in [Logins -> {"none", "callback", "delete"}]
      BY <1>4 DEF LoginFacts, TypeOK
    <2>3. TypeOK'
      BY <1>3, <1>4, <2>1, <2>2, SameSets DEF LoginFacts, TypeOK, store
    <2>4. ASSUME NEW m \in Logins, m # l \/ revoking[l] # "none"
          PROVE  Rests(m)
      BY <1>3, <1>4, <2>4 DEF LoginFacts, TypeOK, Rests, KeptStore, KeptEntry, KeptOver, KeptRestore,
         KeptRefresh, KeptRevoking, store
    <2>5. ASSUME revoking[l] = "none"
          PROVE  Deletes(l)
      BY <1>3, <1>4, <2>5 DEF LoginFacts, TypeOK, Deletes, KeptEntry, KeptOver, KeptRestore,
         KeptRefresh, store
    <2> QED
      BY <1>3, <2>1, <2>3, <2>4, <2>5 DEF Effects, Move
  <1>5. CASE Answer(t, k, "ok") /\ signedOut' = signedOut \cup {Seen(l)} /\ UNCHANGED restore
    <2>1. Served
      BY <1>2, <1>5, AnswerServed
    <2> QED
      BY <1>1, <1>3, <1>5, <2>1, ServedAlone, SignOutTypes
  <1>6. CASE Live(l) /\ RevokeAwait(t, k) /\ UNCHANGED <<restore, signedOut>>
    <2>1. Served
      BY <1>2, <1>6, RevokeAwaitServed
    <2> QED
      BY <1>1, <1>3, <1>6, <2>1, ServedAlone
  <1>7. CASE ~Blocked(l) /\ ~Live(l) /\ Find(t, k) /\ UNCHANGED signedOut
    BY <1>2, <1>3, <1>7, FindEffects
  <1> QED
    BY <1>4, <1>5, <1>6, <1>7 DEF SignOut, k

LEMMA ResumeEffects ==
    ASSUME LoginFacts, NEW t \in Tasks, Resume(t)
    PROVE  Effects
  <1> DEFINE k == task[t]
  <1>1. /\ k \in Requests /\ Fit(k) /\ k.login \in Logins /\ signedOut \subseteq SignOuts
        /\ k.rejected \in Revisions /\ (k.at \notin {"idle", "agent"} => born[k.login] = "born")
    BY TaskFacts
  <1>2. UNCHANGED <<store, age, over, restore, load>>
    BY DEF Resume
  <1>3. CASE k.at = "found" /\ k.kind = "auth" /\ Answer(t, k, "none") /\ UNCHANGED signedOut
    BY <1>1, <1>2, <1>3, AnswerServed, ServedAlone
  <1>4. CASE k.at = "found" /\ k.kind = "auth" /\ FreshAgain(t, k) /\ UNCHANGED signedOut
    BY <1>1, <1>2, <1>4, FreshAgainServed, ServedAlone
  <1>5. CASE /\ k.at = "found" /\ mem[k.login].rev = k.held /\ RevokeAwait(t, k)
             /\ UNCHANGED signedOut
    <2>1. Live(k.login)
      BY <1>1, <1>5, LiveRevision DEF Fit
    <2> QED
      BY <1>1, <1>2, <1>5, <2>1, RevokeAwaitServed, ServedAlone
  <1>6. CASE k.at = "found" /\ Answer(t, k, "ok") /\ signedOut' = signedOut \cup {Assumed(k.login)}
    <2>1. signedOut' \subseteq SignOuts
      BY <1>1, <1>6, SignOutTypes
    <2> QED
      BY <1>1, <1>2, <1>6, <2>1, AnswerServed, ServedAlone
  <1>7. CASE k.at = "retry" /\ Rotate(t, k, k.rejected) /\ UNCHANGED signedOut
    BY <1>1, <1>2, <1>7, RotateServed, ServedAlone DEF Fit
  <1> QED
    BY <1>3, <1>4, <1>5, <1>6, <1>7 DEF Resume

\* Only the state of the request changes.
LEMMA OnlyTask ==
    ASSUME LoginFacts, NEW t \in Tasks, NEW k \in Requests, Fit(k), k.at # "read",
           task' = [task EXCEPT ![t] = k],
           UNCHANGED <<store, mem, age, over, work, signedOut>>, load' = load \/ Refusal
    PROVE  Effects
  <1>1. task' \in [Tasks -> Requests] /\ \A s \in Tasks : TaskStep(s)
    BY OneTask DEF LoginFacts
  <1>2. Served
    BY <1>1 DEF Served, Still, KeptRefresh, KeptRevoking, LoginFacts, TypeOK, work
  <1>3. signedOut' \subseteq SignOuts
    BY DEF LoginFacts, TypeOK
  <1> QED
    BY <1>2, <1>3, ServedAlone DEF work

LEMMA AuthorizedEffects ==
    ASSUME LoginFacts, NEW t \in Tasks, Authorized(t)
    PROVE  Effects
  <1> DEFINE k == task[t]
  <1>1. /\ k \in Requests /\ Fit(k) /\ k.login \in Logins /\ signedOut' \subseteq SignOuts
        /\ born[k.login] = "born" /\ k.held > 0
    BY TaskFacts DEF Authorized, Fit
  <1>2. UNCHANGED <<store, age, over, restore, signedOut>>
    BY DEF Authorized
  <1>3. CASE FreshAgain(t, k) /\ UNCHANGED load
    BY <1>1, <1>2, <1>3, FreshAgainServed, ServedAlone
  <1>4. CASE Resolve(t, k) /\ UNCHANGED load
    <2>1. CASE Answer(t, k, "ok")
      BY <1>1, <1>2, <1>4, <2>1, AnswerServed, ServedAlone
    <2>2. CASE ~Answer(t, k, "ok")
      <3>1. /\ [k EXCEPT !.at = "resolved", !.result = "ok"] \in Requests
            /\ [k EXCEPT !.at = "resolved", !.result = "ok"].at = "resolved"
            /\ [k EXCEPT !.at = "resolved", !.result = "ok"].login = k.login
        BY <1>1 DEF Requests
      <3>2. Fit([k EXCEPT !.at = "resolved", !.result = "ok"])
        BY <1>1, <3>1 DEF Fit
      <3>3. /\ task' = [task EXCEPT ![t] = [k EXCEPT !.at = "resolved", !.result = "ok"]]
            /\ UNCHANGED <<mem, refresh, revoking, pending>>
        BY <1>4, <2>2 DEF Resolve
      <3> QED
        BY <1>2, <1>4, <3>1, <3>2, <3>3, OnlyTask DEF work
    <2> QED
      BY <2>1, <2>2
  <1>5. CASE mem[k.login].rev = k.held /\ Refusal /\ RevokeAwait(t, k)
    <2>1. Live(k.login)
      BY <1>1, <1>5, LiveRevision
    <2> QED
      BY <1>1, <1>2, <1>5, <2>1, RevokeAwaitServed, ServedAlone
  <1> QED
    BY <1>3, <1>4, <1>5 DEF Authorized

LEMMA OperatedEffects ==
    ASSUME LoginFacts, NEW t \in Tasks, Operated(t)
    PROVE  Effects
  <1> DEFINE k == task[t]
  <1>1. /\ k \in Requests /\ Fit(k) /\ load.revs \in Nat /\ born[k.login] = "born"
    BY TaskFacts DEF Operated
  <1>2. UNCHANGED <<store, mem, age, over, work, signedOut>>
    BY DEF Operated
  <1>3. CASE task' = [task EXCEPT ![t] = [k EXCEPT !.at = "checked"]] /\ UNCHANGED load
    <2>1. /\ [k EXCEPT !.at = "checked"] \in Requests /\ [k EXCEPT !.at = "checked"].at = "checked"
          /\ [k EXCEPT !.at = "checked"].login = k.login
      BY <1>1 DEF Requests
    <2>2. Fit([k EXCEPT !.at = "checked"])
      BY <1>1, <2>1 DEF Fit
    <2> QED
      BY <1>2, <1>3, <2>1, <2>2, OnlyTask
  <1>4. CASE task' = [task EXCEPT ![t] = Done(k, "none")] /\ Refusal
    BY <1>1, <1>2, <1>4, DoneFits, OnlyTask
  <1> QED
    BY <1>3, <1>4 DEF Operated

LEMMA RefusedEffects ==
    ASSUME LoginFacts, NEW t \in Tasks, Refused(t)
    PROVE  Effects
  <1> DEFINE k == task[t]
  <1>1. /\ k \in Requests /\ Fit(k) /\ k.login \in Logins /\ signedOut' \subseteq SignOuts
        /\ born[k.login] = "born" /\ k.held \in Revisions /\ k.held < load.revs
    BY TaskFacts DEF Refused
  <1>2. UNCHANGED <<store, age, over, restore, signedOut>> /\ Refusal
    BY DEF Refused
  <1>3. CASE Rotate(t, k, k.held)
    BY <1>1, <1>2, <1>3, RotateServed, ServedAlone
  <1>4. CASE /\ task' = [task EXCEPT ![t] = [k EXCEPT !.at = "rejecting"]]
             /\ UNCHANGED <<mem, refresh, revoking, pending>>
    <2>1. /\ [k EXCEPT !.at = "rejecting"] \in Requests
          /\ [k EXCEPT !.at = "rejecting"].at = "rejecting"
          /\ [k EXCEPT !.at = "rejecting"].login = k.login
      BY <1>1 DEF Requests
    <2>2. Fit([k EXCEPT !.at = "rejecting"])
      BY <1>1, <2>1 DEF Fit
    <2> QED
      BY <1>2, <1>4, <2>1, <2>2, OnlyTask DEF work
  <1> QED
    BY <1>3, <1>4 DEF Refused

LEMMA CallFailsEffects ==
    ASSUME LoginFacts, NEW t \in Tasks, CallFails(t)
    PROVE  Effects
  BY TaskFacts, AnswerServed, ServedAlone DEF CallFails

LEMMA RejectEffects ==
    ASSUME LoginFacts, NEW t \in Tasks, Reject(t)
    PROVE  Effects
  <1> DEFINE k == task[t]
  <1>1. /\ k \in Requests /\ k.login \in Logins /\ signedOut' \subseteq SignOuts
        /\ born[k.login] = "born"
    BY TaskFacts DEF Reject
  <1>2. UNCHANGED <<store, age, over, restore, signedOut, load>>
    BY DEF Reject
  <1>3. CASE Answer(t, k, "none")
    BY <1>1, <1>2, <1>3, AnswerServed, ServedAlone
  <1>4. CASE Answer(t, k, "error")
    BY <1>1, <1>2, <1>4, AnswerServed, ServedAlone
  <1>5. CASE Live(k.login) /\ RevokeAwait(t, k)
    BY <1>1, <1>2, <1>5, RevokeAwaitServed, ServedAlone
  <1>6. CASE Live(k.login) /\ Fresh(t, k)
    BY <1>1, <1>2, <1>6, FreshServed, ServedAlone
  <1> QED
    BY <1>3, <1>4, <1>5, <1>6 DEF Reject

-----------------------------------------------------------------------------
(* The actions of a login.                                                 *)

\* Requests that await a revocation, a refresh or a restore, when it ends.
LEMMA EndsFields ==
    ASSUME LoginFacts, NEW l \in Logins, NEW rev \in Revisions, NEW failed \in BOOLEAN,
           Ends(l, rev, failed)
    PROVE  /\ refresh' \in [Logins -> Refreshes] /\ refresh'[l] = NoRefresh
           /\ \A m \in Logins \ {l} : KeptRefresh(m)
           /\ task' \in [Tasks -> Requests] /\ \A t \in Tasks : TaskStep(t)
  <1>1. load.revs \in Nat
    BY DEF LoginFacts, TypeOK, LoadRecords
  <1>2. NoRefresh \in Refreshes
    BY <1>1 DEF NoRefresh, None, Refreshes, Credentials, Revisions, Tokens
  <1>3. /\ refresh' \in [Logins -> Refreshes] /\ refresh'[l] = NoRefresh
        /\ \A m \in Logins \ {l} : KeptRefresh(m)
    BY <1>2 DEF Ends, LoginFacts, TypeOK, KeptRefresh
  <1>4. ASSUME NEW t \in Tasks
        PROVE  task'[t] \in Requests /\ TaskStep(t)
    <2>1. /\ task[t] \in Requests /\ Fit(task[t])
          /\ task[t].at = "rotating" => born[task[t].login] = "born"
      BY TaskFacts
    <2>2. CASE task[t].at # "rotating" \/ task[t].login # l
      BY <2>1, <2>2 DEF Ends, TaskStep
    <2>3. CASE ~(task[t].at # "rotating" \/ task[t].login # l) /\ failed
      BY <1>1, <2>1, <2>3, DoneFits DEF Ends, TaskStep
    <2>4. CASE /\ ~(task[t].at # "rotating" \/ task[t].login # l) /\ ~failed
               /\ task'[t] = [task[t] EXCEPT !.at = "retry"]
      <3>1. /\ [task[t] EXCEPT !.at = "retry"] \in Requests
            /\ [task[t] EXCEPT !.at = "retry"].at = "retry"
            /\ [task[t] EXCEPT !.at = "retry"].rejected = task[t].rejected
            /\ [task[t] EXCEPT !.at = "retry"].login = task[t].login
        BY <2>1 DEF Requests
      <3> QED
        BY <2>1, <2>4, <3>1 DEF Fit, TaskStep
    <2>5. CASE /\ ~(task[t].at # "rotating" \/ task[t].login # l) /\ ~failed
               /\ task'[t] = Rotated(task[t], rev)
      BY <1>1, <2>1, <2>5, RotatedFits DEF TaskStep
    <2> QED
      BY <2>2, <2>3, <2>4, <2>5 DEF Ends
  <1>5. task' \in [Tasks -> Requests]
    BY <1>4 DEF Ends
  <1> QED
    BY <1>3, <1>4, <1>5

LEMMA AfterRevokeFields ==
    ASSUME LoginFacts, NEW l \in Logins, NEW failed \in BOOLEAN, AfterRevoke(l, failed)
    PROVE  /\ refresh' \in [Logins -> Refreshes]
           /\ KeptRefresh(l) \/ (refresh[l].at = "revoke" /\ refresh'[l].at = "ends")
           /\ \A m \in Logins \ {l} : KeptRefresh(m)
           /\ task' \in [Tasks -> Requests] /\ \A t \in Tasks : TaskStep(t)
           /\ signedOut' \subseteq SignOuts
  <1>1. load.revs \in Nat
    BY DEF LoginFacts, TypeOK, LoadRecords
  <1>2. None \in Credentials /\ 0 \in Tokens /\ 1 \in Tokens /\ refresh[l] \in Refreshes
    BY <1>1 DEF None, Credentials, Revisions, Tokens, LoginFacts, TypeOK
  <1>3. /\ refresh' \in [Logins -> Refreshes]
        /\ KeptRefresh(l) \/ (refresh[l].at = "revoke" /\ refresh'[l].at = "ends")
        /\ \A m \in Logins \ {l} : KeptRefresh(m)
    <2>1. CASE refresh[l].at = "revoke"
      <3> DEFINE r == [refresh[l] EXCEPT !.at = "ends", !.held = None,
                                         !.grant = IF failed THEN 1 ELSE 0]
      <3>1. r \in Refreshes /\ r.at = "ends"
        BY <1>2 DEF Refreshes
      <3>2. refresh' = [refresh EXCEPT ![l] = r]
        BY <2>1 DEF AfterRevoke
      <3> QED
        BY <2>1, <3>1, <3>2 DEF LoginFacts, TypeOK, KeptRefresh
    <2>2. CASE refresh[l].at # "revoke"
      BY <2>2 DEF AfterRevoke, LoginFacts, TypeOK, KeptRefresh
    <2> QED
      BY <2>1, <2>2
  <1>4. ASSUME NEW t \in Tasks
        PROVE  task'[t] \in Requests /\ TaskStep(t)
    <2>1. task[t] \in Requests
      BY TaskFacts
    <2>2. \/ task'[t] = task[t]
          \/ \E r \in {"none", "ok", "error"} : task'[t] = Done(task[t], r)
      BY DEF AfterRevoke
    <2> QED
      BY <1>1, <2>1, <2>2, DoneFits DEF TaskStep
  <1>5. task' \in [Tasks -> Requests] /\ signedOut' \subseteq SignOuts
    BY <1>4, SignOutTypes DEF AfterRevoke, LoginFacts, TypeOK
  <1> QED
    BY <1>3, <1>4, <1>5

LEMMA FoundFields ==
    ASSUME LoginFacts, NEW l \in Logins, NEW rev \in Revisions, Found(l, rev)
    PROVE  /\ restore' \in [Logins -> Restores] /\ restore'[l] = NoRestore
           /\ \A m \in Logins \ {l} : KeptRestore(m)
           /\ task' \in [Tasks -> Requests] /\ \A t \in Tasks : TaskStep(t)
           /\ signedOut' \subseteq SignOuts
  <1>1. load.revs \in Nat
    BY DEF LoginFacts, TypeOK, LoadRecords
  <1>2. NoRestore \in Restores
    BY <1>1 DEF NoRestore, Restores, Revisions, Tokens
  <1>3. /\ restore' \in [Logins -> Restores] /\ restore'[l] = NoRestore
        /\ \A m \in Logins \ {l} : KeptRestore(m)
    BY <1>2 DEF Found, LoginFacts, TypeOK, KeptRestore
  <1>4. ASSUME NEW t \in Tasks
        PROVE  task'[t] \in Requests /\ TaskStep(t)
    <2>1. /\ task[t] \in Requests
          /\ task[t].at = "finding" => born[task[t].login] = "born"
      BY TaskFacts
    <2>2. \/ task'[t] = task[t]
          \/ \E r \in {"none", "ok", "error"} : task'[t] = Done(task[t], r)
          \/ /\ task[t].at = "finding" /\ rev # 0
             /\ task'[t] = [task[t] EXCEPT !.at = "found", !.held = rev]
      BY DEF Found
    <2>3. ASSUME rev # 0, task[t].at = "finding",
                 task'[t] = [task[t] EXCEPT !.at = "found", !.held = rev]
          PROVE  task'[t] \in Requests /\ Fit(task'[t]) /\ task'[t].at # "read"
      <3>1. PICK k : k = [task[t] EXCEPT !.at = "found", !.held = rev]
        OBVIOUS
      <3>2. k \in Requests /\ k.at = "found" /\ k.held = rev /\ k.login = task[t].login
        BY <2>1, <3>1 DEF Requests
      <3>3. rev > 0
        BY <2>3 DEF Revisions
      <3>4. Fit(k)
        BY <2>1, <2>3, <3>2, <3>3 DEF Fit
      <3> QED
        BY <2>3, <3>1, <3>2, <3>4
    <2>4. ASSUME NEW r \in {"none", "ok", "error"}, task'[t] = Done(task[t], r)
          PROVE  task'[t] \in Requests /\ Fit(task'[t]) /\ task'[t].at # "read"
      BY <1>1, <2>1, <2>4, DoneFits
    <2> QED
      BY <2>1, <2>2, <2>3, <2>4 DEF TaskStep
  <1>5. task' \in [Tasks -> Requests] /\ signedOut' \subseteq SignOuts
    BY <1>4, SignOutTypes DEF Found, LoginFacts, TypeOK
  <1> QED
    BY <1>3, <1>4, <1>5

\* One login changes.
LEMMA OneLogin ==
    ASSUME TypeOK', load'.revs = load.revs, NEW l \in Logins, Move(l),
           \A m \in Logins \ {l} : Rests(m), \A t \in Tasks : TaskStep(t)
    PROVE  Effects
  BY DEF Effects, Move

LEMMA SameTasks == ASSUME task' = task PROVE \A t \in Tasks : TaskStep(t)
  BY DEF TaskStep

LEMMA IssueRowEffects ==
    ASSUME LoginFacts, NEW l \in Logins, IssueRow(l)
    PROVE  Effects
  <1>0. load.revs \in Nat /\ load.revs > 0
    BY DEF LoginFacts, TypeOK, LoadRecords
  <1>1. TypeOK' /\ load'.revs = load.revs
    BY <1>0, SameSets DEF IssueRow, LoginFacts, TypeOK, store, work, Births, Rows, Revisions, Tokens
  <1>2. \A m \in Logins \ {l} : Rests(m)
    BY DEF IssueRow, LoginFacts, TypeOK, store, work, Rests, KeptStore, KeptEntry, KeptOver,
       KeptRestore, KeptRefresh, KeptRevoking
  <1>3. Signs(l)
    BY <1>0 DEF IssueRow, LoginFacts, TypeOK, store, work, Signs, KeptStore, KeptEntry, KeptOver,
       KeptRestore, KeptRefresh, KeptRevoking, LoginPart
  <1>4. \A t \in Tasks : TaskStep(t)
    BY SameTasks DEF IssueRow
  <1> QED
    BY <1>1, <1>2, <1>3, <1>4, OneLogin DEF Move

LEMMA IssueEffects ==
    ASSUME LoginFacts, NEW l \in Logins, Issue(l)
    PROVE  Effects
  <1>0. load.revs \in Nat /\ load.revs > 0
    BY DEF LoginFacts, TypeOK, LoadRecords
  <1>1. TypeOK' /\ load'.revs = load.revs
    BY <1>0, SameSets DEF Issue, LoginFacts, TypeOK, store, work, Births, Credentials, Revisions, Tokens
  <1>2. \A m \in Logins \ {l} : Rests(m)
    BY DEF Issue, LoginFacts, TypeOK, store, work, Rests, KeptStore, KeptEntry, KeptOver,
       KeptRestore, KeptRefresh, KeptRevoking
  <1>3. Signs(l)
    BY <1>0 DEF Issue, LoginFacts, TypeOK, store, work, Signs, KeptStore, KeptEntry, KeptOver,
       KeptRestore, KeptRefresh, KeptRevoking, LoginPart
  <1>4. \A t \in Tasks : TaskStep(t)
    BY SameTasks DEF Issue
  <1> QED
    BY <1>1, <1>2, <1>3, <1>4, OneLogin DEF Move

LEMMA AgedEffects ==
    ASSUME LoginFacts, NEW l \in Logins, Aged(l)
    PROVE  Effects
  <1>0. load.revs \in Nat /\ load.revs > 0
    BY DEF LoginFacts, TypeOK, LoadRecords
  <1>1. TypeOK' /\ load'.revs = load.revs
    BY <1>0, SameSets DEF Aged, LoginFacts, TypeOK, store, work
  <1>2. \A m \in Logins \ {l} : Rests(m)
    BY DEF Aged, LoginFacts, TypeOK, store, work, Rests, KeptStore, KeptEntry, KeptOver,
       KeptRestore, KeptRefresh, KeptRevoking
  <1>3. Ages(l)
    BY <1>0 DEF Live, Aged, LoginFacts, TypeOK, store, work, Ages, KeptStore, KeptEntry, KeptOver,
       KeptRestore, KeptRefresh, KeptRevoking, LoginPart
  <1>4. \A t \in Tasks : TaskStep(t)
    BY SameTasks DEF Aged
  <1> QED
    BY <1>1, <1>2, <1>3, <1>4, OneLogin DEF Move

LEMMA ExpiredEffects ==
    ASSUME LoginFacts, NEW l \in Logins, Expired(l)
    PROVE  Effects
  <1>0. load.revs \in Nat /\ load.revs > 0
    BY DEF LoginFacts, TypeOK, LoadRecords
  <1>1. TypeOK' /\ load'.revs = load.revs
    BY <1>0, SameSets DEF Expired, LoginFacts, TypeOK, store, work
  <1>2. \A m \in Logins \ {l} : Rests(m)
    BY DEF Expired, LoginFacts, TypeOK, store, work, Rests, KeptStore, KeptEntry, KeptOver,
       KeptRestore, KeptRefresh, KeptRevoking
  <1>3. Ages(l)
    BY <1>0 DEF Expired, LoginFacts, TypeOK, store, work, Ages, KeptStore, KeptEntry, KeptOver,
       KeptRestore, KeptRefresh, KeptRevoking, LoginPart
  <1>4. \A t \in Tasks : TaskStep(t)
    BY SameTasks DEF Expired
  <1> QED
    BY <1>1, <1>2, <1>3, <1>4, OneLogin DEF Move

LEMMA RevokeDeleteEffects ==
    ASSUME LoginFacts, NEW l \in Logins, RevokeDelete(l)
    PROVE  Effects
  <1>0. load.revs \in Nat /\ load.revs > 0
    BY DEF LoginFacts, TypeOK, LoadRecords
  <1>1. TypeOK' /\ load'.revs = load.revs
    BY <1>0, SameSets DEF RevokeDelete, LoginFacts, TypeOK, store, work
  <1>2. \A m \in Logins \ {l} : Rests(m)
    BY DEF RevokeDelete, LoginFacts, TypeOK, store, work, Rests, KeptStore, KeptEntry, KeptOver,
       KeptRestore, KeptRefresh, KeptRevoking
  <1>3. Deletes(l)
    BY <1>0 DEF RevokeDelete, LoginFacts, TypeOK, store, work, Deletes, KeptStore, KeptEntry, KeptOver,
       KeptRestore, KeptRefresh, KeptRevoking, LoginPart
  <1>4. \A t \in Tasks : TaskStep(t)
    BY SameTasks DEF RevokeDelete
  <1> QED
    BY <1>1, <1>2, <1>3, <1>4, OneLogin DEF Move

LEMMA CleanPendingEffects ==
    ASSUME LoginFacts, NEW l \in Logins, CleanPending(l)
    PROVE  Effects
  <1>0. load.revs \in Nat /\ load.revs > 0
    BY DEF LoginFacts, TypeOK, LoadRecords
  <1>1. TypeOK' /\ load'.revs = load.revs
    BY <1>0, SameSets DEF CleanPending, LoginFacts, TypeOK, store, work, NoRow, Rows, Revisions, Tokens
  <1>2. \A m \in Logins \ {l} : Rests(m)
    BY DEF CleanPending, LoginFacts, TypeOK, store, work, Rests, KeptStore, KeptEntry, KeptOver,
       KeptRestore, KeptRefresh, KeptRevoking
  <1>3. Deletes(l)
    BY <1>0 DEF CleanPending, LoginFacts, TypeOK, store, work, Deletes, KeptStore, KeptEntry, KeptOver,
       KeptRestore, KeptRefresh, KeptRevoking, LoginPart
  <1>4. \A t \in Tasks : TaskStep(t)
    BY SameTasks DEF CleanPending
  <1> QED
    BY <1>1, <1>2, <1>3, <1>4, OneLogin DEF Move

LEMMA CleanRowsEffects ==
    ASSUME LoginFacts, NEW l \in Logins, CleanRows(l)
    PROVE  Effects
  <1>0. load.revs \in Nat /\ load.revs > 0
    BY DEF LoginFacts, TypeOK, LoadRecords
  <1>1. TypeOK' /\ load'.revs = load.revs
    BY <1>0, SameSets DEF CleanRows, LoginFacts, TypeOK, store, work, NoRow, Rows, Revisions, Tokens
  <1>2. \A m \in Logins \ {l} : Rests(m)
    BY DEF CleanRows, LoginFacts, TypeOK, store, work, Rests, KeptStore, KeptEntry, KeptOver,
       KeptRestore, KeptRefresh, KeptRevoking
  <1>3. Deletes(l)
    BY <1>0 DEF CleanRows, LoginFacts, TypeOK, store, work, Deletes, KeptStore, KeptEntry, KeptOver,
       KeptRestore, KeptRefresh, KeptRevoking, LoginPart
  <1>4. \A t \in Tasks : TaskStep(t)
    BY SameTasks DEF CleanRows
  <1> QED
    BY <1>1, <1>2, <1>3, <1>4, OneLogin DEF Move

LEMMA CleanExpiredEffects ==
    ASSUME LoginFacts, NEW l \in Logins, CleanExpired(l)
    PROVE  Effects
  <1>1. Live(l) /\ RevokeNow(l)
    BY DEF CleanExpired
  <1>2. TypeOK' /\ load'.revs = load.revs
    BY <1>1, RevokeNowFields, SameSets DEF CleanExpired, LoginFacts, TypeOK, store
  <1>3. Revoked(l) /\ \A m \in Logins \ {l} : Rests(m)
    BY <1>1, RevokeNowFields DEF CleanExpired, store, Revoked, Rests, KeptStore, KeptEntry, KeptOver,
       KeptRestore, KeptRefresh
  <1>4. \A t \in Tasks : TaskStep(t)
    BY SameTasks DEF CleanExpired
  <1> QED
    BY <1>2, <1>3, <1>4, OneLogin DEF Move

LEMMA EndEffects ==
    ASSUME LoginFacts, NEW l \in Logins, End(l)
    PROVE  Effects
  <1>1. Live(l) /\ RevokeNow(l)
    BY DEF End
  <1>2. TypeOK' /\ load'.revs = load.revs
    BY <1>1, RevokeNowFields, SameSets DEF End, LoginFacts, TypeOK, store
  <1>3. Revoked(l) /\ \A m \in Logins \ {l} : Rests(m)
    BY <1>1, RevokeNowFields DEF End, store, Revoked, Rests, KeptStore, KeptEntry, KeptOver,
       KeptRestore, KeptRefresh
  <1>4. \A t \in Tasks : TaskStep(t)
    BY SameTasks DEF End
  <1> QED
    BY <1>2, <1>3, <1>4, OneLogin DEF Move

LEMMA RevokeDeletedEffects ==
    ASSUME LoginFacts, NEW l \in Logins, RevokeDeleted(l)
    PROVE  Effects
  <1>0. load.revs \in Nat /\ load' \in LoadRecords /\ load'.revs = load.revs
    BY SpendFields DEF RevokeDeleted, LoginFacts, TypeOK, LoadRecords, Fault
  <1>1. AfterRevoke(l, FALSE)
    BY DEF RevokeDeleted
  <1>2. NoRow \in Rows
    BY <1>0 DEF NoRow, Rows, Revisions, Tokens
  <1>3. TypeOK'
    BY <1>0, <1>1, <1>2, AfterRevokeFields, SameSets DEF RevokeDeleted, LoginFacts, TypeOK
  <1>4. \A m \in Logins \ {l} : Rests(m)
    BY <1>1, AfterRevokeFields DEF RevokeDeleted, LoginFacts, TypeOK, Rests, KeptStore, KeptEntry, KeptOver,
       KeptRestore, KeptRevoking
  <1>5. Deletes(l)
    <2>1. /\ refresh' \in [Logins -> Refreshes]
          /\ KeptRefresh(l) \/ (refresh[l].at = "revoke" /\ refresh'[l].at = "ends")
      BY <1>1, AfterRevokeFields
    <2> QED
      BY <2>1 DEF RevokeDeleted, LoginFacts, TypeOK, Deletes, KeptEntry, KeptOver, KeptRestore
  <1>6. \A t \in Tasks : TaskStep(t)
    BY <1>1, AfterRevokeFields
  <1> QED
    BY <1>0, <1>3, <1>4, <1>5, <1>6, OneLogin DEF Move

LEMMA RevokeFailsEffects ==
    ASSUME LoginFacts, NEW l \in Logins, RevokeFails(l)
    PROVE  Effects
  <1>0. load.revs \in Nat /\ load' \in LoadRecords /\ load'.revs = load.revs
    BY SpendFields DEF RevokeFails, LoginFacts, TypeOK, LoadRecords, Fault
  <1>1. AfterRevoke(l, TRUE)
    BY DEF RevokeFails
  <1>2. NoRow \in Rows
    BY <1>0 DEF NoRow, Rows, Revisions, Tokens
  <1>3. TypeOK'
    <2>1. /\ refresh' \in [Logins -> Refreshes] /\ task' \in [Tasks -> Requests]
          /\ signedOut' \subseteq SignOuts
      BY <1>1, AfterRevokeFields
    <2>2. row' \in [Logins -> Rows]
      BY <1>2 DEF RevokeFails, LoginFacts, TypeOK
    <2>3. revoking' \in [Logins -> {"none", "callback", "delete"}]
      BY DEF RevokeFails, LoginFacts, TypeOK
    <2> QED
      BY <1>0, <2>1, <2>2, <2>3, SameSets DEF RevokeFails, LoginFacts, TypeOK
  <1>4. \A m \in Logins \ {l} : Rests(m)
    BY <1>1, AfterRevokeFields DEF RevokeFails, LoginFacts, TypeOK, Rests, KeptStore, KeptEntry, KeptOver,
       KeptRestore, KeptRevoking
  <1>5. Deletes(l)
    <2>1. /\ refresh' \in [Logins -> Refreshes]
          /\ KeptRefresh(l) \/ (refresh[l].at = "revoke" /\ refresh'[l].at = "ends")
      BY <1>1, AfterRevokeFields
    <2> QED
      BY <2>1 DEF RevokeFails, LoginFacts, TypeOK, Deletes, KeptEntry, KeptOver, KeptRestore
  <1>6. \A t \in Tasks : TaskStep(t)
    BY <1>1, AfterRevokeFields
  <1> QED
    BY <1>0, <1>3, <1>4, <1>5, <1>6, OneLogin DEF Move

\* The token GitHub accepts moves on for one login at most, and with no reply it is lost.
Spent(l) ==
    /\ github' \in [Logins -> Tokens] /\ lost' \subseteq Logins /\ lost \subseteq lost'
    /\ \A m \in Logins \ {l} : github'[m] = github[m] /\ (m \in lost' <=> m \in lost)

LEMMA NoneSpent ==
    ASSUME LoginFacts, NEW l \in Logins, lost' = lost,
           github' = github \/ github' = [github EXCEPT ![l] = @ + 1]
    PROVE  Spent(l)
  BY DEF Spent, LoginFacts, TypeOK, Tokens

LEMMA LoadKept ==
    ASSUME LoginFacts, load' = load \/ Fault \/ Refusal
    PROVE  load' \in LoadRecords /\ load'.revs = load.revs
  BY SpendFields DEF LoginFacts, TypeOK, Fault, Refusal

LEMMA RefreshFacts ==
    ASSUME LoginFacts, NEW l \in Logins
    PROVE  /\ refresh[l] \in Refreshes /\ mem[l] \in Credentials /\ mem[l].rev \in Revisions
           /\ refresh[l].held.rev \in Revisions /\ refresh[l].grant \in Tokens
           /\ refresh[l].held \in Credentials /\ load.revs \in Nat /\ 0 \in Revisions
           /\ refresh[l].at \in Renewing =>
                 /\ refresh[l].held.rev > 0 /\ refresh[l].held.rev < load.revs
                 /\ Held(l) => Live(l)
  BY DEF LoginFacts, TypeOK, Refreshes, Credentials, LoginPart, RefreshInv, Held, Live, None,
         LoadRecords, Revisions

\* A refresh that comes to nothing.
LEMMA StopsEffects ==
    ASSUME LoginFacts, NEW l \in Logins, NEW rev \in Revisions, NEW failed \in BOOLEAN,
           Ends(l, rev, failed), mem' = mem, Spent(l),
           UNCHANGED <<born, row, age, over, restore, revoking, pending, signedOut>>,
           load' = load \/ Fault \/ Refusal,
           \/ refresh[l].at \in Renewing /\ ~Held(l)
           \/ refresh[l].at \in {"source", "github", "ends"} /\ github' = github
           \/ refresh[l].at = "github" /\ l \in lost'
    PROVE  Effects
  <1>0. load' \in LoadRecords /\ load'.revs = load.revs
    BY LoadKept
  <1>1. TypeOK'
    BY <1>0, EndsFields, SameSets DEF LoginFacts, TypeOK, Spent
  <1>2. \A m \in Logins \ {l} : Rests(m)
    BY EndsFields DEF Rests, KeptStore, KeptEntry, KeptOver, KeptRestore, KeptRevoking, Spent
  <1>3. Stops(l)
    <2>1. refresh'[l] = NoRefresh
      BY EndsFields
    <2> QED
      BY <2>1 DEF Stops, KeptOver, KeptRestore, KeptRevoking, Spent
  <1>4. \A t \in Tasks : TaskStep(t)
    BY EndsFields
  <1> QED
    BY <1>0, <1>1, <1>2, <1>3, <1>4, OneLogin DEF Move

\* A refresh that revokes its login, if it still holds it.
LEMMA RefreshRevokesEffects ==
    ASSUME LoginFacts, NEW l \in Logins, refresh[l].at \in Renewing, RefreshRevokes(l),
           Spent(l), lost' = lost, UNCHANGED <<born, row, age, over, restore, signedOut>>,
           load' = load \/ Fault \/ Refusal
    PROVE  Effects
  <1>1. CASE ~Held(l)
    BY <1>1, RefreshFacts, StopsEffects DEF RefreshRevokes
  <1>2. CASE Held(l)
    <2>1. /\ RevokeNow(l) /\ refresh' = [refresh EXCEPT ![l].at = "revoke"] /\ task' = task
          /\ Live(l) /\ load' \in LoadRecords /\ load'.revs = load.revs
      BY <1>2, RefreshFacts, LoadKept DEF RefreshRevokes
    <2>2. /\ refresh' \in [Logins -> Refreshes] /\ refresh'[l].at = "revoke"
          /\ \A m \in Logins \ {l} : KeptRefresh(m)
      <3>1. [refresh[l] EXCEPT !.at = "revoke"] \in Refreshes
        BY RefreshFacts DEF Refreshes
      <3> QED
        BY <2>1, <3>1, RefreshFacts DEF LoginFacts, TypeOK, KeptRefresh, Refreshes
    <2>3. TypeOK'
      BY <2>1, <2>2, RevokeNowFields, SameSets DEF LoginFacts, TypeOK, Spent
    <2>4. \A m \in Logins \ {l} : Rests(m)
      BY <2>1, <2>2, RevokeNowFields DEF Rests, KeptStore, KeptEntry, KeptOver, KeptRestore, Spent
    <2>5. Revoked(l)
      BY <1>2, <2>1, <2>2, RevokeNowFields DEF Revoked, KeptOver, KeptRestore
    <2> QED
      BY <2>1, <2>3, <2>4, <2>5, SameTasks, OneLogin DEF Move
  <1> QED
    BY <1>1, <1>2

\* A refresh whose replacement is published.
LEMMA InstallEffects ==
    ASSUME LoginFacts, NEW l \in Logins, Held(l), Install(l, refresh[l].grant),
           refresh[l].at = "reply" \/ (refresh[l].at = "before" /\ l \in Delegated),
           UNCHANGED <<store, over, restore, revoking, pending, signedOut, load>>
    PROVE  Effects
  <1> DEFINE rev == refresh[l].held.rev + 1
  <1>1. refresh[l].at \in Renewing
    BY DEF Renewing
  <1>2. rev \in Revisions /\ [rev |-> rev, tok |-> refresh[l].grant] \in Credentials
    BY <1>1, RefreshFacts DEF Revisions, Credentials
  <1>3. Ends(l, rev, FALSE)
    BY DEF Install
  <1>4. /\ mem' \in [Logins -> Credentials] /\ mem'[l] = [rev |-> rev, tok |-> refresh[l].grant]
        /\ age' \in [Logins -> 0 .. 3] /\ age'[l] = 0
        /\ \A m \in Logins \ {l} : KeptEntry(m)
    BY <1>2 DEF Install, LoginFacts, TypeOK, KeptEntry
  <1>5. TypeOK'
    BY <1>2, <1>3, <1>4, EndsFields, SameSets DEF LoginFacts, TypeOK, store
  <1>6. \A m \in Logins \ {l} : Rests(m)
    BY <1>2, <1>3, <1>4, EndsFields DEF Rests, KeptStore, KeptOver, KeptRestore, KeptRevoking, store
  <1>7. Installs(l)
    <2>1. refresh'[l] = NoRefresh
      BY <1>2, <1>3, EndsFields
    <2> QED
      BY <1>4, <2>1 DEF Installs, KeptStore, KeptOver, KeptRestore, KeptRevoking, store
  <1>8. \A t \in Tasks : TaskStep(t)
    BY <1>2, <1>3, EndsFields
  <1> QED
    BY <1>5, <1>6, <1>7, <1>8, OneLogin DEF Move

\* A refresh that goes on.
LEMMA GoesEffects ==
    ASSUME LoginFacts, NEW l \in Logins, Goes(l), NEW r \in Refreshes,
           refresh' = [refresh EXCEPT ![l] = r], Spent(l), lost' = lost, row' \in [Logins -> Rows],
           \A m \in Logins \ {l} : row'[m] = row[m],
           UNCHANGED <<born, mem, age, over, restore, revoking, pending, task, signedOut, load>>
    PROVE  Effects
  <1>1. TypeOK'
    BY SameSets DEF LoginFacts, TypeOK, Spent
  <1>2. \A m \in Logins \ {l} : Rests(m)
    BY DEF Rests, KeptStore, KeptEntry, KeptOver, KeptRestore, KeptRefresh, KeptRevoking, Spent,
       LoginFacts, TypeOK
  <1> QED
    BY <1>1, <1>2, SameTasks, OneLogin DEF Move

LEMMA RefreshBeforeEffects ==
    ASSUME LoginFacts, NEW l \in Logins, RefreshBefore(l)
    PROVE  Effects
  <1>0. /\ refresh[l].at = "before" /\ refresh[l].at \in Renewing /\ lost' = lost
        /\ UNCHANGED <<store, over, restore, revoking, pending, signedOut, load>>
        /\ github' = github /\ row' = row
    BY DEF RefreshBefore, Renewing, store
  <1>1. Spent(l)
    BY <1>0, NoneSpent
  <1>2. CASE Overtaken(l) /\ UNCHANGED age
    BY <1>0, <1>1, <1>2, RefreshFacts, StopsEffects DEF Overtaken, store
  <1>3. CASE l \notin Delegated /\ Go(l, "github") /\ UNCHANGED age
    <2>1. PICK r : r = [refresh[l] EXCEPT !.at = "github"]
      OBVIOUS
    <2>2. r \in Refreshes /\ r.at = "github" /\ r.held = refresh[l].held
      BY <2>1, RefreshFacts DEF Refreshes
    <2>3. refresh' = [refresh EXCEPT ![l] = r] /\ refresh'[l] = r
      BY <1>3, <2>1, RefreshFacts DEF Go, LoginFacts, TypeOK
    <2>4. Goes(l)
      BY <1>0, <1>3, <2>2, <2>3 DEF Goes, Go, KeptEntry, KeptOver, KeptRestore, KeptRevoking, store
    <2>5. UNCHANGED <<born, mem, age, over, restore, revoking, pending, task, signedOut, load>>
      BY <1>0, <1>3 DEF Go, store
    <2>6. row' \in [Logins -> Rows] /\ \A m \in Logins \ {l} : row'[m] = row[m]
      BY <1>0 DEF LoginFacts, TypeOK
    <2> QED
      BY <1>0, <1>1, <2>2, <2>3, <2>4, <2>5, <2>6, GoesEffects
  <1>4. CASE l \in Delegated /\ Held(l) /\ Install(l, refresh[l].grant)
    BY <1>0, <1>4, InstallEffects
  <1> QED
    BY <1>2, <1>3, <1>4 DEF RefreshBefore

LEMMA RefreshSourceEffects ==
    ASSUME LoginFacts, NEW l \in Logins, RefreshSource(l)
    PROVE  Effects
  <1>0. /\ refresh[l].at = "source" /\ refresh[l].at \in Renewing /\ lost' = lost
        /\ UNCHANGED <<store, age, over, restore, revoking, pending, signedOut, load>>
        /\ github' = github /\ row' = row
    BY DEF RefreshSource, Renewing, store
  <1>1. Spent(l)
    BY <1>0, NoneSpent
  <1>2. CASE Overtaken(l)
    BY <1>0, <1>1, <1>2, RefreshFacts, StopsEffects DEF Overtaken, store
  <1>3. CASE Held(l) /\ UNCHANGED mem /\ Ends(l, mem[l].rev, FALSE)
    BY <1>0, <1>1, <1>3, RefreshFacts, StopsEffects DEF store
  <1>4. CASE /\ Held(l) /\ UNCHANGED <<mem, task>>
             /\ refresh' = [refresh EXCEPT ![l].at = "before", ![l].grant = refresh[l].held.tok + 1]
    <2>0. PICK r : r = [refresh[l] EXCEPT !.at = "before", !.grant = refresh[l].held.tok + 1]
      OBVIOUS
    <2>1. refresh[l].held.tok + 1 \in Tokens
      BY RefreshFacts DEF Credentials, Tokens
    <2>2. r \in Refreshes /\ r.at = "before" /\ r.held = refresh[l].held
      BY <2>0, <2>1, RefreshFacts DEF Refreshes
    <2>3. refresh' = [refresh EXCEPT ![l] = r] /\ refresh'[l] = r
      BY <1>4, <2>0, RefreshFacts DEF LoginFacts, TypeOK
    <2>4. Goes(l)
      BY <1>0, <1>4, <2>2, <2>3 DEF Goes, KeptEntry, KeptOver, KeptRestore, KeptRevoking, store
    <2>5. UNCHANGED <<born, mem, age, over, restore, revoking, pending, task, signedOut, load>>
      BY <1>0, <1>4 DEF store
    <2>6. row' \in [Logins -> Rows] /\ \A m \in Logins \ {l} : row'[m] = row[m]
      BY <1>0 DEF LoginFacts, TypeOK
    <2> QED
      BY <1>0, <1>1, <2>2, <2>3, <2>4, <2>5, <2>6, GoesEffects
  <1> QED
    BY <1>2, <1>3, <1>4 DEF RefreshSource

LEMMA RefreshGrantedEffects ==
    ASSUME LoginFacts, NEW l \in Logins, RefreshGranted(l)
    PROVE  Effects
  <1>0. /\ refresh[l].at = "github" /\ refresh[l].at \in Renewing /\ lost' = lost
        /\ UNCHANGED <<born, row, age, over, restore, lost, signedOut, load>>
        /\ github' = [github EXCEPT ![l] = @ + 1]
    BY DEF RefreshGranted, Renewing
  <1>1. Spent(l)
    BY <1>0, NoneSpent
  <1>2. CASE Overtaken(l) /\ UNCHANGED <<revoking, pending>>
    BY <1>0, <1>1, <1>2, RefreshFacts, StopsEffects DEF Overtaken
  <1>3. CASE RefreshRevokes(l)
    BY <1>0, <1>1, <1>3, RefreshRevokesEffects
  <1>4. CASE /\ Held(l) /\ UNCHANGED <<mem, task, revoking, pending>>
             /\ refresh' = [refresh EXCEPT ![l].at = "commit", ![l].grant = github[l] + 1]
    <2> DEFINE r == [refresh[l] EXCEPT !.at = "commit", !.grant = github[l] + 1]
    <2>0. github[l] + 1 \in Tokens /\ github'[l] = github[l] + 1
      BY <1>0 DEF LoginFacts, TypeOK, Tokens
    <2>1. r \in Refreshes /\ r.at = "commit" /\ r.held = refresh[l].held /\ r.grant = github[l] + 1
      BY <2>0, RefreshFacts DEF Refreshes
    <2>2. refresh' = [refresh EXCEPT ![l] = r] /\ refresh'[l] = r
      BY <1>4, RefreshFacts DEF LoginFacts, TypeOK
    <2> HIDE DEF r
    <2>3. Goes(l)
      BY <1>0, <1>4, <2>0, <2>1, <2>2 DEF Goes, KeptEntry, KeptOver, KeptRestore, KeptRevoking
    <2> QED
      BY <1>0, <1>1, <1>4, <2>1, <2>2, <2>3, GoesEffects DEF LoginFacts, TypeOK
  <1> QED
    BY <1>2, <1>3, <1>4 DEF RefreshGranted

LEMMA RefreshRefusedEffects ==
    ASSUME LoginFacts, NEW l \in Logins, RefreshRefused(l)
    PROVE  Effects
  <1>0. /\ refresh[l].at \in Renewing /\ RefreshRevokes(l)
        /\ load' = load \/ Fault \/ Refusal
        /\ UNCHANGED <<born, row, age, over, restore, signedOut>>
        /\ lost' = lost /\ github' = github
    BY DEF RefreshRefused, Renewing, store
  <1>1. Spent(l)
    BY <1>0, NoneSpent
  <1> QED
    BY <1>0, <1>1, RefreshRevokesEffects

LEMMA RefreshFailsEffects ==
    ASSUME LoginFacts, NEW l \in Logins, RefreshFails(l)
    PROVE  Effects
  <1>0. /\ refresh[l].at \in {"github", "source"} /\ Fault /\ mem' = mem
        /\ UNCHANGED <<born, row, age, over, restore, revoking, pending, signedOut>>
    BY DEF RefreshFails
  <1>1. \E rev \in Revisions, failed \in BOOLEAN : Ends(l, rev, failed)
    BY RefreshFacts DEF RefreshFails
  <1>2. CASE UNCHANGED <<github, lost>>
    BY <1>0, <1>1, <1>2, NoneSpent, StopsEffects
  <1>3. CASE /\ refresh[l].at = "github" /\ github' = [github EXCEPT ![l] = @ + 1]
             /\ lost' = lost \cup {l}
    <2>1. Spent(l)
      BY <1>3 DEF Spent, LoginFacts, TypeOK, Tokens
    <2> QED
      BY <1>0, <1>1, <1>3, <2>1, StopsEffects
  <1> QED
    BY <1>2, <1>3 DEF RefreshFails

LEMMA RefreshCommitEffects ==
    ASSUME LoginFacts, NEW l \in Logins, RefreshCommit(l)
    PROVE  Effects
  <1>0. /\ refresh[l].at = "commit" /\ refresh[l].at \in Renewing
        /\ UNCHANGED <<born, mem, age, over, restore, revoking, pending, task, github, lost,
                       signedOut, load>>
    BY DEF RefreshCommit, Renewing
  <1>1. Spent(l)
    BY <1>0, NoneSpent
  <1>2. CASE row[l].rev = refresh[l].held.rev
    <2> DEFINE r == [refresh[l] EXCEPT !.at = "reply"]
               n == [rev |-> row[l].rev + 1, tok |-> refresh[l].grant, here |-> TRUE]
    <2>1. r \in Refreshes /\ r.at = "reply" /\ r.held = refresh[l].held /\ r.grant = refresh[l].grant
      BY RefreshFacts DEF Refreshes
    <2>2. refresh' = [refresh EXCEPT ![l] = r] /\ refresh'[l] = r
      BY <1>2, RefreshFacts DEF RefreshCommit, LoginFacts, TypeOK
    <2>3. n \in Rows
      BY <1>0, <1>2, RefreshFacts DEF Rows, Revisions
    <2>4. row' = [row EXCEPT ![l] = n]
      BY <1>2 DEF RefreshCommit, LoginFacts, TypeOK
    <2> HIDE DEF r
    <2>5. /\ row' \in [Logins -> Rows] /\ row'[l] = n
          /\ \A m \in Logins \ {l} : row'[m] = row[m]
      <3> HIDE DEF n
      <3> QED
        BY <2>3, <2>4 DEF LoginFacts, TypeOK
    <2>6. Goes(l)
      BY <1>0, <1>2, <2>1, <2>2, <2>5 DEF Goes, KeptEntry, KeptOver, KeptRestore, KeptRevoking
    <2> QED
      BY <1>0, <1>1, <2>1, <2>2, <2>5, <2>6, GoesEffects
  <1>3. CASE row[l].rev # refresh[l].held.rev
    <2> DEFINE r == [refresh[l] EXCEPT !.at = "missed"]
    <2>1. r \in Refreshes /\ r.at = "missed" /\ r.held = refresh[l].held
      BY RefreshFacts DEF Refreshes
    <2>2. refresh' = [refresh EXCEPT ![l] = r] /\ refresh'[l] = r /\ row' = row
      BY <1>3, RefreshFacts DEF RefreshCommit, LoginFacts, TypeOK
    <2> HIDE DEF r
    <2>3. Goes(l)
      BY <1>0, <1>3, <2>1, <2>2 DEF Goes, KeptEntry, KeptOver, KeptRestore, KeptRevoking
    <2> QED
      BY <1>0, <1>1, <2>1, <2>2, <2>3, GoesEffects DEF LoginFacts, TypeOK
  <1> QED
    BY <1>2, <1>3

LEMMA RefreshReplyEffects ==
    ASSUME LoginFacts, NEW l \in Logins, RefreshReply(l)
    PROVE  Effects
  <1>0. /\ lost' = lost /\ github' = github /\ row' = row /\ born' = born
        /\ UNCHANGED <<store, over, restore, revoking, pending, signedOut, load>>
    BY DEF RefreshReply, store
  <1>1. Spent(l)
    BY <1>0, NoneSpent
  <1>2. CASE refresh[l].at = "reply" /\ Overtaken(l) /\ UNCHANGED age
    BY <1>0, <1>1, <1>2, RefreshFacts, StopsEffects DEF Overtaken, Renewing
  <1>3. CASE refresh[l].at = "reply" /\ Held(l) /\ Install(l, refresh[l].grant)
    BY <1>0, <1>3, InstallEffects
  <1>4. CASE /\ refresh[l].at = "missed" /\ UNCHANGED age /\ Ends(l, 0, FALSE)
             /\ mem' = IF Held(l) THEN [mem EXCEPT ![l] = None] ELSE mem
    <2>1. None \in Credentials
      BY RefreshFacts DEF None, Credentials, Tokens
    <2>2. refresh[l].at \in Renewing
      BY <1>4 DEF Renewing
    <2>3. ~Held(l) => mem[l] = None
      BY <2>2 DEF LoginFacts, LoginPart, RefreshInv, Gone, Live
    <2>4. mem' \in [Logins -> Credentials] /\ mem'[l] = None
          /\ \A m \in Logins \ {l} : KeptEntry(m)
      BY <1>4, <2>1, <2>3 DEF LoginFacts, TypeOK, KeptEntry
    <2>5. /\ refresh' \in [Logins -> Refreshes] /\ refresh'[l] = NoRefresh
          /\ \A m \in Logins \ {l} : KeptRefresh(m)
          /\ task' \in [Tasks -> Requests] /\ \A t \in Tasks : TaskStep(t)
      BY <1>4, RefreshFacts, EndsFields
    <2>6. TypeOK'
      BY <1>0, <1>4, <2>4, <2>5, SameSets DEF LoginFacts, TypeOK
    <2>7. \A m \in Logins \ {l} : Rests(m)
      BY <1>0, <2>4, <2>5 DEF Rests, KeptStore, KeptOver, KeptRestore, KeptRevoking
    <2>8. Stops(l)
      BY <1>0, <1>4, <2>4, <2>5 DEF Stops, KeptOver, KeptRestore, KeptRevoking
    <2> QED
      BY <1>0, <2>5, <2>6, <2>7, <2>8, OneLogin DEF Move
  <1> QED
    BY <1>2, <1>3, <1>4 DEF RefreshReply

LEMMA CommitFailsEffects ==
    ASSUME LoginFacts, NEW l \in Logins, CommitFails(l)
    PROVE  Effects
  <1>0. /\ refresh[l].at \in Renewing /\ Fault /\ lost' = lost /\ github' = github
        /\ UNCHANGED <<born, row, age, over, restore, signedOut>>
    BY DEF CommitFails, store, Renewing
  <1>1. Spent(l)
    BY <1>0, NoneSpent
  <1>2. CASE RefreshRevokes(l)
    BY <1>0, <1>1, <1>2, RefreshRevokesEffects
  <1>3. CASE ~Held(l) /\ UNCHANGED <<mem, revoking, pending>> /\ Ends(l, mem[l].rev, FALSE)
    BY <1>0, <1>1, <1>3, RefreshFacts, StopsEffects
  <1> QED
    BY <1>2, <1>3 DEF CommitFails

LEMMA RefreshOverEffects ==
    ASSUME LoginFacts, NEW l \in Logins, RefreshOver(l)
    PROVE  Effects
  <1>0. /\ refresh[l].at = "ends" /\ lost' = lost /\ github' = github /\ mem' = mem
        /\ UNCHANGED <<born, row, age, over, restore, revoking, pending, signedOut, load>>
        /\ Ends(l, mem[l].rev, refresh[l].grant = 1)
    BY DEF RefreshOver, store
  <1>1. Spent(l)
    BY <1>0, NoneSpent
  <1>2. (refresh[l].grant = 1) \in BOOLEAN
    OBVIOUS
  <1> QED
    BY <1>0, <1>1, <1>2, RefreshFacts, StopsEffects

LEMMA RestoreFacts ==
    ASSUME LoginFacts, NEW l \in Logins
    PROVE  /\ restore[l] \in Restores /\ row[l] \in Rows /\ restore[l].rev \in Revisions
           /\ restore[l].tok \in Tokens /\ restore[l].here \in BOOLEAN
           /\ row[l].rev \in Revisions /\ row[l].tok \in Tokens /\ row[l].here \in BOOLEAN
           /\ load.revs \in Nat /\ 0 \in Revisions
           /\ restore[l].at # "none" => ~Blocked(l) /\ ~Live(l)
           /\ restore[l].at \in {"user", "move"} => restore[l].rev > 0
           /\ restore[l].at = "move" => restore[l].rev < load.revs
  BY DEF LoginFacts, TypeOK, Restores, Rows, LoadRecords, Revisions, LoginPart, RestoreInv

\* A restore that goes on.
LEMMA LooksEffects ==
    ASSUME LoginFacts, NEW l \in Logins, Looks(l), NEW r \in Restores,
           restore' = [restore EXCEPT ![l] = r],
           UNCHANGED <<store, mem, age, over, refresh, revoking, pending, task, signedOut, load>>
    PROVE  Effects
  <1>1. TypeOK'
    BY SameSets DEF LoginFacts, TypeOK, store
  <1>2. \A m \in Logins \ {l} : Rests(m)
    BY DEF Rests, KeptStore, KeptEntry, KeptOver, KeptRestore, KeptRefresh, KeptRevoking, store,
       LoginFacts, TypeOK
  <1> QED
    BY <1>1, <1>2, SameTasks, OneLogin DEF Move

\* A restore that ends without the login.
LEMMA NotFoundEffects ==
    ASSUME LoginFacts, NEW l \in Logins, Found(l, 0),
           UNCHANGED <<store, mem, age, over, refresh, revoking, pending, load>>
    PROVE  Effects
  <1>0. 0 \in Revisions
    BY RestoreFacts
  <1>1. TypeOK'
    BY <1>0, FoundFields, SameSets DEF LoginFacts, TypeOK, store
  <1>2. \A m \in Logins \ {l} : Rests(m)
    BY <1>0, FoundFields DEF Rests, KeptStore, KeptEntry, KeptOver, KeptRefresh, KeptRevoking, store
  <1>3. Looks(l)
    <2>1. restore'[l] = NoRestore
      BY <1>0, FoundFields
    <2> QED
      BY <2>1 DEF Looks, KeptStore, KeptEntry, KeptOver, KeptRefresh, KeptRevoking, store
  <1> QED
    BY <1>0, <1>1, <1>2, <1>3, FoundFields, OneLogin DEF Move

\* A restore that puts the login into memory.
LEMMA RestoredEffects ==
    ASSUME LoginFacts, NEW l \in Logins, NEW rev \in Revisions, Restored(l, rev), ~Blocked(l),
           row' \in [Logins -> Rows], \A m \in Logins \ {l} : row'[m] = row[m],
           \/ restore[l].at = "user" /\ rev = restore[l].rev /\ row'[l] = row[l]
           \/ /\ restore[l].at = "move" /\ rev = restore[l].rev + 1 /\ row[l].rev = restore[l].rev
              /\ row'[l].rev = row[l].rev + 1 /\ row'[l].tok = row[l].tok /\ row'[l].here,
           UNCHANGED <<born, over, refresh, revoking, pending, github, lost, load>>
    PROVE  Effects
  <1>1. [rev |-> rev, tok |-> restore[l].tok] \in Credentials
    BY RestoreFacts DEF Credentials
  <1>2. PICK a \in 0 .. 3 : (rev = load.revs => a = 0) /\ age' = [age EXCEPT ![l] = a]
    BY DEF Restored
  <1>3. /\ mem' \in [Logins -> Credentials] /\ mem'[l] = [rev |-> rev, tok |-> restore[l].tok]
        /\ age' \in [Logins -> 0 .. 3] /\ age'[l] = a
        /\ \A m \in Logins \ {l} : KeptEntry(m)
    BY <1>1, <1>2 DEF Restored, LoginFacts, TypeOK, KeptEntry
  <1>4. /\ restore' \in [Logins -> Restores] /\ restore'[l] = NoRestore
        /\ \A m \in Logins \ {l} : KeptRestore(m)
        /\ task' \in [Tasks -> Requests] /\ \A t \in Tasks : TaskStep(t)
        /\ signedOut' \subseteq SignOuts
    BY FoundFields DEF Restored
  <1>5. TypeOK'
    BY <1>3, <1>4, SameSets DEF LoginFacts, TypeOK
  <1>6. \A m \in Logins \ {l} : Rests(m)
    BY <1>3, <1>4 DEF Rests, KeptStore, KeptOver, KeptRefresh, KeptRevoking
  <1>7. Returns(l)
    BY <1>2, <1>3, <1>4 DEF Returns, KeptOver, KeptRefresh, KeptRevoking
  <1> QED
    BY <1>4, <1>5, <1>6, <1>7, OneLogin DEF Move

LEMMA RestoreGetEffects ==
    ASSUME LoginFacts, NEW l \in Logins, RestoreGet(l)
    PROVE  Effects
  <1>0. /\ restore[l].at = "get"
        /\ UNCHANGED <<store, mem, age, over, refresh, revoking, pending, load>>
    BY DEF RestoreGet
  <1>1. CASE Found(l, 0)
    BY <1>0, <1>1, NotFoundEffects
  <1>2. CASE ~Found(l, 0)
    <2> DEFINE r == [at |-> "user", rev |-> row[l].rev, tok |-> row[l].tok, here |-> row[l].here]
    <2>1. r \in Restores
      BY RestoreFacts DEF Restores
    <2>2. /\ restore' = [restore EXCEPT ![l] = r] /\ row[l] # NoRow /\ l \notin over
          /\ UNCHANGED <<task, signedOut>> /\ restore'[l] = r
      BY <1>2 DEF RestoreGet, LoginFacts, TypeOK
    <2>3. Looks(l)
      BY <1>0, <2>2 DEF Looks, KeptStore, KeptEntry, KeptOver, KeptRefresh, KeptRevoking, store
    <2> QED
      BY <1>0, <2>1, <2>2, <2>3, LooksEffects
  <1> QED
    BY <1>1, <1>2

LEMMA RestoreUserEffects ==
    ASSUME LoginFacts, NEW l \in Logins, RestoreUser(l)
    PROVE  Effects
  <1>0. /\ restore[l].at = "user" /\ ~Blocked(l)
        /\ UNCHANGED <<store, over, refresh, revoking, pending, load>>
    BY RestoreFacts DEF RestoreUser
  <1>1. CASE restore[l].here
    <2>1. Restored(l, restore[l].rev)
      BY <1>0, <1>1 DEF RestoreUser
    <2> QED
      BY <1>0, <2>1, RestoreFacts, RestoredEffects DEF store, LoginFacts, TypeOK
  <1>2. CASE ~restore[l].here
    <2> DEFINE r == [restore[l] EXCEPT !.at = "move"]
    <2>1. /\ r \in Restores /\ r.at = "move" /\ r.rev = restore[l].rev /\ r.tok = restore[l].tok
          /\ r.here = restore[l].here
      BY RestoreFacts DEF Restores
    <2>2. /\ restore' = [restore EXCEPT ![l] = r] /\ restore'[l] = r
          /\ UNCHANGED <<mem, age, task, signedOut>>
      BY <1>0, <1>2, RestoreFacts DEF RestoreUser, LoginFacts, TypeOK
    <2> HIDE DEF r
    <2>3. Looks(l)
      BY <1>0, <1>2, <2>1, <2>2 DEF Looks, KeptStore, KeptEntry, KeptOver, KeptRefresh, KeptRevoking,
         store
    <2> QED
      BY <1>0, <2>1, <2>2, <2>3, LooksEffects
  <1> QED
    BY <1>1, <1>2

LEMMA RestoreMoveEffects ==
    ASSUME LoginFacts, NEW l \in Logins, RestoreMove(l)
    PROVE  Effects
  <1>0. /\ restore[l].at = "move" /\ ~Blocked(l)
        /\ UNCHANGED <<born, over, refresh, revoking, pending, github, lost, load>>
    BY RestoreFacts DEF RestoreMove
  <1>1. CASE row[l].rev = restore[l].rev
    <2> DEFINE n == [row[l] EXCEPT !.rev = @ + 1, !.here = TRUE]
    <2>1. restore[l].rev + 1 \in Revisions
      BY <1>0, RestoreFacts DEF Revisions
    <2>2. n \in Rows /\ n.rev = row[l].rev + 1 /\ n.tok = row[l].tok /\ n.here
      BY <1>1, <2>1, RestoreFacts DEF Rows
    <2>3. row' = [row EXCEPT ![l] = n]
      BY <1>1, RestoreFacts DEF RestoreMove, LoginFacts, TypeOK
    <2>4. row' \in [Logins -> Rows] /\ row'[l] = n /\ \A m \in Logins \ {l} : row'[m] = row[m]
      BY <2>2, <2>3 DEF LoginFacts, TypeOK
    <2>5. Restored(l, restore[l].rev + 1)
      BY <1>0, <1>1 DEF RestoreMove
    <2> HIDE DEF n
    <2> QED
      BY <1>0, <1>1, <2>1, <2>2, <2>4, <2>5, RestoredEffects
  <1>2. CASE row[l].rev # restore[l].rev
    <2> DEFINE r == [restore[l] EXCEPT !.at = "get"]
    <2>1. r \in Restores /\ r.at = "get"
      BY RestoreFacts DEF Restores
    <2>2. /\ restore' = [restore EXCEPT ![l] = r] /\ restore'[l] = r
          /\ UNCHANGED <<store, mem, age, task, signedOut>>
      BY <1>0, <1>2, RestoreFacts DEF RestoreMove, LoginFacts, TypeOK, store
    <2> HIDE DEF r
    <2>3. Looks(l)
      BY <1>0, <2>1, <2>2 DEF Looks, KeptStore, KeptEntry, KeptOver, KeptRefresh, KeptRevoking, store
    <2> QED
      BY <1>0, <2>1, <2>2, <2>3, LooksEffects
  <1> QED
    BY <1>1, <1>2

LEMMA RestoreFailsEffects ==
    ASSUME LoginFacts, NEW l \in Logins, RestoreFails(l)
    PROVE  Effects
  <1>0. /\ UNCHANGED <<store, mem, age, over, refresh, revoking, pending, signedOut>>
        /\ load' \in LoadRecords /\ load'.revs = load.revs /\ load.revs \in Nat
    BY LoadKept, RestoreFacts DEF RestoreFails
  <1>1. /\ restore' \in [Logins -> Restores] /\ restore'[l] = NoRestore
        /\ \A m \in Logins \ {l} : KeptRestore(m)
    <2>1. NoRestore \in Restores
      BY RestoreFacts DEF NoRestore, Restores, Tokens
    <2> QED
      BY <2>1 DEF RestoreFails, LoginFacts, TypeOK, KeptRestore
  <1>2. ASSUME NEW t \in Tasks
        PROVE  task'[t] \in Requests /\ TaskStep(t)
    <2>1. task'[t] = task[t] \/ task'[t] = Done(task[t], "error")
      BY DEF RestoreFails
    <2> QED
      BY <1>0, <2>1, TaskFacts, DoneFits DEF TaskStep
  <1>3. task' \in [Tasks -> Requests]
    BY <1>2 DEF RestoreFails
  <1>4. TypeOK'
    BY <1>0, <1>1, <1>3, SameSets DEF LoginFacts, TypeOK, store
  <1>5. \A m \in Logins \ {l} : Rests(m)
    BY <1>0, <1>1 DEF Rests, KeptStore, KeptEntry, KeptOver, KeptRefresh, KeptRevoking, store
  <1>6. Looks(l)
    BY <1>0, <1>1 DEF Looks, KeptStore, KeptEntry, KeptOver, KeptRefresh, KeptRevoking, store
  <1> QED
    BY <1>0, <1>2, <1>4, <1>5, <1>6, OneLogin DEF Move

\* Every step of a login.
LEMMA LoginStepEffects ==
    ASSUME LoginFacts, NEW l \in Logins, LoginStep(l) \/ DelegateStep(l)
    PROVE  Effects
  BY IssueRowEffects, IssueEffects, AgedEffects, ExpiredEffects, RevokeDeleteEffects,
     RevokeDeletedEffects, RevokeFailsEffects, CleanPendingEffects, CleanExpiredEffects,
     CleanRowsEffects, EndEffects, RefreshBeforeEffects, RefreshSourceEffects,
     RefreshGrantedEffects, RefreshRefusedEffects, RefreshFailsEffects, RefreshCommitEffects,
     RefreshReplyEffects, CommitFailsEffects, RefreshOverEffects, RestoreGetEffects,
     RestoreUserEffects, RestoreMoveEffects, RestoreFailsEffects DEF LoginStep, DelegateStep

\* Every step of a request.
LEMMA RequestStepEffects ==
    ASSUME LoginFacts, NEW t \in Tasks, Resume(t) \/ Arrive(t) \/ Called(t) \/ Operated(t)
    PROVE  Effects
  BY AuthenticateEffects, SignOutEffects, ResumeEffects, AuthorizedEffects, RefusedEffects,
     CallFailsEffects, RejectEffects, OperatedEffects DEF Arrive, Called

\* The process dies and another starts.
LEMMA RestartFacts == ASSUME LoginFacts, Restart PROVE LoginFacts'
  <1>0. /\ load' \in LoadRecords /\ load'.revs = load.revs /\ load.revs \in Nat /\ load.revs > 0
        /\ None \in Credentials /\ NoRow \in Rows /\ NoRestore \in Restores
        /\ NoRefresh \in Refreshes
    <2>1. load' \in LoadRecords /\ load'.revs = load.revs /\ load.revs \in Nat /\ load.revs > 0
      BY LoadKept DEF Restart, LoginFacts, TypeOK, LoadRecords
    <2>2. None \in Credentials
      BY <2>1 DEF None, Credentials, Revisions, Tokens
    <2> QED
      BY <2>1, <2>2 DEF NoRow, Rows, NoRestore, Restores, NoRefresh, Refreshes, Revisions, Tokens
  <1>1. PICK moved \in BOOLEAN :
           row' = [l \in Logins |->
                     IF l \in Delegated \cup over THEN NoRow
                     ELSE IF moved /\ row[l].rev \in 1 .. load.revs - 1
                          THEN [row[l] EXCEPT !.here = FALSE] ELSE row[l]]
    BY DEF Restart
  <1>2. PICK used \in SUBSET {l \in Logins : /\ refresh[l].at = "github"
                                             /\ refresh[l].held.tok = github[l]} :
           /\ github' = [l \in Logins |-> IF l \in used THEN github[l] + 1 ELSE github[l]]
           /\ lost' = lost \cup used \cup {l \in Logins : refresh[l].at = "commit" \/ Blocked(l)}
    BY DEF Restart
  <1>3. ASSUME NEW l \in Logins
        PROVE  /\ mem'[l] = None /\ age'[l] = 0 /\ restore'[l] = NoRestore /\ refresh'[l] = NoRefresh
               /\ revoking'[l] = "none" /\ l \notin pending' /\ (l \in over' <=> l \in over)
               /\ born'[l] = IF born[l] = "creating" THEN "never" ELSE born[l]
               /\ row'[l] \in Rows /\ (row[l] = NoRow => row'[l] = NoRow)
               /\ row'[l] = NoRow \/ (/\ l \notin Delegated /\ row'[l].rev = row[l].rev
                                      /\ row'[l].tok = row[l].tok
                                      /\ row'[l].here = row[l].here \/ row[l].rev < load.revs)
               /\ github'[l] \in Nat
               /\ l \notin lost' => /\ l \notin lost /\ github'[l] = github[l]
                                    /\ refresh[l].at # "commit" /\ ~Blocked(l)
               /\ refresh[l].at # "github" => github'[l] = github[l]
    <2>1. /\ mem'[l] = None /\ age'[l] = 0 /\ restore'[l] = NoRestore /\ refresh'[l] = NoRefresh
          /\ revoking'[l] = "none" /\ l \notin pending' /\ (l \in over' <=> l \in over)
          /\ born'[l] = IF born[l] = "creating" THEN "never" ELSE born[l]
      BY DEF Restart
    <2>2. row[l] \in Rows /\ github[l] \in Nat
      BY DEF LoginFacts, TypeOK, Tokens
    <2>3. /\ [row[l] EXCEPT !.here = FALSE] \in Rows
          /\ [row[l] EXCEPT !.here = FALSE].rev = row[l].rev
          /\ [row[l] EXCEPT !.here = FALSE].tok = row[l].tok
      BY <2>2 DEF Rows
    <2>6. row[l].rev \in Nat /\ NoRow.rev = 0
      BY <2>2 DEF Rows, Revisions, NoRow
    <2>4. /\ row'[l] \in Rows /\ (row[l] = NoRow => row'[l] = NoRow)
          /\ row'[l] = NoRow \/ (/\ l \notin Delegated /\ row'[l].rev = row[l].rev
                                 /\ row'[l].tok = row[l].tok
                                 /\ row'[l].here = row[l].here \/ row[l].rev < load.revs)
      <3>1. CASE l \in Delegated \cup over
        BY <1>0, <1>1, <3>1
      <3>2. CASE l \notin Delegated \cup over /\ moved /\ row[l].rev \in 1 .. load.revs - 1
        <4>1. row'[l] = [row[l] EXCEPT !.here = FALSE] /\ row[l] # NoRow /\ row[l].rev < load.revs
          BY <1>0, <1>1, <2>6, <3>2
        <4> QED
          BY <2>3, <3>2, <4>1
      <3>3. CASE l \notin Delegated \cup over /\ ~(moved /\ row[l].rev \in 1 .. load.revs - 1)
        BY <1>1, <2>2, <3>3
      <3> QED
        BY <3>1, <3>2, <3>3
    <2>5. /\ github'[l] \in Nat
          /\ l \notin lost' => /\ l \notin lost /\ github'[l] = github[l]
                               /\ refresh[l].at # "commit" /\ ~Blocked(l)
          /\ refresh[l].at # "github" => github'[l] = github[l]
      BY <1>2, <2>2
    <2> QED
      BY <2>1, <2>4, <2>5
  <1>4. ASSUME NEW t \in Tasks
        PROVE  task'[t] \in Requests /\ Fit(task[t])'
    BY <1>0, TaskFacts, IdleFits DEF Restart, Fit
  <1>5. TypeOK'
    <2>1. /\ born' \in [Logins -> Births] /\ mem' \in [Logins -> Credentials]
          /\ age' \in [Logins -> 0 .. 3] /\ restore' \in [Logins -> Restores]
          /\ refresh' \in [Logins -> Refreshes] /\ pending' \subseteq Logins
          /\ revoking' \in [Logins -> {"none", "callback", "delete"}]
      BY <1>0 DEF Restart, LoginFacts, TypeOK, Births
    <2>2. row' \in [Logins -> Rows] /\ github' \in [Logins -> Tokens] /\ lost' \subseteq Logins
      BY <1>1, <1>2, <1>3 DEF Tokens, LoginFacts, TypeOK
    <2>3. task' \in [Tasks -> Requests] /\ over' \subseteq Logins
      BY <1>4 DEF Restart, LoginFacts, TypeOK
    <2>4. ASSUME NEW s \in SignOuts
          PROVE  Dropped(s) \in SignOuts
      BY DEF Dropped, SignOuts
    <2>5. signedOut' \subseteq SignOuts
      BY <2>4 DEF Restart, LoginFacts, TypeOK
    <2> QED
      BY <1>0, <2>1, <2>2, <2>3, <2>5, SameSets DEF TypeOK
  <1>6. ASSUME NEW l \in Logins
        PROVE  LoginPart(l)'
    <2>0. Typed(l) /\ LoginPart(l)
      BY LoginTypes DEF LoginFacts
    <2>1. (OutInv(l) /\ StepInv(l) /\ RefreshInv(l) /\ RowInv(l) /\ RevokingInv(l) /\ RestoreInv(l))'
      BY <1>3 DEF OutInv, StepInv, RefreshInv, RowInv, RevokingInv, RestoreInv, Live, None, NoRefresh,
         NoRestore, Renewing
    <2>2. RevisionInv(l)'
      BY <1>0, <1>3, <2>0 DEF LoginPart, RevisionInv, Live, Typed
    <2>3. UnbornInv(l)'
      BY <1>3, <2>0 DEF LoginPart, UnbornInv, Live, Blocked, NoRefresh, NoRestore
    <2>4. TokenInv(l)'
      <3> SUFFICES ASSUME l \notin lost', l \notin Delegated, row'[l] # NoRow
                   PROVE  row'[l].tok = github'[l]
        BY <1>3 DEF TokenInv, Live, NoRefresh, NoRestore
      <3>1. /\ l \notin lost /\ github'[l] = github[l] /\ refresh[l].at # "commit" /\ ~Blocked(l)
            /\ row'[l].rev = row[l].rev /\ row'[l].tok = row[l].tok
        BY <1>3
      <3>2. row[l] # NoRow
        BY <1>1, <1>3 DEF NoRow
      <3>3. CASE ~Live(l)
        BY <2>0, <3>1, <3>2, <3>3 DEF LoginPart, TokenInv
      <3>4. CASE Live(l)
        <4>1. refresh[l].at \in {"none", "before", "github", "reply"}
          BY <2>0, <3>1, <3>2, <3>4 DEF LoginPart, RefreshInv, Gone, Typed, Refreshes
        <4> QED
          BY <2>0, <3>1, <3>2, <3>4, <4>1 DEF LoginPart, TokenInv, StepInv, RowInv
      <3> QED
        BY <3>3, <3>4
    <2> QED
      BY <2>1, <2>2, <2>3, <2>4 DEF LoginPart
  <1> QED
    BY <1>4, <1>5, <1>6 DEF LoginFacts

LEMMA InitFacts == ASSUME Init PROVE LoginFacts
  <1>0. load \in LoadRecords /\ load.revs \in Nat /\ load.revs > 0
    BY LoadsAssumption DEF Init, LoadRecords
  <1>1. None \in Credentials
    BY <1>0 DEF None, Credentials, Revisions, Tokens
  <1>2. NoRow \in Rows /\ NoRestore \in Restores /\ NoRefresh \in Refreshes
    BY <1>0, <1>1 DEF NoRow, Rows, NoRestore, Restores, NoRefresh, Refreshes, Revisions, Tokens
  <1>3. (CHOOSE l \in Logins : TRUE) \in Logins
    BY LoginsAssumption
  <1>4. ASSUME NEW t \in Tasks
        PROVE  task[t] \in Requests /\ Fit(task[t])
    BY <1>0, <1>3, IdleFits DEF Init, Fit
  <1>5. TypeOK
    BY <1>0, <1>1, <1>2, <1>4 DEF Init, TypeOK, Births, Tokens
  <1>6. ASSUME NEW l \in Logins
        PROVE  LoginPart(l)
    BY DEF Init, LoginPart, OutInv, StepInv, RevisionInv, UnbornInv, RevokingInv, RestoreInv,
       RefreshInv, RowInv, TokenInv, Live, Blocked, NoRefresh, NoRestore, None, NoRow, Renewing
  <1> QED
    BY <1>4, <1>5, <1>6 DEF LoginFacts

-----------------------------------------------------------------------------
(* The owner of the channel and its bindings.                              *)

\* What every step keeps.
IndInv == OwnerInv /\ BoundIsCurrent /\ BoundIsOwner

OwnerTypes ==
    /\ owner \in Logins \cup {NoLogin} /\ gen \in Nat
    /\ bindings \subseteq [login: Logins, rev: Revisions, gen: Nat \ {0}, epoch: Nat]
    /\ epoch \in Nat
    /\ revoked \subseteq Logins /\ rotated \subseteq Logins \X Revisions
    /\ asked \in [Tasks -> [gen: Nat, epoch: Nat]]
    /\ reset \in [at: {"none", "loaded", "cleared"}, login: Logins \cup {NoLogin}, gen: Nat]
    /\ unheard \subseteq Nat /\ closed \in BOOLEAN

OwnerFacts ==
    /\ OwnerTypes /\ HookInv /\ ClaimInv /\ BoundIsCurrent /\ BoundIsOwner
    /\ \A t \in Tasks : ReadInv(t)

LEMMA SameFacts == IndInv <=> LoginFacts /\ OwnerFacts
  <1>1. ASSUME IndInv
        PROVE  LoginFacts /\ OwnerFacts
    <2>1. ASSUME NEW l \in Logins
          PROVE  LoginPart(l)
      BY <1>1 DEF IndInv, OwnerInv, LoginInv, LoginPart, OutInv, StepInv, BlockedIsOut, RowInStep
    <2> QED
      BY <1>1, <2>1 DEF IndInv, OwnerInv, OwnerTypeOK, OwnerTypes, LoginInv, LoginFacts, OwnerFacts
  <1>2. ASSUME LoginFacts, OwnerFacts
        PROVE  IndInv
    <2>1. BlockedIsOut /\ RowInStep
      BY <1>2 DEF LoginFacts, LoginPart, OutInv, StepInv, BlockedIsOut, RowInStep
    <2>2. NoConsumedToken
      BY <1>2 DEF LoginFacts, LoginPart, TokenInv, NoConsumedToken
    <2>3. LoginInv
      BY <1>2 DEF LoginFacts, LoginPart, LoginInv
    <2> QED
      BY <1>2, <2>1, <2>2, <2>3 DEF IndInv, OwnerInv, OwnerTypeOK, OwnerTypes, LoginFacts, OwnerFacts
  <1> QED
    BY <1>1, <1>2

LEMMA InitInv == OwnerInit => IndInv
  <1> SUFFICES ASSUME OwnerInit PROVE LoginFacts /\ OwnerFacts
    BY SameFacts
  <1>1. LoginFacts
    BY InitFacts DEF OwnerInit
  <1>2. OwnerTypes
    BY DEF OwnerInit, OwnerTypes, NoReset
  <1>3. HookInv
    BY DEF OwnerInit, Init, HookInv, Blocked, NoRefresh, Renewing
  <1>4. ASSUME NEW t \in Tasks
        PROVE  ReadInv(t)
    <2>1. task[t].at # "read"
      BY DEF OwnerInit, Init, Idle
    <2> QED
      BY <2>1 DEF OwnerInit, ReadInv
  <1>5. ClaimInv /\ BoundIsCurrent /\ BoundIsOwner
    BY OwnerAssumption DEF OwnerInit, ClaimInv, BoundIsCurrent, BoundIsOwner
  <1> QED
    BY <1>1, <1>2, <1>3, <1>4, <1>5 DEF OwnerFacts

LEMMA BindingTypes ==
    ASSUME OwnerTypes, NEW b \in bindings
    PROVE  b.login \in Logins /\ b.rev \in Revisions /\ b.gen \in Nat
  BY DEF OwnerTypes

\* Revocations that are heard of leave no binding of what they revoke.
LEMMA Heard ==
    ASSUME LoginFacts, OwnerFacts, Effects, Revocations
    PROVE  /\ HookInv' /\ BoundIsCurrent' /\ bindings' \subseteq bindings /\ revoked \subseteq revoked'
           /\ revoked' \subseteq Logins /\ rotated' \subseteq Logins \X Revisions
  <1>1. ASSUME NEW l \in Logins
        PROVE  Hooked(l) /\ Typed(l)'
    BY FactsKept, NextTypes DEF LoginFacts
  <1>2. bindings' \subseteq bindings /\ revoked \subseteq revoked' /\ revoked' \subseteq Logins
    BY DEF Revocations, Ended, OwnerFacts, OwnerTypes
  <1>3. rotated' \subseteq Logins \X Revisions
    <2>1. ASSUME NEW l \in Logins
          PROVE  refresh'[l].held.rev \in Revisions
      BY <1>1, SameSets DEF Typed, Credentials, Effects
    <2>2. Rotating \subseteq Logins \X Revisions
      BY <2>1 DEF Rotating
    <2> QED
      BY <2>2 DEF Revocations, OwnerFacts, OwnerTypes
  <1>4. ASSUME NEW l \in Logins
        PROVE  /\ Blocked(l)' => l \in revoked'
               /\ refresh'[l].at \in Replaced => <<l, refresh'[l].held.rev>> \in rotated'
    <2>1. Blocked(l)' => l \in revoked'
      BY <1>1 DEF Hooked, Ending, Revocations, Ended, OwnerFacts, HookInv
    <2>2. CASE refresh[l].at # "before" /\ refresh'[l].at = "before"
      <3>1. <<l, refresh'[l].held.rev>> \in Rotating
        BY <2>2 DEF Rotating
      <3> QED
        BY <2>1, <3>1 DEF Revocations
    <2>3. CASE refresh[l].at \in Replaced /\ refresh'[l].held = refresh[l].held
      BY <2>1, <2>3 DEF Revocations, OwnerFacts, HookInv, Replaced
    <2> QED
      BY <1>1, <2>1, <2>2, <2>3 DEF Hooked
  <1>5. ASSUME NEW b \in bindings'
        PROVE  /\ b \in bindings /\ b.login \in Logins /\ b.login \notin Ended
               /\ b.login \notin revoked' \cup over' /\ <<b.login, b.rev>> \notin rotated'
    BY <1>2, BindingTypes DEF Revocations, Ran, OwnerFacts, HookInv
  <1>6. ASSUME NEW b \in bindings'
        PROVE  mem'[b.login] = mem[b.login]
    <2>1. Live(b.login) /\ mem[b.login].rev = b.rev
      BY <1>5 DEF OwnerFacts, BoundIsCurrent
    <2>2. ~Ending(b.login)
      BY <1>5 DEF Ended, Ending
    <2>3. ~(refresh[b.login].at \in Replaced /\ Held(b.login))
      BY <1>5, <2>1 DEF OwnerFacts, HookInv, Replaced, Held
    <2> QED
      BY <1>1, <1>5, <2>1, <2>2, <2>3 DEF Hooked
  <1>7. BoundIsCurrent'
    BY <1>5, <1>6 DEF OwnerFacts, BoundIsCurrent, Live
  <1>8. HookInv'
    BY <1>4, <1>5 DEF HookInv, Replaced
  <1> QED
    BY <1>2, <1>3, <1>7, <1>8

\* A step of the logins, with what the agents do about it at once.
LEMMA HooksKeep ==
    ASSUME LoginFacts, OwnerFacts, Effects, Hooks
    PROVE  OwnerFacts'
  <1>0. Revocations /\ UNCHANGED <<gen, asked, reset, unheard, epoch, closed>>
    BY DEF Hooks, Revocations
  <1>1. /\ HookInv' /\ BoundIsCurrent' /\ bindings' \subseteq bindings /\ revoked \subseteq revoked'
        /\ revoked' \subseteq Logins /\ rotated' \subseteq Logins \X Revisions
    BY <1>0, Heard
  <1>2. \A l \in Logins : Hooked(l)
    BY FactsKept
  <1>3. OwnerTypes'
    BY <1>0, <1>1, SameSets DEF OwnerFacts, OwnerTypes, Hooks, Effects
  <1>4. \/ owner' = owner
        \/ /\ owner \in Logins /\ owner' = NoLogin
           /\ owner \in revoked \/ owner \in over
    <2>1. CASE owner \in Logins /\ row'[owner] = NoRow
      BY <1>2, <2>1 DEF Hooks, Hooked, OwnerFacts, ClaimInv, HookInv
    <2>2. CASE ~(owner \in Logins /\ row'[owner] = NoRow)
      BY <2>2 DEF Hooks
    <2> QED
      BY <2>1, <2>2
  <1>5. ClaimInv'
    <2> SUFFICES ASSUME owner' \in Logins
                 PROVE  row'[owner'] # NoRow /\ born'[owner'] = "born" /\ gen' > 0
      BY DEF ClaimInv
    <2>1. owner' = owner /\ row'[owner] # NoRow
      BY OwnerAssumption DEF Hooks
    <2> QED
      BY <1>0, <1>2, <2>1 DEF OwnerFacts, ClaimInv, Hooked
  <1>6. BoundIsOwner'
    <2> SUFFICES ASSUME NEW b \in bindings'
                 PROVE  (owner' = b.login /\ gen' = b.gen) \/ reset'.at = "cleared" \/ b.gen \in unheard'
      BY DEF BoundIsOwner
    <2>1. b \in bindings /\ b.login \notin revoked \cup over
      BY <1>1 DEF OwnerFacts, HookInv
    <2> QED
      BY <1>0, <1>4, <2>1 DEF OwnerFacts, BoundIsOwner
  <1>7. ASSUME NEW t \in Tasks
        PROVE  ReadInv(t)'
    <2>1. ReadInv(t) /\ asked'[t] = asked[t] /\ epoch' = epoch
      BY <1>0 DEF OwnerFacts
    <2>2. CASE task'[t].at # "read"
      BY <2>1, <2>2 DEF ReadInv
    <2>3. CASE task'[t].at = "read"
      <3>1. task'[t] = task[t]
        BY <2>3 DEF Effects, TaskStep
      <3>2. task[t].login \in Logins
        BY TaskFacts
      <3>3. task[t].login \in revoked \cup over => task[t].login \in revoked' \cup over'
        BY <1>1, <1>2, <3>2 DEF Hooked
      <3> QED
        BY <1>0, <1>4, <2>1, <2>3, <3>1, <3>3 DEF ReadInv
    <2> QED
      BY <2>2, <2>3
  <1> QED
    BY <1>1, <1>3, <1>5, <1>6, <1>7 DEF OwnerFacts

-----------------------------------------------------------------------------
(* The steps of a resolve, and of the owner in storage.                    *)

\* What is known of the logins stays as it is.
LEMMA RestFacts ==
    ASSUME LoginFacts, UNCHANGED <<store, mem, age, over, work>>, signedOut' \subseteq SignOuts,
           load' \in LoadRecords, load'.revs = load.revs, task' \in [Tasks -> Requests],
           \A t \in Tasks : Fit(task'[t])
    PROVE  LoginFacts'
  <1>1. TypeOK'
    BY SameSets DEF LoginFacts, TypeOK, store, work
  <1>2. ASSUME NEW l \in Logins
        PROVE  Rests(l)
    BY DEF Rests, KeptStore, KeptEntry, KeptOver, KeptRestore, KeptRefresh, KeptRevoking, store, work
  <1>3. \A l \in Logins : LoginPart(l)'
    BY <1>1, <1>2, MoveKeeps DEF LoginFacts, Move
  <1>4. \A t \in Tasks : Fit(task[t])'
    BY DEF Fit, store
  <1> QED
    BY <1>1, <1>3, <1>4 DEF LoginFacts

\* A resolve that did not read the owner twice in this step, and is heard of no more.
LEMMA StillRead ==
    ASSUME OwnerFacts, NEW t \in Tasks, UNCHANGED <<over, agent, local>>, asked'[t] = asked[t],
           task'[t] = task[t] \/ task'[t].at # "read"
    PROVE  ReadInv(t)'
  <1>1. ReadInv(t)
    BY DEF OwnerFacts
  <1> QED
    BY <1>1 DEF ReadInv, agent, local

\* Neither the logins nor the owner and its bindings change.
LEMMA StillOwner ==
    ASSUME OwnerFacts, load'.revs = load.revs, asked' \in [Tasks -> [gen: Nat, epoch: Nat]],
           UNCHANGED <<store, mem, over, refresh, revoking, pending>>, UNCHANGED <<agent, local>>,
           \A t \in Tasks : ReadInv(t)'
    PROVE  OwnerFacts'
  <1>1. OwnerTypes'
    BY SameSets DEF OwnerFacts, OwnerTypes, agent, local
  <1>2. HookInv'
    BY DEF OwnerFacts, HookInv, Blocked, agent, local
  <1>3. ClaimInv' /\ BoundIsCurrent' /\ BoundIsOwner'
    BY DEF OwnerFacts, ClaimInv, BoundIsCurrent, BoundIsOwner, Live, store, agent, local
  <1> QED
    BY <1>1, <1>2, <1>3 DEF OwnerFacts

\* A resolve moves on, and nothing else.
LEMMA OnlyResolve ==
    ASSUME LoginFacts, OwnerFacts, NEW t \in Tasks, NEW k \in Requests, Fit(k), k.at # "read",
           task' = [task EXCEPT ![t] = k], UNCHANGED <<store, mem, age, over, work, signedOut>>,
           load' = load \/ Refusal, UNCHANGED <<agent, local, asked>>
    PROVE  LoginFacts' /\ OwnerFacts'
  <1>1. Effects
    BY OnlyTask
  <1>2. \A s \in Tasks : ReadInv(s)'
    BY <1>1, StillRead DEF Effects, TaskStep
  <1>3. OwnerFacts'
    BY <1>1, <1>2, StillOwner DEF Effects, OwnerFacts, OwnerTypes, work
  <1> QED
    BY <1>1, <1>3, FactsKept

LEMMA BindFacts ==
    ASSUME LoginFacts, OwnerFacts, NEW t \in Tasks, Bind(t)
    PROVE  LoginFacts' /\ OwnerFacts'
  <1>1. PICK k \in Requests : k.at = "agent" /\ task' = [task EXCEPT ![t] = k]
    <2>1. Idle(task[t].login) \in Requests
      BY TaskFacts, IdleFits
    <2>2. /\ [Idle(task[t].login) EXCEPT !.kind = "bind", !.at = "agent"] \in Requests
          /\ [Idle(task[t].login) EXCEPT !.kind = "bind", !.at = "agent"].at = "agent"
      BY <2>1 DEF Requests
    <2> QED
      BY <2>2 DEF Bind
  <1>2. Fit(k) /\ k.at # "read"
    BY <1>1 DEF Fit
  <1>3. UNCHANGED <<store, mem, age, over, work, signedOut, load, agent, local>>
    BY DEF Bind
  <1>4. Effects
    BY <1>1, <1>2, <1>3, OnlyTask
  <1>5. asked' \in [Tasks -> [gen: Nat, epoch: Nat]]
    BY DEF Bind, OwnerFacts, OwnerTypes
  <1>6. ASSUME NEW s \in Tasks
        PROVE  ReadInv(s)'
    <2>1. CASE s = t
      <3>1. task'[t].at # "read"
        BY <1>1 DEF LoginFacts, TypeOK
      <3>2. asked'[t].epoch = epoch /\ epoch' = epoch /\ epoch \in Nat
        BY <1>3 DEF Bind, OwnerFacts, OwnerTypes, local
      <3> QED
        BY <2>1, <3>1, <3>2 DEF ReadInv
    <2>2. CASE s # t
      <3>1. asked'[s] = asked[s]
        BY <2>2 DEF Bind, OwnerFacts, OwnerTypes
      <3> QED
        BY <1>3, <1>4, <3>1, StillRead DEF Effects, TaskStep
    <2> QED
      BY <2>1, <2>2
  <1>7. OwnerFacts'
    BY <1>3, <1>5, <1>6, StillOwner DEF work
  <1> QED
    BY <1>4, <1>7, FactsKept

LEMMA BindUseFacts ==
    ASSUME LoginFacts, OwnerFacts, NEW t \in Tasks, BindUse(t)
    PROVE  LoginFacts' /\ OwnerFacts'
  <1>1. /\ task[t] \in Requests /\ task[t].login \in Logins /\ load.revs \in Nat
        /\ born[task[t].login] = "born"
    BY TaskFacts DEF BindUse
  <1>2. PICK k \in Requests : Fit(k) /\ k.at # "read" /\ task' = [task EXCEPT ![t] = k]
    <2>1. CASE Answer(t, task[t], "none")
      BY <1>1, <2>1, DoneFits DEF Answer
    <2>2. CASE task' = [task EXCEPT ![t] = [task[t] EXCEPT !.at = "operation", !.try = 1,
                                                           !.held = mem[task[t].login].rev]]
      <3>1. mem[task[t].login].rev \in Revisions
        BY <1>1 DEF LoginFacts, TypeOK, Credentials
      <3>2. PICK k : k = [task[t] EXCEPT !.at = "operation", !.try = 1,
                                         !.held = mem[task[t].login].rev]
        OBVIOUS
      <3>3. k \in Requests /\ k.at = "operation" /\ k.login = task[t].login
        BY <1>1, <3>1, <3>2 DEF Requests
      <3>4. Fit(k)
        BY <1>1, <3>3 DEF Fit
      <3> QED
        BY <2>2, <3>2, <3>3, <3>4
    <2> QED
      BY <2>1, <2>2 DEF BindUse
  <1>3. UNCHANGED <<store, mem, age, over, work, signedOut, load, agent, local, asked>>
    BY DEF BindUse, Answer, work
  <1> QED
    BY <1>2, <1>3, OnlyResolve

LEMMA BindAdmittedFacts ==
    ASSUME LoginFacts, OwnerFacts, NEW t \in Tasks, BindAdmitted(t)
    PROVE  LoginFacts' /\ OwnerFacts'
  <1>1. /\ task[t] \in Requests /\ task[t].login \in Logins /\ load.revs \in Nat
        /\ born[task[t].login] = "born"
    BY TaskFacts DEF BindAdmitted
  <1>2. PICK k \in Requests : Fit(k) /\ k.at # "read" /\ task' = [task EXCEPT ![t] = k]
    <2>1. CASE Answer(t, task[t], "none")
      BY <1>1, <2>1, DoneFits DEF Answer
    <2>2. CASE task' = [task EXCEPT ![t].at = "latest"]
      <3>1. PICK k : k = [task[t] EXCEPT !.at = "latest"]
        OBVIOUS
      <3>2. k \in Requests /\ k.at = "latest" /\ k.login = task[t].login
        BY <1>1, <3>1 DEF Requests
      <3>3. Fit(k)
        BY <1>1, <3>2 DEF Fit
      <3>4. task' = [task EXCEPT ![t] = k]
        BY <2>2, <3>1 DEF LoginFacts, TypeOK
      <3> QED
        BY <3>2, <3>3, <3>4
    <2> QED
      BY <2>1, <2>2 DEF BindAdmitted
  <1>3. UNCHANGED <<store, mem, age, over, work, signedOut, agent, local, asked>>
    BY DEF BindAdmitted, Answer, work
  <1>4. load' = load \/ Refusal
    BY DEF BindAdmitted
  <1> QED
    BY <1>2, <1>3, <1>4, OnlyResolve

\* The owner is what was claimed, or something will keep the resolve from binding.
LEMMA BindLatestFacts ==
    ASSUME LoginFacts, OwnerFacts, NEW t \in Tasks, BindLatest(t)
    PROVE  LoginFacts' /\ OwnerFacts'
  <1>1. /\ task[t] \in Requests /\ task[t].login \in Logins /\ load.revs \in Nat
        /\ load \in LoadRecords /\ born[task[t].login] = "born" /\ \A s \in Tasks : Fit(task[s])
    BY TaskFacts DEF BindLatest, LoginFacts
  <1>2. /\ UNCHANGED <<store, mem, age, over, work, signedOut, load, agent, local, asked>>
        /\ signedOut' \subseteq SignOuts
    BY DEF BindLatest, LoginFacts, TypeOK
  <1>3. PICK k : k = [task[t] EXCEPT !.at = "read"]
    OBVIOUS
  <1>4. k \in Requests /\ k.at = "read" /\ k.login = task[t].login
    BY <1>1, <1>3 DEF Requests
  <1>5. Fit(k)
    BY <1>1, <1>4 DEF Fit
  <1>6. ASSUME ~(Named /\ owner = task[t].login /\ gen = asked[t].gen)
        PROVE  LoginFacts' /\ OwnerFacts'
    <2>1. /\ Done(task[t], "none") \in Requests /\ Fit(Done(task[t], "none"))
          /\ Done(task[t], "none").at # "read"
      BY <1>1, DoneFits
    <2>2. task' = [task EXCEPT ![t] = Done(task[t], "none")]
      BY <1>6 DEF BindLatest, LoginFacts, TypeOK
    <2> QED
      BY <1>2, <2>1, <2>2, OnlyResolve
  <1>7. ASSUME Named, owner = task[t].login, gen = asked[t].gen
        PROVE  LoginFacts' /\ OwnerFacts'
    <2>1. task' = [task EXCEPT ![t] = k]
      BY <1>3, <1>7 DEF BindLatest, LoginFacts, TypeOK
    <2>2. task' \in [Tasks -> Requests] /\ task'[t] = k /\ \A s \in Tasks \ {t} : task'[s] = task[s]
      BY <1>4, <2>1 DEF LoginFacts, TypeOK
    <2>3. \A s \in Tasks : Fit(task'[s])
      BY <1>1, <1>5, <2>2
    <2>4. LoginFacts'
      BY <1>1, <1>2, <2>2, <2>3, RestFacts
    <2>5. ReadInv(t)'
      <3>1. gen > 0 /\ ReadInv(t)
        BY <1>7 DEF Named, OwnerFacts, ClaimInv
      <3> QED
        BY <1>2, <1>4, <1>7, <2>2, <3>1 DEF ReadInv, agent, local
    <2>6. ASSUME NEW s \in Tasks, s # t
          PROVE  ReadInv(s)'
      BY <1>2, <2>2, <2>6, StillRead
    <2>7. OwnerFacts'
      BY <1>2, <2>5, <2>6, StillOwner DEF OwnerFacts, OwnerTypes, work
    <2> QED
      BY <2>4, <2>7
  <1> QED
    BY <1>6, <1>7

\* Nothing revoked what the reads said: the binding is the owner's.
LEMMA BindFinalFacts ==
    ASSUME LoginFacts, OwnerFacts, NEW t \in Tasks, BindFinal(t)
    PROVE  LoginFacts' /\ OwnerFacts'
  <1>1. /\ task[t] \in Requests /\ task[t].login \in Logins /\ load.revs \in Nat
        /\ task[t].held \in Revisions
    BY TaskFacts
  <1>2. UNCHANGED <<store, mem, age, over, work, signedOut, load, agent, epoch, revoked, rotated,
                    closed, asked>>
    BY DEF BindFinal
  <1>3. PICK k \in Requests : Fit(k) /\ k.at # "read" /\ task' = [task EXCEPT ![t] = k]
    BY <1>1, DoneFits DEF BindFinal
  <1>4. Effects
    BY <1>2, <1>3, OnlyTask
  <1>5. ASSUME NEW b \in bindings', b \notin bindings
        PROVE  /\ StillBound(t) /\ b.login = task[t].login /\ b.rev = task[t].held
               /\ b.gen = asked[t].gen
               /\ b \in [login: Logins, rev: Revisions, gen: Nat \ {0}, epoch: Nat]
    <2>1. /\ StillBound(t)
          /\ b = [login |-> task[t].login, rev |-> task[t].held, gen |-> asked[t].gen,
                  epoch |-> asked[t].epoch]
      BY <1>5 DEF BindFinal
    <2>2. asked[t].gen \in Nat \ {0} /\ asked[t].epoch \in Nat
      BY DEF BindFinal, OwnerFacts, OwnerTypes, ReadInv
    <2> QED
      BY <1>1, <2>1, <2>2
  <1>6. ASSUME NEW b \in bindings'
        PROVE  /\ b.login \notin revoked \cup over /\ <<b.login, b.rev>> \notin rotated
               /\ Live(b.login) /\ mem[b.login].rev = b.rev
               /\ (owner = b.login /\ gen = b.gen) \/ reset.at = "cleared" \/ b.gen \in unheard
    <2>1. CASE b \in bindings
      BY <2>1 DEF OwnerFacts, HookInv, BoundIsCurrent, BoundIsOwner
    <2>2. CASE b \notin bindings
      <3>1. StillBound(t) /\ b.login = task[t].login /\ b.rev = task[t].held /\ b.gen = asked[t].gen
        BY <1>5, <2>2
      <3>2. /\ b.login \notin revoked \cup over /\ <<b.login, b.rev>> \notin rotated
            /\ Live(b.login) /\ mem[b.login].rev = b.rev /\ epoch = asked[t].epoch
        BY <3>1 DEF StillBound, Token
      <3>3. ~(asked[t].epoch < epoch)
        BY <3>2 DEF OwnerFacts, OwnerTypes
      <3> QED
        BY <3>1, <3>2, <3>3 DEF BindFinal, OwnerFacts, ReadInv
    <2> QED
      BY <2>1, <2>2
  <1>7. OwnerTypes'
    BY <1>2, <1>5, SameSets DEF OwnerFacts, OwnerTypes, agent
  <1>8. HookInv'
    BY <1>2, <1>6 DEF OwnerFacts, HookInv, Blocked, work
  <1>9. ClaimInv' /\ BoundIsCurrent' /\ BoundIsOwner'
    BY <1>2, <1>6 DEF OwnerFacts, ClaimInv, BoundIsCurrent, BoundIsOwner, Live, store, agent
  <1>10. ASSUME NEW s \in Tasks
         PROVE  ReadInv(s)'
    <2>1. ReadInv(s) /\ TaskStep(s)
      BY <1>4 DEF Effects, OwnerFacts
    <2> QED
      BY <1>2, <2>1 DEF ReadInv, TaskStep, agent
  <1> QED
    BY <1>4, <1>7, <1>8, <1>9, <1>10, FactsKept DEF OwnerFacts

\* The owner is looked up: the sessions answer for it as for any other request.
LEMMA BindReadFacts ==
    ASSUME LoginFacts, OwnerFacts, NEW t \in Tasks, BindRead(t)
    PROVE  LoginFacts' /\ OwnerFacts'
  <1>1. /\ task[t] \in Requests /\ task[t].login \in Logins /\ load.revs \in Nat
        /\ task[t].at = "agent" /\ signedOut' \subseteq SignOuts
        /\ UNCHANGED <<store, age, over, restore, signedOut, load, agent>>
    BY TaskFacts DEF BindRead
  <1>2. ASSUME Answer(t, task[t], "none"), UNCHANGED <<local, asked>>
        PROVE  LoginFacts' /\ OwnerFacts'
    <2>1. PICK k \in Requests : Fit(k) /\ k.at # "read" /\ task' = [task EXCEPT ![t] = k]
      BY <1>1, <1>2, DoneFits DEF Answer
    <2>2. UNCHANGED <<mem, work>>
      BY <1>1, <1>2 DEF Answer, work
    <2> QED
      BY <1>1, <1>2, <2>1, <2>2, OnlyResolve
  <1>3. ASSUME Resolvable, Fresh(t, [task[t] EXCEPT !.login = owner]),
               asked' = [asked EXCEPT ![t].gen = gen], Revocations
        PROVE  LoginFacts' /\ OwnerFacts'
    <2>1. PICK k : k = [task[t] EXCEPT !.login = owner]
      OBVIOUS
    <2>2. /\ owner \in Logins /\ row[owner] # NoRow /\ Live(owner) /\ born[owner] = "born"
          /\ gen \in Nat
      BY <1>3 DEF Resolvable, Named, OwnerFacts, ClaimInv, OwnerTypes
    <2>3. k \in Requests /\ k.login = owner
      BY <1>1, <2>1, <2>2 DEF Requests
    <2>4. Fresh(t, k)
      BY <1>3, <2>1
    <2>5. Effects
      BY <1>1, <2>2, <2>3, <2>4, FreshServed, ServedAlone
    <2>6. /\ HookInv' /\ BoundIsCurrent' /\ bindings' \subseteq bindings /\ revoked \subseteq revoked'
          /\ revoked' \subseteq Logins /\ rotated' \subseteq Logins \X Revisions
          /\ UNCHANGED <<epoch, closed>>
      BY <1>3, <2>5, Heard DEF Revocations
    <2>7. /\ asked' \in [Tasks -> [gen: Nat, epoch: Nat]]
          /\ asked'[t].epoch = asked[t].epoch /\ \A s \in Tasks \ {t} : asked'[s] = asked[s]
      BY <1>3, <2>2 DEF OwnerFacts, OwnerTypes
    <2>8. OwnerTypes'
      BY <1>1, <2>5, <2>6, <2>7, SameSets DEF OwnerFacts, OwnerTypes, agent, Effects
    <2>9. ClaimInv' /\ BoundIsOwner'
      BY <1>1, <2>6 DEF OwnerFacts, ClaimInv, BoundIsOwner, store, agent
    <2>10. ASSUME NEW s \in Tasks
           PROVE  ReadInv(s)'
      <3>1. ReadInv(s) /\ TaskStep(s)
        BY <2>5 DEF Effects, OwnerFacts
      <3>2. CASE s = t
        BY <1>1, <2>6, <2>7, <3>1, <3>2 DEF ReadInv, TaskStep
      <3>3. CASE s # t
        BY <1>1, <2>6, <2>7, <3>1, <3>3 DEF ReadInv, TaskStep, agent
      <3> QED
        BY <3>2, <3>3
    <2> QED
      BY <2>5, <2>6, <2>8, <2>9, <2>10, FactsKept DEF OwnerFacts
  <1> QED
    BY <1>2, <1>3 DEF BindRead

\* The channel gets an owner, where it has none or one whose login has ended.
LEMMA ClaimFacts ==
    ASSUME LoginFacts, OwnerFacts, NEW l \in Logins, Claim(l)
    PROVE  LoginFacts' /\ OwnerFacts'
  <1>1. /\ UNCHANGED <<store, mem, age, over, work, task, signedOut, local, asked, reset, unheard>>
        /\ owner' = l /\ gen' = gen + 1 /\ (owner = NoLogin \/ owner \in over) /\ gen \in Nat
        /\ row[l] # NoRow /\ born[l] = "born"
    BY DEF Claim, OwnerFacts, OwnerTypes
  <1>2. load' \in LoadRecords /\ load'.revs = load.revs
    BY SpendFields DEF Claim, LoginFacts, TypeOK
  <1>3. LoginFacts'
    BY <1>1, <1>2, RestFacts DEF LoginFacts, TypeOK
  <1>4. OwnerTypes'
    BY <1>1, <1>2, SameSets DEF OwnerFacts, OwnerTypes, local
  <1>5. HookInv'
    BY <1>1 DEF OwnerFacts, HookInv, Blocked, work, local
  <1>6. ClaimInv' /\ BoundIsCurrent'
    BY <1>1 DEF OwnerFacts, ClaimInv, BoundIsCurrent, Live, store, local
  <1>7. ASSUME NEW b \in bindings'
        PROVE  reset'.at = "cleared" \/ b.gen \in unheard'
    <2>1. b \in bindings /\ b.login \in Logins /\ b.login \notin over
      BY <1>1, BindingTypes DEF OwnerFacts, HookInv, local
    <2>2. owner # b.login
      BY <1>1, <2>1, OwnerAssumption
    <2> QED
      BY <1>1, <2>1, <2>2 DEF OwnerFacts, BoundIsOwner
  <1>8. ASSUME NEW t \in Tasks
        PROVE  ReadInv(t)'
    <2>1. ReadInv(t) /\ task[t].login \in Logins
      BY TaskFacts DEF OwnerFacts
    <2>2. owner = task[t].login => task[t].login \in over
      BY <1>1, <2>1, OwnerAssumption
    <2> QED
      BY <1>1, <2>1, <2>2 DEF ReadInv, local
  <1> QED
    BY <1>3, <1>4, <1>5, <1>6, <1>7, <1>8 DEF OwnerFacts, BoundIsOwner

\* The reset of the owner, and the end of the server: what is bound is let go.
LEMMA ResetFacts ==
    ASSUME LoginFacts, OwnerFacts, ResetLoad \/ ResetClear \/ ResetDone \/ RevokeAll
    PROVE  LoginFacts' /\ OwnerFacts'
  <1>1. /\ UNCHANGED <<store, mem, age, over, work, task, signedOut, asked, gen, unheard, revoked, rotated>>
        /\ load' \in LoadRecords /\ load'.revs = load.revs
    <2>1. CASE ResetLoad
      BY <2>1, SpendFields DEF ResetLoad, LoginFacts, TypeOK, local
    <2>2. CASE ResetClear
      BY <2>2 DEF ResetClear, LoginFacts, TypeOK, vars, local, store, work
    <2>3. CASE ResetDone
      BY <2>3 DEF ResetDone, LoginFacts, TypeOK, vars, store, work
    <2>4. CASE RevokeAll
      BY <2>4, SpendFields DEF RevokeAll, LoginFacts, TypeOK, agent
    <2> QED
      BY <2>1, <2>2, <2>3, <2>4
  <1>2. LoginFacts'
    BY <1>1, RestFacts DEF LoginFacts, TypeOK
  <1>3. bindings' \subseteq bindings
    BY DEF ResetLoad, ResetClear, ResetDone, RevokeAll, local
  <1>4. HookInv'
    BY <1>1, <1>3 DEF OwnerFacts, HookInv, Blocked, work
  <1>5. BoundIsCurrent'
    BY <1>1, <1>3 DEF OwnerFacts, BoundIsCurrent, Live
  <1>6. ASSUME ResetLoad
        PROVE  OwnerFacts'
    <2>1. /\ UNCHANGED <<local, owner>> /\ reset.at = "none"
          /\ reset' = [at |-> "loaded", login |-> owner, gen |-> gen]
      BY <1>6 DEF ResetLoad
    <2>2. OwnerTypes'
      BY <1>1, <2>1, SameSets DEF OwnerFacts, OwnerTypes, local
    <2> QED
      BY <1>1, <1>3, <1>4, <1>5, <2>1, <2>2
      DEF OwnerFacts, ClaimInv, BoundIsOwner, ReadInv, store, local
  <1>7. ASSUME ResetClear
        PROVE  OwnerFacts'
    <2>1. UNCHANGED local /\ (owner' = owner \/ owner' = NoLogin)
      BY <1>7 DEF ResetClear, Cleared
    <2>2. reset' \in [at: {"none", "loaded", "cleared"}, login: Logins \cup {NoLogin}, gen: Nat]
          /\ reset'.at = "cleared"
      BY <1>7 DEF ResetClear, OwnerFacts, OwnerTypes
    <2>3. OwnerTypes'
      BY <1>1, <2>1, <2>2, SameSets DEF OwnerFacts, OwnerTypes, local
    <2>4. ClaimInv'
      BY <1>1, <2>1, OwnerAssumption DEF OwnerFacts, ClaimInv, store
    <2> QED
      BY <1>1, <1>3, <1>4, <1>5, <2>1, <2>2, <2>3, <2>4 DEF OwnerFacts, BoundIsOwner, ReadInv, local
  <1>8. ASSUME ResetDone
        PROVE  OwnerFacts'
    <2>1. /\ UNCHANGED <<owner, closed>> /\ bindings' = {} /\ epoch' = epoch + 1 /\ epoch \in Nat
          /\ reset' = NoReset
      BY <1>8 DEF ResetDone, OwnerFacts, OwnerTypes
    <2>2. OwnerTypes'
      BY <1>1, <2>1, SameSets DEF OwnerFacts, OwnerTypes, NoReset
    <2>3. ASSUME NEW t \in Tasks
          PROVE  ReadInv(t)'
      <3>1. ReadInv(t) /\ asked[t].epoch \in Nat
        BY DEF OwnerFacts, OwnerTypes
      <3>2. asked'[t].epoch < epoch'
        BY <1>1, <2>1, <3>1 DEF ReadInv
      <3>3. asked'[t].epoch <= epoch'
        BY <1>1, <2>1, <3>1 DEF ReadInv
      <3> QED
        BY <1>1, <3>1, <3>2, <3>3 DEF ReadInv
    <2>4. BoundIsOwner' /\ ClaimInv'
      BY <1>1, <2>1 DEF OwnerFacts, BoundIsOwner, ClaimInv, store
    <2> QED
      BY <1>4, <1>5, <2>2, <2>3, <2>4 DEF OwnerFacts
  <1>9. ASSUME RevokeAll
        PROVE  OwnerFacts'
    <2>1. UNCHANGED <<owner, reset, epoch>> /\ bindings' = {} /\ closed' = TRUE
      BY <1>9 DEF RevokeAll, agent
    <2>2. OwnerTypes'
      BY <1>1, <2>1, SameSets DEF OwnerFacts, OwnerTypes
    <2> QED
      BY <1>1, <1>4, <1>5, <2>1, <2>2 DEF OwnerFacts, ClaimInv, BoundIsOwner, ReadInv, store
  <1> QED
    BY <1>2, <1>6, <1>7, <1>8, <1>9

\* An owner is cleared, or not, and the bindings are told nothing.
LEMMA ClearFacts ==
    ASSUME LoginFacts, OwnerFacts, ResetFails \/ AttachmentClears
    PROVE  LoginFacts' /\ OwnerFacts'
  <1>1. /\ UNCHANGED <<store, mem, age, over, work, task, signedOut, local, asked, gen>>
        /\ load' \in LoadRecords /\ load'.revs = load.revs
        /\ reset' = reset \/ (reset' = NoReset /\ reset.at = "loaded")
        /\ \/ owner' = owner /\ unheard' = unheard
           \/ owner' = NoLogin /\ unheard' = unheard \cup {gen}
    <2>1. CASE ResetFails
      BY <2>1, SpendFields DEF ResetFails, Cleared, Fault, LoginFacts, TypeOK
    <2>2. CASE AttachmentClears
      BY <2>2, SpendFields DEF AttachmentClears, LoginFacts, TypeOK
    <2> QED
      BY <2>1, <2>2
  <1>2. LoginFacts'
    BY <1>1, RestFacts DEF LoginFacts, TypeOK
  <1>3. OwnerTypes'
    <2>1. OwnerTypes
      BY DEF OwnerFacts
    <2>2. reset' \in [at: {"none", "loaded", "cleared"}, login: Logins \cup {NoLogin}, gen: Nat]
      <3>1. reset' = reset \/ reset' = NoReset
        BY <1>1
      <3>2. NoReset \in [at: {"none", "loaded", "cleared"}, login: Logins \cup {NoLogin}, gen: Nat]
        BY DEF NoReset
      <3> QED
        BY <2>1, <3>1, <3>2 DEF OwnerTypes
    <2>3. owner' \in Logins \cup {NoLogin} /\ unheard' \subseteq Nat
      BY <1>1, <2>1 DEF OwnerTypes
    <2> QED
      BY <1>1, <2>1, <2>2, <2>3, SameSets DEF OwnerTypes, local
  <1>4. HookInv'
    BY <1>1 DEF OwnerFacts, HookInv, Blocked, work, local
  <1>5. ClaimInv' /\ BoundIsCurrent'
    BY <1>1, OwnerAssumption DEF OwnerFacts, ClaimInv, BoundIsCurrent, Live, store, local
  <1>6. BoundIsOwner'
    BY <1>1 DEF OwnerFacts, BoundIsOwner, local
  <1>7. ASSUME NEW t \in Tasks
        PROVE  ReadInv(t)'
    <2>1. ReadInv(t)
      BY DEF OwnerFacts
    <2> QED
      BY <1>1, <2>1 DEF ReadInv, local
  <1> QED
    BY <1>2, <1>3, <1>4, <1>5, <1>6, <1>7 DEF OwnerFacts

LEMMA ReleaseFacts ==
    ASSUME LoginFacts, OwnerFacts, NEW b \in bindings, Release(b)
    PROVE  LoginFacts' /\ OwnerFacts'
  <1>1. /\ UNCHANGED <<store, mem, age, over, work, task, signedOut, load, agent, epoch, revoked,
                       rotated, closed, asked>>
        /\ bindings' \subseteq bindings
    BY DEF Release, vars, store, work
  <1>2. LoginFacts'
    BY <1>1, RestFacts DEF LoginFacts, TypeOK
  <1>3. OwnerTypes'
    BY <1>1, SameSets DEF OwnerFacts, OwnerTypes, agent
  <1>4. HookInv'
    BY <1>1 DEF OwnerFacts, HookInv, Blocked, work
  <1> QED
    BY <1>1, <1>2, <1>3, <1>4
    DEF OwnerFacts, ClaimInv, BoundIsCurrent, BoundIsOwner, ReadInv, Live, store, agent

\* The next process has no binding, and no owner.
LEMMA OwnerRestartFacts ==
    ASSUME LoginFacts, OwnerFacts, OwnerRestart
    PROVE  LoginFacts' /\ OwnerFacts'
  <1>1. LoginFacts'
    BY RestartFacts DEF OwnerRestart
  <1>2. /\ owner' = NoLogin /\ bindings' = {} /\ epoch' = 0 /\ revoked' = {} /\ rotated' = {}
        /\ asked' = [t \in Tasks |-> [gen |-> 0, epoch |-> 0]] /\ reset' = NoReset
        /\ closed' = FALSE /\ gen' = gen /\ unheard' = {}
    BY DEF OwnerRestart
  <1>3. OwnerTypes'
    BY <1>2 DEF OwnerFacts, OwnerTypes, NoReset
  <1>4. ASSUME NEW l \in Logins
        PROVE  ~Blocked(l)' /\ refresh'[l].at = "none"
    BY DEF OwnerRestart, Restart, Blocked, NoRefresh
  <1>5. HookInv'
    BY <1>2, <1>4 DEF HookInv, Renewing
  <1>6. ClaimInv' /\ BoundIsCurrent' /\ BoundIsOwner'
    BY <1>2, OwnerAssumption DEF ClaimInv, BoundIsCurrent, BoundIsOwner
  <1>7. ASSUME NEW t \in Tasks
        PROVE  ReadInv(t)'
    <2>1. task'[t].at # "read"
      BY DEF OwnerRestart, Restart, Idle
    <2> QED
      BY <1>2, <2>1 DEF ReadInv
  <1> QED
    BY <1>1, <1>3, <1>5, <1>6, <1>7 DEF OwnerFacts

\* Nothing happens.
LEMMA StutterFacts ==
    ASSUME LoginFacts, OwnerFacts, UNCHANGED bvars
    PROVE  LoginFacts' /\ OwnerFacts'
  <1>1. UNCHANGED <<store, mem, age, over, work, task, signedOut, load, agent, local, asked>>
    BY DEF bvars, vars, store, work, agent, local
  <1>2. LoginFacts'
    BY <1>1, RestFacts DEF LoginFacts, TypeOK
  <1>3. \A t \in Tasks : ReadInv(t)'
    BY <1>1, StillRead
  <1> QED
    BY <1>1, <1>2, <1>3, StillOwner DEF OwnerFacts, OwnerTypes, work

-----------------------------------------------------------------------------
(* The theorems.                                                           *)

\* Every step of the server keeps all of it.
LEMMA NextFacts ==
    ASSUME LoginFacts, OwnerFacts, [OwnerNext]_bvars
    PROVE  LoginFacts' /\ OwnerFacts'
  <1>1. CASE \E t \in Tasks : Resume(t) /\ Hooks
    BY <1>1, RequestStepEffects, FactsKept, HooksKeep
  <1>2. CASE \E l \in Logins : (LoginStep(l) \/ DelegateStep(l)) /\ Hooks
    BY <1>2, LoginStepEffects, FactsKept, HooksKeep
  <1>3. CASE \E t \in load.tasks \ load.binders : Arrive(t) /\ Hooks
    <2>1. load.tasks \subseteq Tasks
      BY DEF LoginFacts, TypeOK, LoadRecords
    <2> QED
      BY <1>3, <2>1, RequestStepEffects, FactsKept, HooksKeep
  <1>4. CASE \E t \in Tasks : (Called(t) \/ Operated(t)) /\ Hooks
    BY <1>4, RequestStepEffects, FactsKept, HooksKeep
  <1>5. CASE \E t \in Tasks : BindRead(t)
    BY <1>5, BindReadFacts
  <1>6. CASE \E t \in Tasks : BindStep(t)
    BY <1>6, BindFacts, BindUseFacts, BindAdmittedFacts, BindLatestFacts, BindFinalFacts
    DEF BindStep
  <1>7. CASE \E l \in Logins : Claim(l)
    BY <1>7, ClaimFacts
  <1>8. CASE ResetLoad \/ ResetClear \/ ResetDone \/ RevokeAll
    BY <1>8, ResetFacts
  <1>12. CASE ResetFails \/ AttachmentClears
    BY <1>12, ClearFacts
  <1>9. CASE \E b \in bindings : Release(b)
    BY <1>9, ReleaseFacts
  <1>10. CASE OwnerRestart
    BY <1>10, OwnerRestartFacts
  <1>11. CASE UNCHANGED bvars
    BY <1>11, StutterFacts
  <1> QED
    BY <1>1, <1>2, <1>3, <1>4, <1>5, <1>6, <1>7, <1>8, <1>9, <1>10, <1>11, <1>12 DEF OwnerNext

\* What every state of the server satisfies: what is known of the logins, and of the owner.
LEMMA Always == OwnerSpec => []IndInv
  <1>1. OwnerInit => IndInv
    BY InitInv
  <1>2. IndInv /\ [OwnerNext]_bvars => LoginFacts' /\ OwnerFacts'
    BY SameFacts, NextFacts
  <1> QED
    BY <1>1, <1>2, SameFacts, PTL DEF OwnerSpec

(* Login by login: a login that is being revoked, or whose row could not   *)
(* be deleted, is in nobody's hands (BlockedIsOut); between refreshes      *)
(* memory holds the refresh token GitHub accepts (NoConsumedToken); the    *)
(* row is never ahead of memory (RowInStep); and the agents know of every  *)
(* revocation and rotation that is on its way (auth/session.ts with the    *)
(* hooks of main.ts).                                                      *)
THEOREM LoginsInStep == OwnerSpec => []OwnerInv
  <1>1. IndInv => OwnerInv
    BY DEF IndInv
  <1> QED
    BY <1>1, Always, PTL

(* No binding outlives the credentials it was checked with, however late   *)
(* the resolve that made it finished (agent/active-owner.ts).              *)
THEOREM BindingsCurrent == OwnerSpec => []BoundIsCurrent
  <1>1. IndInv => BoundIsCurrent
    BY DEF IndInv
  <1> QED
    BY <1>1, Always, PTL

(* No binding acts for a login that no longer owns the channel, unless the *)
(* reset that took the channel from it is about to end the binding, or had *)
(* its reply lost, or an attachment cleared the owner: nobody tells the    *)
(* bindings of that (agent/active-owner.ts, resolve and revokeChannel).    *)
THEOREM BindingsOwned == OwnerSpec => []BoundIsOwner
  <1>1. IndInv => BoundIsOwner
    BY DEF IndInv
  <1> QED
    BY <1>1, Always, PTL

-----------------------------------------------------------------------------
(* A sign-out that was answered.                                           *)

\* The login is in nobody's hands, and nothing is left to restore it from.
Away(l) ==
    /\ born[l] = "born" /\ ~Live(l) /\ (row[l] = NoRow \/ l \in over)
    /\ restore[l].at \in {"none", "get"}

\* It is in nobody's hands, and its row is still to be deleted.
Owed(l) == born[l] = "born" /\ ~Live(l) /\ l \in pending

Left(l) == Away(l) \/ Owed(l)

\* What an answered sign-out can rely on.
Kept(s) ==
    /\ s.row = "seen" => Away(s.login)
    /\ s.row = "assumed" => Left(s.login)

\* What a restore found for a sign-out is in memory until the sign-out has gone on, or another
\* one has revoked it.
Finds(k)   == k.at = "found" /\ k.kind = "out" => mem[k.login].rev = k.held \/ Left(k.login)
Resumed(k) == k.at \in {"found", "retry"}

SignOutInv ==
    /\ \A s \in signedOut : Kept(s)
    /\ \A t \in Tasks : Finds(task[t])
    /\ \A s, t \in Tasks : ~(task[s].at = "found" /\ task[t].at = "retry")

\* No step of a login brings it back.
LEMMA AwayKept ==
    ASSUME TypeOK, NEW l \in Logins, LoginPart(l), Move(l), Hooked(l), Away(l)
    PROVE  Away(l)'
  <1>1. /\ born'[l] = "born" /\ (l \in over => l \in over')
        /\ row[l] = NoRow => row[l].rev = 0
    BY DEF Hooked, Away, NoRow
  <1>2. refresh[l].at \in Renewing => ~Held(l) /\ refresh[l].held.rev > 0
    BY DEF LoginPart, RefreshInv, Held, Away, Live, None
  <1>3. ~Live(l) /\ restore[l].at \in {"none", "get"} /\ born[l] = "born"
    BY DEF Away
  <1>4. CASE Rests(l) \/ Ages(l) \/ Deletes(l)
    BY <1>1, <1>3, <1>4 DEF Away, Live, Rests, Ages, Deletes, KeptStore, KeptEntry, KeptRestore
  <1>5. CASE Signs(l) \/ Revoked(l) \/ Starts(l) \/ Returns(l)
    BY <1>3, <1>5 DEF Signs, Revoked, Starts, Returns
  <1>6. CASE Goes(l)
    <2>1. row[l] = NoRow => row'[l] = NoRow
      BY <1>1, <1>2, <1>6 DEF Goes, Renewing
    <2> QED
      BY <1>1, <1>3, <1>6, <2>1 DEF Goes, Away, Live, KeptEntry, KeptRestore
  <1>7. CASE Stops(l)
    BY <1>1, <1>3, <1>7 DEF Stops, Away, Live, KeptRestore
  <1>8. CASE Installs(l)
    BY <1>2, <1>8 DEF Installs, Renewing
  <1>9. CASE Looks(l)
    BY <1>1, <1>3, <1>9 DEF Looks, Away, Live, KeptStore, KeptEntry, NoRestore
  <1> QED
    BY <1>4, <1>5, <1>6, <1>7, <1>8, <1>9 DEF Move

\* What is still to be deleted is so until it is away.
LEMMA OwedKept ==
    ASSUME TypeOK, NEW l \in Logins, LoginPart(l), Move(l), Hooked(l), Owed(l)
    PROVE  Left(l)'
  <1>1. born[l] = "born" /\ born'[l] = "born" /\ ~Live(l) /\ l \in pending /\ Blocked(l)
    BY DEF Hooked, Owed, Blocked
  <1>2. restore[l].at = "none"
    BY <1>1 DEF LoginPart, RestoreInv, TypeOK, Restores
  <1>3. refresh[l].at \in Renewing => ~Held(l)
    BY <1>1 DEF LoginPart, RefreshInv, Held, Live, None
  <1>4. CASE Rests(l) \/ Ages(l)
    BY <1>1, <1>4 DEF Left, Owed, Live, Rests, Ages, KeptStore, KeptEntry, KeptRevoking
  <1>5. CASE Deletes(l)
    <2>1. mem'[l] = mem[l] /\ restore'[l] = restore[l] /\ (l \in pending' \/ row'[l] = NoRow)
      BY <1>1, <1>5 DEF Deletes, KeptEntry, KeptRestore, KeptRevoking
    <2> QED
      BY <1>1, <1>2, <2>1 DEF Left, Owed, Away, Live
  <1>6. CASE Signs(l) \/ Revoked(l) \/ Starts(l) \/ Returns(l)
    BY <1>1, <1>6 DEF Signs, Revoked, Starts, Returns
  <1>7. CASE Goes(l)
    BY <1>1, <1>7 DEF Goes, Left, Owed, Live, KeptEntry, KeptRevoking
  <1>8. CASE Stops(l)
    BY <1>1, <1>8 DEF Stops, Left, Owed, Live, KeptRevoking
  <1>9. CASE Installs(l)
    BY <1>3, <1>9 DEF Installs, Renewing
  <1>10. CASE Looks(l)
    BY <1>1, <1>10 DEF Looks, Left, Owed, Live, KeptStore, KeptEntry, KeptRevoking
  <1> QED
    BY <1>4, <1>5, <1>6, <1>7, <1>8, <1>9, <1>10 DEF Move

\* So what was left stays left, and what answered sign-outs rely on stays.
LEMMA StaysLeft ==
    ASSUME LoginFacts, SignOutInv, Effects
    PROVE  (\A l \in Logins : Left(l) => Left(l)') /\ \A s \in signedOut : Kept(s)'
  <1>1. ASSUME NEW l \in Logins
        PROVE  (Away(l) => Away(l)') /\ (Owed(l) => Left(l)')
    <2>1. TypeOK /\ LoginPart(l) /\ Move(l) /\ Hooked(l)
      BY FactsKept DEF LoginFacts, Effects
    <2> QED
      BY <2>1, AwayKept, OwedKept
  <1>2. \A l \in Logins : Left(l) => Left(l)'
    BY <1>1 DEF Left
  <1>3. ASSUME NEW s \in signedOut
        PROVE  Kept(s)'
    <2>1. s.login \in Logins /\ Kept(s)
      BY DEF SignOutInv, LoginFacts, TypeOK, SignOuts
    <2>2. Kept(s)' <=> (s.row = "seen" => Away(s.login)') /\ (s.row = "assumed" => Left(s.login)')
      BY DEF Kept
    <2> QED
      BY <1>1, <1>2, <2>1, <2>2 DEF Kept
  <1> QED
    BY <1>2, <1>3

\* Request `t' goes on: to nothing it is resumed from.
Turned(t) ==
    \E q \in Requests : task' = [task EXCEPT ![t] = q] /\ ~Resumed(q)

LEMMA TurnedKeeps ==
    ASSUME LoginFacts, SignOutInv, NEW t \in Tasks, Turned(t),
           \/ \A l \in Logins : mem'[l] = mem[l] \/ Left(l)'
           \/ \A s \in Tasks \ {t} : ~(task[s].at = "found" /\ task[s].kind = "out"),
           \A l \in Logins : Left(l) => Left(l)', \A s \in signedOut' : Kept(s)'
    PROVE  SignOutInv'
  <1>1. PICK q \in Requests : task' = [task EXCEPT ![t] = q] /\ ~Resumed(q)
    BY DEF Turned
  <1>2. task'[t] = q /\ \A s \in Tasks \ {t} : task'[s] = task[s]
    BY <1>1 DEF LoginFacts, TypeOK
  <1>3. ASSUME NEW s \in Tasks
        PROVE  Finds(task[s])'
    <2>1. CASE s = t
      BY <1>1, <1>2, <2>1 DEF Finds, Resumed
    <2>2. CASE s # t
      <3>1. task'[s] = task[s] /\ task[s].login \in Logins /\ Finds(task[s])
        BY <1>2, <2>2, TaskFacts DEF SignOutInv
      <3> QED
        BY <2>2, <3>1 DEF Finds
    <2> QED
      BY <2>1, <2>2
  <1>4. ASSUME NEW r \in Tasks, NEW s \in Tasks, task'[r].at = "found", task'[s].at = "retry"
        PROVE  FALSE
    BY <1>1, <1>2, <1>4 DEF Resumed, SignOutInv
  <1> QED
    BY <1>3, <1>4 DEF SignOutInv

\* One more sign-out is answered.
LEMMA OneMoreKept ==
    ASSUME NEW l \in Logins, NEW n,
           (n = Seen(l) /\ Away(l)') \/ (n = Assumed(l) /\ Left(l)'),
           \A s \in signedOut : Kept(s)', signedOut' \subseteq signedOut \cup {n}
    PROVE  \A s \in signedOut' : Kept(s)'
  <1> SUFFICES ASSUME NEW s \in signedOut', s = n
               PROVE  Kept(s)'
    OBVIOUS
  <1>1. CASE s = Seen(l) /\ Away(l)'
    <2>1. s.login = l /\ s.row = "seen"
      BY <1>1 DEF Seen
    <2> QED
      BY <1>1, <2>1 DEF Kept, Away, Live
  <1>2. CASE s = Assumed(l) /\ Left(l)'
    <2>1. s.login = l /\ s.row = "assumed"
      BY <1>2 DEF Assumed
    <2> QED
      BY <1>2, <2>1 DEF Kept, Left, Owed, Away, Live
  <1> QED
    BY <1>1, <1>2

\* The requests that share what ended go on; what is not a restore resumes none as found.
StepsOn == \A t \in Tasks : task'[t] = task[t] \/ task'[t].at # "found"

LEMMA StepsOnKeeps ==
    ASSUME SignOutInv, Quiet, StepsOn, \A s \in signedOut' : Kept(s)'
    PROVE  SignOutInv'
  <1>1. ASSUME NEW t \in Tasks
        PROVE  task'[t].at # "found"
    BY DEF Quiet, StepsOn
  <1> QED
    BY <1>1 DEF SignOutInv, Finds

-----------------------------------------------------------------------------
(* What requests do.                                                       *)

LEMMA DoneTurns ==
    ASSUME load.revs \in Nat, NEW k \in Requests, NEW r \in {"none", "ok", "error"}
    PROVE  Done(k, r) \in Requests /\ ~Resumed(Done(k, r)) /\ Done(k, r).kind = "none"
  <1>1. Done(k, r) \in Requests /\ Done(k, r).at = "idle"
    BY DoneFits
  <1> QED
    BY <1>1 DEF Resumed, Done, Idle

LEMMA AnswerTurns ==
    ASSUME load.revs \in Nat, NEW t \in Tasks, NEW k \in Requests,
           NEW r \in {"none", "ok", "error"}, Answer(t, k, r)
    PROVE  Turned(t) /\ mem' = mem
  BY DoneTurns DEF Answer, Turned

LEMMA WaitTurns ==
    ASSUME NEW t \in Tasks, NEW k \in Requests,
           NEW a \in {"finding", "revoking", "rejecting", "resolved", "operation", "checked"},
           task' = [task EXCEPT ![t] = [k EXCEPT !.at = a]]
    PROVE  Turned(t)
  <1>1. /\ [k EXCEPT !.at = a] \in Requests /\ [k EXCEPT !.at = a].at = a
        /\ [k EXCEPT !.at = a].kind = k.kind
    BY DEF Requests
  <1> QED
    BY <1>1 DEF Turned, Resumed

LEMMA RotatedTurns ==
    ASSUME load.revs \in Nat, NEW k \in Requests, NEW rev \in Revisions
    PROVE  /\ Rotated(k, rev) \in Requests /\ ~Resumed(Rotated(k, rev))
           /\ Rotated(k, rev).kind \in {k.kind, "none"}
  <1>1. Done(k, "none") \in Requests /\ ~Resumed(Done(k, "none")) /\ Done(k, "none").kind = "none"
    BY DoneTurns
  <1>2. ASSUME NEW a \in {"authorize", "operation"}, NEW n \in {1, 2}
        PROVE  LET q == [k EXCEPT !.at = a, !.held = rev, !.try = n]
               IN  q \in Requests /\ ~Resumed(q) /\ q.kind = k.kind
    BY DEF Requests, Resumed
  <1>3. CASE Rotated(k, rev) = Done(k, "none")
    BY <1>1, <1>3
  <1>4. CASE Rotated(k, rev) # Done(k, "none")
    <2>1. PICK a \in {"authorize", "operation"}, n \in {1, 2} :
              Rotated(k, rev) = [k EXCEPT !.at = a, !.held = rev, !.try = n]
      BY <1>4 DEF Rotated
    <2> QED
      BY <1>2, <2>1
  <1> QED
    BY <1>3, <1>4

LEMMA RotateTurns ==
    ASSUME LoginFacts, NEW t \in Tasks, NEW k \in Requests, NEW rejected \in Revisions,
           Rotate(t, k, rejected)
    PROVE  Turned(t) /\ (k.login \notin over => mem' = mem)
  <1> DEFINE q == [k EXCEPT !.at = "rotating", !.rejected = rejected, !.joined = FALSE]
  <1>1. load.revs \in Nat /\ k.login \in Logins /\ mem[k.login].rev \in Revisions
    BY DEF LoginFacts, TypeOK, LoadRecords, Requests, Credentials
  <1>2. /\ q \in Requests /\ ~Resumed(q) /\ q.kind = k.kind
        /\ [q EXCEPT !.joined = TRUE] \in Requests /\ ~Resumed([q EXCEPT !.joined = TRUE])
        /\ [q EXCEPT !.joined = TRUE].kind = k.kind
    BY DEF Requests, Resumed
  <1> HIDE DEF q
  <1>3. \/ task' = [task EXCEPT ![t] = [q EXCEPT !.joined = TRUE]]
        \/ task' = [task EXCEPT ![t] = q]
        \/ task' = [task EXCEPT ![t] = Rotated(q, mem[k.login].rev)]
    BY DEF Rotate, q
  <1>4. Turned(t)
    BY <1>1, <1>2, <1>3, RotatedTurns DEF Turned
  <1> QED
    BY <1>4 DEF Rotate

LEMMA FreshTurns ==
    ASSUME LoginFacts, NEW t \in Tasks, NEW k \in Requests, Fresh(t, k)
    PROVE  Turned(t) /\ (k.login \notin over => mem' = mem)
  <1>1. load.revs \in Nat /\ k.login \in Logins /\ mem[k.login].rev \in Revisions /\ 0 \in Revisions
    BY DEF LoginFacts, TypeOK, LoadRecords, Requests, Credentials, Revisions
  <1>2. CASE k.login \in over
    BY <1>2, WaitTurns DEF Fresh
  <1>3. CASE k.login \notin over /\ age[k.login] = 0
    <2> DEFINE q == [k EXCEPT !.at = "authorize", !.held = mem[k.login].rev, !.try = 1,
                              !.rejected = 0]
    <2>1. q \in Requests /\ ~Resumed(q) /\ q.kind = k.kind
      BY <1>1 DEF Requests, Resumed
    <2>2. task' = [task EXCEPT ![t] = q] /\ mem' = mem
      BY <1>3 DEF Fresh
    <2> HIDE DEF q
    <2> QED
      BY <2>1, <2>2 DEF Turned
  <1>4. CASE Rotate(t, k, 0)
    BY <1>1, <1>4, RotateTurns
  <1> QED
    BY <1>2, <1>3, <1>4 DEF Fresh

LEMMA FreshAgainTurns ==
    ASSUME LoginFacts, NEW t \in Tasks, NEW k \in Requests, FreshAgain(t, k)
    PROVE  Turned(t) /\ (k.login \notin over => mem' = mem)
  <1>1. CASE Live(k.login)
    BY <1>1, FreshTurns DEF FreshAgain
  <1>2. CASE ~Live(k.login)
    <2>1. Answer(t, k, "none") /\ load.revs \in Nat
      BY <1>2 DEF FreshAgain, Answer, LoginFacts, TypeOK, LoadRecords
    <2> QED
      BY <2>1, AnswerTurns
  <1> QED
    BY <1>1, <1>2

\* A sign-out whose deletion has already succeeded is answered; another is not yet.
LEMMA ArriveSigns ==
    ASSUME LoginFacts, SignOutInv, Quiet, NEW t \in Tasks, NEW l \in Logins,
           Authenticate(t, l) \/ SignOut(t, l)
    PROVE  SignOutInv'
  <1>0. /\ load.revs \in Nat
        /\ \A m \in Logins : Left(m) => Left(m)'
        /\ \A s \in signedOut : Kept(s)'
    BY AuthenticateEffects, SignOutEffects, StaysLeft DEF LoginFacts, TypeOK, LoadRecords
  <1>1. ASSUME Turned(t), signedOut' = signedOut
        PROVE  SignOutInv'
    <2>1. \A s \in Tasks \ {t} : ~(task[s].at = "found" /\ task[s].kind = "out")
      BY DEF Quiet
    <2> QED
      BY <1>0, <1>1, <2>1, TurnedKeeps
  <1>2. CASE Authenticate(t, l)
    <2> DEFINE k == [Idle(l) EXCEPT !.kind = "auth"]
    <2>1. k \in Requests /\ k.kind = "auth" /\ k.login = l
      BY <1>0, IdleFits DEF Requests
    <2> HIDE DEF k
    <2>2. /\ Answer(t, k, "none") \/ Fresh(t, k) \/ Find(t, k)
          /\ signedOut' = signedOut
      BY <1>2 DEF Authenticate, k
    <2>3. Turned(t)
      BY <1>0, <2>1, <2>2, AnswerTurns, FreshTurns, WaitTurns DEF Find
    <2> QED
      BY <1>1, <2>2, <2>3
  <1>3. CASE SignOut(t, l)
    <2> DEFINE k == [Idle(l) EXCEPT !.kind = "out"]
    <2>1. k \in Requests /\ k.login = l
      BY <1>0, IdleFits DEF Requests
    <2> HIDE DEF k
    <2>2. CASE /\ l \notin pending /\ revoking[l] # "none" /\ Answer(t, k, "ok")
               /\ signedOut' = signedOut \cup {Seen(l)} /\ UNCHANGED restore
      <3>1. Away(l)'
        <4>1. /\ row[l] = NoRow /\ born[l] = "born" /\ ~Live(l) /\ restore[l].at = "none"
          BY <1>3, <2>2 DEF LoginFacts, LoginPart, OutInv, RevokingInv, RestoreInv, Blocked, SignOut
        <4> QED
          BY <1>3, <2>2, <4>1 DEF Away, Live, SignOut, Answer, store
      <3>2. \A s \in signedOut' : Kept(s)'
        BY <1>0, <2>2, <3>1, OneMoreKept
      <3>3. Turned(t) /\ mem' = mem
        BY <1>0, <2>1, <2>2, AnswerTurns
      <3> QED
        BY <1>0, <3>2, <3>3, TurnedKeeps
    <2>3. CASE ~(/\ l \notin pending /\ revoking[l] # "none" /\ Answer(t, k, "ok")
                 /\ signedOut' = signedOut \cup {Seen(l)} /\ UNCHANGED restore)
      <3>1. signedOut' = signedOut /\ Turned(t)
        <4>1. /\ signedOut' = signedOut
              /\ \/ task' = [task EXCEPT ![t] = [k EXCEPT !.at = "revoking"]]
                 \/ RevokeAwait(t, k) \/ Find(t, k)
          BY <1>3, <2>3 DEF SignOut, k
        <4> QED
          BY <2>1, <4>1, WaitTurns DEF RevokeAwait, Find
      <3> QED
        BY <1>1, <3>1
    <2> QED
      BY <2>2, <2>3
  <1> QED
    BY <1>2, <1>3

\* GitHub has answered, and no request is about to be resumed.
LEMMA CalledSigns ==
    ASSUME LoginFacts, SignOutInv, Quiet, NEW t \in Tasks, Called(t) \/ Operated(t)
    PROVE  SignOutInv'
  <1> DEFINE k == task[t]
  <1>0. /\ k \in Requests /\ k.held \in Revisions /\ load.revs \in Nat
        /\ \A s \in Tasks \ {t} : ~(task[s].at = "found" /\ task[s].kind = "out")
    BY TaskFacts DEF Quiet
  <1>1. signedOut' = signedOut
    BY DEF Called, Authorized, Refused, CallFails, Reject, Operated
  <1>2. (\A l \in Logins : Left(l) => Left(l)') /\ \A s \in signedOut' : Kept(s)'
    BY <1>1, RequestStepEffects, StaysLeft
  <1>3. Turned(t)
    <2>1. CASE Authorized(t)
      <3>1. FreshAgain(t, k) \/ Resolve(t, k) \/ RevokeAwait(t, k)
        BY <2>1 DEF Authorized
      <3>2. CASE Resolve(t, k)
        <4>1. CASE Answer(t, k, "ok")
          BY <1>0, <4>1, AnswerTurns
        <4>2. CASE ~Answer(t, k, "ok")
          <5> DEFINE q == [k EXCEPT !.at = "resolved", !.result = "ok"]
          <5>1. task' = [task EXCEPT ![t] = q]
            BY <3>2, <4>2 DEF Resolve
          <5>2. q \in Requests /\ ~Resumed(q)
            BY <1>0 DEF Requests, Resumed
          <5> HIDE DEF q
          <5> QED
            BY <5>1, <5>2 DEF Turned
        <4> QED
          BY <4>1, <4>2
      <3> QED
        BY <1>0, <3>1, <3>2, FreshAgainTurns, WaitTurns DEF RevokeAwait
    <2>2. CASE Refused(t)
      BY <1>0, <2>2, RotateTurns, WaitTurns DEF Refused
    <2>3. CASE CallFails(t)
      BY <1>0, <2>3, AnswerTurns DEF CallFails
    <2>4. CASE Reject(t)
      <3>1. \/ Answer(t, k, "none") \/ Answer(t, k, "error") \/ RevokeAwait(t, k) \/ Fresh(t, k)
        BY <2>4 DEF Reject
      <3> QED
        BY <1>0, <3>1, AnswerTurns, FreshTurns, WaitTurns DEF RevokeAwait
    <2>5. CASE Operated(t)
      <3>1. \/ task' = [task EXCEPT ![t] = [k EXCEPT !.at = "checked"]]
            \/ task' = [task EXCEPT ![t] = Done(k, "none")]
        BY <2>5 DEF Operated
      <3> QED
        BY <1>0, <3>1, DoneTurns, WaitTurns DEF Turned
    <2> QED
      BY <2>1, <2>2, <2>3, <2>4, <2>5 DEF Called
  <1> QED
    BY <1>0, <1>2, <1>3, TurnedKeeps

\* A request goes on with what was found, before anything else happens: the first sign-out
\* revokes it, and another that was given the same finds it left.
LEMMA ResumeSigns ==
    ASSUME LoginFacts, SignOutInv, NEW t \in Tasks, Resume(t)
    PROVE  SignOutInv'
  <1> DEFINE k == task[t]
  <1>0. /\ k \in Requests /\ k.rejected \in Revisions /\ k.login \in Logins /\ load.revs \in Nat
        /\ Finds(k)
    BY TaskFacts DEF SignOutInv
  <1>1. (\A l \in Logins : Left(l) => Left(l)') /\ \A s \in signedOut : Kept(s)'
    BY ResumeEffects, StaysLeft
  <1>2. ASSUME Turned(t), signedOut' = signedOut,
               \A l \in Logins : mem'[l] = mem[l] \/ Left(l)'
        PROVE  SignOutInv'
    BY <1>1, <1>2, TurnedKeeps
  <1>3. CASE k.at = "found" /\ k.kind = "auth"
    <2>1. Turned(t) /\ mem' = mem /\ signedOut' = signedOut
      <3>1. CASE k.login \in over
        BY <1>0, <1>3, <3>1, AnswerTurns DEF Resume
      <3>2. CASE k.login \notin over
        BY <1>0, <1>3, <3>2, FreshAgainTurns DEF Resume
      <3> QED
        BY <3>1, <3>2
    <2> QED
      BY <1>2, <2>1
  <1>4. CASE k.at = "found" /\ k.kind = "out" /\ RevokeAwait(t, k) /\ signedOut' = signedOut
    <2>1. Turned(t)
      BY <1>0, <1>4, WaitTurns DEF RevokeAwait
    <2>2. mem' = [mem EXCEPT ![k.login] = None] /\ pending' = pending \cup {k.login}
      BY <1>4 DEF RevokeAwait, RevokeNow
    <2>3. born'[k.login] = "born"
      BY <1>0, <1>4 DEF Resume, store, LoginFacts, Fit
    <2>4. ASSUME NEW l \in Logins, l = k.login
          PROVE  Left(l)'
      BY <2>2, <2>3, <2>4 DEF Left, Owed, Live, LoginFacts, TypeOK
    <2>5. \A l \in Logins : mem'[l] = mem[l] \/ Left(l)'
      BY <2>2, <2>4 DEF LoginFacts, TypeOK
    <2> QED
      BY <1>2, <1>4, <2>1, <2>5
  <1>5. CASE /\ k.at = "found" /\ k.kind = "out" /\ mem[k.login].rev # k.held
             /\ Answer(t, k, "ok") /\ signedOut' = signedOut \cup {Assumed(k.login)}
    <2>1. PICK l \in Logins : l = k.login
      BY <1>0
    <2>2. Left(l)'
      BY <1>0, <1>1, <1>5, <2>1 DEF Finds
    <2>3. \A s \in signedOut' : Kept(s)'
      BY <1>1, <1>5, <2>1, <2>2, OneMoreKept
    <2>4. Turned(t) /\ mem' = mem
      BY <1>0, <1>5, AnswerTurns
    <2> QED
      BY <1>1, <2>3, <2>4, TurnedKeeps
  <1>6. CASE k.at = "retry" /\ Rotate(t, k, k.rejected) /\ signedOut' = signedOut
    <2>1. \A s \in Tasks \ {t} : ~(task[s].at = "found" /\ task[s].kind = "out")
      BY <1>6 DEF SignOutInv
    <2>2. Turned(t)
      BY <1>0, <1>6, RotateTurns
    <2> QED
      BY <1>1, <1>6, <2>1, <2>2, TurnedKeeps
  <1> QED
    BY <1>3, <1>4, <1>5, <1>6 DEF Resume

-----------------------------------------------------------------------------
(* What logins do.                                                         *)

LEMMA EndsOn ==
    ASSUME LoginFacts, NEW l \in Logins, NEW rev \in Revisions, NEW failed \in BOOLEAN,
           Ends(l, rev, failed)
    PROVE  StepsOn
  <1>1. ASSUME NEW t \in Tasks
        PROVE  task'[t] = task[t] \/ task'[t].at # "found"
    <2>1. task[t] \in Requests /\ load.revs \in Nat
      BY TaskFacts
    <2>2. \/ task'[t] = task[t] \/ task'[t] = Done(task[t], "error")
          \/ task'[t] = [task[t] EXCEPT !.at = "retry"] \/ task'[t] = Rotated(task[t], rev)
      BY DEF Ends
    <2>3. [task[t] EXCEPT !.at = "retry"].at = "retry"
      BY <2>1 DEF Requests
    <2> QED
      BY <2>1, <2>2, <2>3, DoneTurns, RotatedTurns DEF Resumed
  <1> QED
    BY <1>1 DEF StepsOn

LEMMA AfterRevokeOn ==
    ASSUME LoginFacts, NEW l \in Logins, NEW failed \in BOOLEAN, AfterRevoke(l, failed)
    PROVE  StepsOn
  <1>1. ASSUME NEW t \in Tasks
        PROVE  task'[t] = task[t] \/ task'[t].at # "found"
    <2>1. task[t] \in Requests /\ load.revs \in Nat
      BY TaskFacts
    <2>2. \/ task'[t] = task[t]
          \/ \E r \in {"none", "ok", "error"} : task'[t] = Done(task[t], r)
      BY DEF AfterRevoke
    <2> QED
      BY <2>1, <2>2, DoneTurns DEF Resumed
  <1> QED
    BY <1>1 DEF StepsOn

\* A refresh gives the requests that await it its result, and signs nobody out.
LEMMA RefreshOn ==
    ASSUME LoginFacts, NEW l \in Logins,
           \/ RefreshBefore(l) \/ RefreshSource(l) \/ RefreshGranted(l) \/ RefreshRefused(l)
           \/ RefreshFails(l) \/ RefreshCommit(l) \/ RefreshReply(l) \/ CommitFails(l)
           \/ RefreshOver(l)
    PROVE  StepsOn /\ signedOut' = signedOut
  <1>0. /\ 0 \in Revisions /\ mem[l].rev \in Revisions /\ refresh[l].held.rev \in Revisions
        /\ refresh[l].at \in {"before", "reply"} => refresh[l].held.rev + 1 \in Revisions
    BY RefreshFacts DEF Renewing, Revisions
  <1>1. task' = task => StepsOn
    BY DEF StepsOn
  <1>2. Overtaken(l) \/ RefreshRevokes(l) => StepsOn
    BY <1>0, <1>1, EndsOn DEF Overtaken, RefreshRevokes
  <1>3. ASSUME refresh[l].at \in {"before", "reply"}, NEW tok, Install(l, tok)
        PROVE  StepsOn
    BY <1>0, <1>3, EndsOn DEF Install
  <1>4. CASE RefreshBefore(l)
    BY <1>1, <1>2, <1>3, <1>4 DEF RefreshBefore, Go
  <1>5. CASE RefreshSource(l)
    BY <1>0, <1>1, <1>2, <1>5, EndsOn DEF RefreshSource
  <1>6. CASE RefreshGranted(l)
    BY <1>1, <1>2, <1>6 DEF RefreshGranted
  <1>7. CASE RefreshRefused(l)
    BY <1>2, <1>7 DEF RefreshRefused
  <1>8. CASE RefreshFails(l)
    BY <1>0, <1>8, EndsOn DEF RefreshFails
  <1>9. CASE RefreshCommit(l)
    BY <1>1, <1>9 DEF RefreshCommit
  <1>10. CASE RefreshReply(l)
    BY <1>0, <1>2, <1>3, <1>10, EndsOn DEF RefreshReply
  <1>11. CASE CommitFails(l)
    BY <1>0, <1>2, <1>11, EndsOn DEF CommitFails
  <1>12. CASE RefreshOver(l)
    BY <1>0, <1>12, EndsOn DEF RefreshOver
  <1> QED
    BY <1>4, <1>5, <1>6, <1>7, <1>8, <1>9, <1>10, <1>11, <1>12
    DEF RefreshBefore, RefreshSource, RefreshGranted, RefreshCommit, RefreshReply, RefreshOver,
        RefreshRefused, RefreshFails, CommitFails

\* The deletion of a row is answered, and with it whoever waits for it.
LEMMA DeletedSigns ==
    ASSUME LoginFacts, SignOutInv, Quiet, NEW l \in Logins, RevokeDeleted(l)
    PROVE  SignOutInv'
  <1>1. \A s \in signedOut : Kept(s)'
    BY RevokeDeletedEffects, StaysLeft
  <1>2. Away(l)'
    <2>1. born[l] = "born" /\ ~Live(l) /\ restore[l].at = "none"
      BY DEF RevokeDeleted, LoginFacts, LoginPart, OutInv, UnbornInv, RestoreInv, Blocked
    <2>2. row'[l] = NoRow
      BY DEF RevokeDeleted, LoginFacts, TypeOK
    <2> QED
      BY <2>1, <2>2 DEF RevokeDeleted, Away, Live
  <1>3. \A s \in signedOut' : Kept(s)'
    <2>1. signedOut' \subseteq signedOut \cup {Seen(l)}
      BY DEF RevokeDeleted, AfterRevoke
    <2> QED
      BY <1>1, <1>2, <2>1, OneMoreKept
  <1>4. StepsOn
    BY AfterRevokeOn DEF RevokeDeleted
  <1> QED
    BY <1>3, <1>4, StepsOnKeeps

\* A restore ends: nothing is left of the login, or it is in memory.
LEMMA FoundSigns ==
    ASSUME LoginFacts, SignOutInv, Quiet, NEW l \in Logins, NEW rev \in Revisions, Found(l, rev),
           Effects,
           rev # 0 => mem'[l].rev = rev,
           rev = 0 => born'[l] = "born" /\ mem'[l] = None /\ (row'[l] = NoRow \/ l \in over')
    PROVE  SignOutInv'
  <1>1. restore'[l] = NoRestore /\ \A s \in signedOut : Kept(s)'
    BY FoundFields, StaysLeft
  <1>2. \A s \in signedOut' : Kept(s)'
    <2>1. rev = 0 => Away(l)'
      BY <1>1 DEF Away, Live, NoRestore
    <2>2. /\ signedOut' \subseteq signedOut \cup {Seen(l)}
          /\ rev # 0 => signedOut' = signedOut
      BY DEF Found
    <2> QED
      BY <1>1, <2>1, <2>2, OneMoreKept
  <1>3. ASSUME NEW t \in Tasks
        PROVE  task'[t].at # "retry" /\ Finds(task[t])'
    <2>1. task[t] \in Requests /\ load.revs \in Nat /\ ~Resumed(task[t])
      BY TaskFacts DEF Quiet, Resumed
    <2>2. CASE task'[t] = task[t]
      BY <2>1, <2>2 DEF Resumed, Finds
    <2>3. CASE \E r \in {"none", "ok", "error"} : task'[t] = Done(task[t], r)
      BY <2>1, <2>3, DoneTurns DEF Resumed, Finds
    <2>4. CASE /\ rev # 0 /\ task[t].login = l
               /\ task'[t] = [task[t] EXCEPT !.at = "found", !.held = rev]
      <3>1. /\ task'[t].at = "found" /\ task'[t].held = rev /\ task'[t].login = l
            /\ task'[t].kind = task[t].kind
        BY <2>1, <2>4 DEF Requests
      <3> QED
        BY <2>1, <2>4, <3>1 DEF Finds
    <2> QED
      BY <2>2, <2>3, <2>4 DEF Found
  <1> QED
    BY <1>2, <1>3 DEF SignOutInv

LEMMA RestoreSigns ==
    ASSUME LoginFacts, SignOutInv, Quiet, NEW l \in Logins,
           RestoreGet(l) \/ RestoreUser(l) \/ RestoreMove(l) \/ RestoreFails(l)
    PROVE  SignOutInv'
  <1>0. /\ Effects /\ 0 \in Revisions /\ restore[l].rev \in Revisions
        /\ restore[l].at = "move" => restore[l].rev + 1 \in Revisions
    BY RestoreGetEffects, RestoreUserEffects, RestoreMoveEffects, RestoreFailsEffects,
       RestoreFacts DEF Revisions
  <1>1. ASSUME task' = task, signedOut' = signedOut
        PROVE  SignOutInv'
    BY <1>0, <1>1, StaysLeft, StepsOnKeeps DEF StepsOn
  <1>2. ASSUME NEW rev \in Revisions, rev # 0, Restored(l, rev)
        PROVE  SignOutInv'
    <2>1. Found(l, rev) /\ mem'[l].rev = rev
      BY <1>2 DEF Restored, LoginFacts, TypeOK
    <2> QED
      BY <1>0, <1>2, <2>1, FoundSigns
  <1>3. CASE RestoreGet(l)
    <2>1. /\ born'[l] = "born" /\ mem'[l] = None
          /\ row[l] = NoRow \/ l \in over => row'[l] = NoRow \/ l \in over'
      BY <1>3 DEF RestoreGet, store, LoginFacts, LoginPart, RestoreInv, UnbornInv, Live
    <2>2. CASE row[l] = NoRow \/ l \in over
      <3>1. Found(l, 0)
        BY <1>3, <2>2 DEF RestoreGet
      <3> QED
        BY <1>0, <2>1, <2>2, <3>1, FoundSigns
    <2>3. CASE ~(row[l] = NoRow \/ l \in over)
      BY <1>1, <1>3, <2>3 DEF RestoreGet
    <2> QED
      BY <2>2, <2>3
  <1>4. CASE RestoreUser(l)
    <2>1. ~Blocked(l) /\ restore[l].rev # 0
      BY <1>4, RestoreFacts DEF RestoreUser
    <2> QED
      BY <1>0, <1>1, <1>2, <1>4, <2>1 DEF RestoreUser
  <1>5. CASE RestoreMove(l)
    <2>1. ~Blocked(l) /\ restore[l].rev + 1 # 0
      BY <1>5, RestoreFacts DEF RestoreMove, Revisions
    <2> QED
      BY <1>0, <1>1, <1>2, <1>5, <2>1 DEF RestoreMove
  <1>6. CASE RestoreFails(l)
    <2>1. ASSUME NEW t \in Tasks
          PROVE  task'[t] = task[t] \/ task'[t].at # "found"
      <3>1. task'[t] = task[t] \/ task'[t] = Done(task[t], "error")
        BY <1>6 DEF RestoreFails
      <3> QED
        BY <3>1, TaskFacts, DoneTurns DEF Resumed
    <2>2. StepsOn /\ signedOut' = signedOut
      BY <1>6, <2>1 DEF StepsOn, RestoreFails
    <2> QED
      BY <1>0, <2>2, StaysLeft, StepsOnKeeps
  <1> QED
    BY <1>3, <1>4, <1>5, <1>6

LEMMA LoginSigns ==
    ASSUME LoginFacts, SignOutInv, Quiet, NEW l \in Logins, LoginStep(l) \/ DelegateStep(l)
    PROVE  SignOutInv'
  <1>1. ASSUME StepsOn, signedOut' = signedOut
        PROVE  SignOutInv'
    BY <1>1, LoginStepEffects, StaysLeft, StepsOnKeeps
  <1>2. CASE \/ IssueRow(l) \/ Issue(l) \/ Aged(l) \/ Expired(l) \/ RevokeDelete(l)
             \/ CleanPending(l) \/ CleanExpired(l) \/ CleanRows(l) \/ End(l)
    <2>1. task' = task /\ signedOut' = signedOut
      BY <1>2 DEF IssueRow, Issue, Aged, Expired, RevokeDelete, CleanPending, CleanExpired,
         CleanRows, End
    <2> QED
      BY <1>1, <2>1 DEF StepsOn
  <1>3. CASE RevokeFails(l)
    <2>1. StepsOn
      BY <1>3, AfterRevokeOn DEF RevokeFails
    <2>2. signedOut' = signedOut
      BY <1>3 DEF RevokeFails, AfterRevoke
    <2> QED
      BY <1>1, <2>1, <2>2
  <1>4. CASE RevokeDeleted(l)
    BY <1>4, DeletedSigns
  <1>5. CASE RestoreGet(l) \/ RestoreUser(l) \/ RestoreMove(l) \/ RestoreFails(l)
    BY <1>5, RestoreSigns
  <1>6. CASE \/ RefreshBefore(l) \/ RefreshSource(l) \/ RefreshGranted(l) \/ RefreshRefused(l)
             \/ RefreshFails(l) \/ RefreshCommit(l) \/ RefreshReply(l) \/ CommitFails(l)
             \/ RefreshOver(l)
    BY <1>1, <1>6, RefreshOn
  <1> QED
    BY <1>2, <1>3, <1>4, <1>5, <1>6 DEF LoginStep, DelegateStep

\* A process that starts finds no row of a login whose sign-out had seen it go, or whose
\* deletion the last process was not still to make.
LEMMA RestartSigns ==
    ASSUME LoginFacts, SignOutInv, Restart
    PROVE  SignOutInv'
  <1>1. /\ signedOut' = {Dropped(s) : s \in signedOut} /\ over' = over
        /\ signedOut \subseteq SignOuts
    BY DEF Restart, LoginFacts, TypeOK
  <1>2. ASSUME NEW l \in Logins, Away(l)
        PROVE  Away(l)'
    <2>1. /\ born[l] = "born" /\ (row[l] = NoRow \/ l \in over)
          /\ row[l] = NoRow => row[l].rev = 0
      BY <1>2 DEF Away, NoRow
    <2>2. PICK moved \in BOOLEAN :
              row' = [m \in Logins |->
                        IF m \in Delegated \cup over THEN NoRow
                        ELSE IF moved /\ row[m].rev \in 1 .. load.revs - 1
                             THEN [row[m] EXCEPT !.here = FALSE] ELSE row[m]]
      BY DEF Restart
    <2>3. row'[l] = NoRow
      BY <2>1, <2>2
    <2>4. born'[l] = "born" /\ mem'[l] = None /\ restore'[l] = NoRestore
      BY <2>1 DEF Restart
    <2> QED
      BY <2>3, <2>4 DEF Away, Live, NoRestore
  <1>3. ASSUME NEW s \in signedOut, NEW n, n = Dropped(s)
        PROVE  Kept(n)'
    <2>1. s \in SignOuts /\ s.login \in Logins /\ Kept(s)
      BY <1>1 DEF SignOutInv, SignOuts
    <2>2. CASE s.row = "assumed" /\ s.login \in pending
      <3>1. n.row = "dropped"
        BY <1>3, <2>1, <2>2 DEF Dropped, SignOuts
      <3> QED
        BY <3>1 DEF Kept
    <2>3. CASE ~(s.row = "assumed" /\ s.login \in pending)
      <3>1. n = s
        BY <1>3, <2>3 DEF Dropped
      <3>2. s.row \in {"seen", "assumed"} => Away(s.login)
        BY <2>1, <2>3 DEF Kept, Left, Owed
      <3>3. s.row \in {"seen", "assumed"} => Away(s.login)'
        BY <1>2, <2>1, <3>2
      <3> QED
        BY <3>1, <3>3 DEF Kept, Left
    <2> QED
      BY <2>2, <2>3
  <1>4. ASSUME NEW t \in Tasks
        PROVE  task'[t].at = "idle" /\ task'[t].kind = "none"
    BY DEF Restart, Idle
  <1>5. \A s \in signedOut' : Kept(s)'
    BY <1>1, <1>3
  <1> QED
    BY <1>4, <1>5 DEF SignOutInv, Finds

\* What the bindings do leaves the logins as they are.
LEMMA RestSigns ==
    ASSUME LoginFacts, SignOutInv, UNCHANGED <<store, mem, over, restore, pending, signedOut>>,
           task' = task \/ \E t \in Tasks : Quiet /\ Turned(t)
    PROVE  SignOutInv'
  <1>1. \A l \in Logins : Left(l) => Left(l)'
    BY DEF Left, Owed, Away, Live, store
  <1>2. \A s \in signedOut' : Kept(s)'
    BY DEF SignOutInv, Kept, Left, Owed, Away, Live, store
  <1>3. CASE task' = task
    BY <1>2, <1>3 DEF SignOutInv, Finds, Left, Owed, Away, Live, store
  <1>4. ASSUME NEW t \in Tasks, Turned(t)
        PROVE  SignOutInv'
    BY <1>1, <1>2, <1>4, TurnedKeeps
  <1> QED
    BY <1>3, <1>4

LEMMA BindSigns ==
    ASSUME LoginFacts, SignOutInv, Quiet, NEW t \in Tasks, BindStep(t)
    PROVE  SignOutInv'
  <1> DEFINE k == task[t]
  <1>1. k \in Requests /\ k.login \in Logins /\ load.revs \in Nat /\ mem[k.login].rev \in Revisions
    BY TaskFacts DEF LoginFacts, TypeOK, Credentials
  <1>2. UNCHANGED <<store, mem, over, restore, pending, signedOut>>
    BY DEF BindStep, Bind, BindUse, BindAdmitted, BindLatest, BindFinal, Answer, work
  <1>3. Turned(t)
    <2>1. ASSUME NEW a \in {"latest", "read"}, task' = [task EXCEPT ![t] = [k EXCEPT !.at = a]]
          PROVE  Turned(t)
      <3>1. [k EXCEPT !.at = a] \in Requests /\ [k EXCEPT !.at = a].at = a
            /\ [k EXCEPT !.at = a].kind = k.kind
        BY <1>1 DEF Requests
      <3> QED
        BY <2>1, <3>1 DEF Turned, Resumed
    <2>2. ASSUME NEW r \in {"none", "ok"}, task' = [task EXCEPT ![t] = Done(k, r)]
          PROVE  Turned(t)
      BY <1>1, <2>2, DoneTurns DEF Turned
    <2>3. CASE BindUse(t)
      <3> DEFINE q == [k EXCEPT !.at = "operation", !.try = 1, !.held = mem[k.login].rev]
      <3>1. q \in Requests /\ ~Resumed(q) /\ q.kind = k.kind
        BY <1>1 DEF Requests, Resumed
      <3>2. Answer(t, k, "none") \/ task' = [task EXCEPT ![t] = q]
        BY <2>3 DEF BindUse
      <3> HIDE DEF q
      <3> QED
        BY <2>2, <3>1, <3>2 DEF Turned, Answer
    <2>4. CASE BindAdmitted(t)
      BY <2>1, <2>2, <2>4 DEF BindAdmitted, Answer, LoginFacts, TypeOK
    <2>5. CASE BindLatest(t)
      BY <2>1, <2>2, <2>5 DEF BindLatest, LoginFacts, TypeOK
    <2>6. CASE BindFinal(t)
      BY <2>2, <2>6 DEF BindFinal
    <2>7. CASE Bind(t)
      <3> DEFINE q == [Idle(k.login) EXCEPT !.kind = "bind", !.at = "agent"]
      <3>1. q \in Requests /\ ~Resumed(q) /\ q.kind = "bind"
        BY <1>1, IdleFits DEF Requests, Resumed
      <3>2. task' = [task EXCEPT ![t] = q]
        BY <2>7 DEF Bind
      <3> HIDE DEF q
      <3> QED
        BY <3>1, <3>2 DEF Turned
    <2> QED
      BY <2>3, <2>4, <2>5, <2>6, <2>7 DEF BindStep
  <1> QED
    BY <1>2, <1>3, RestSigns

\* Every step of the server keeps what was signed out away.
LEMMA NextSigns ==
    ASSUME LoginFacts, OwnerFacts, SignOutInv, [OwnerNext]_bvars
    PROVE  SignOutInv'
  <1>1. CASE \E t \in Tasks : Resume(t) /\ Hooks
    BY <1>1, ResumeSigns
  <1>2. CASE Quiet /\ \E l \in Logins : (LoginStep(l) \/ DelegateStep(l)) /\ Hooks
    BY <1>2, LoginSigns
  <1>3. CASE Quiet /\ \E t \in load.tasks \ load.binders : Arrive(t) /\ Hooks
    <2>1. load.tasks \subseteq Tasks
      BY DEF LoginFacts, TypeOK, LoadRecords
    <2> QED
      BY <1>3, <2>1, ArriveSigns DEF Arrive
  <1>4. CASE Quiet /\ \E t \in Tasks : (Called(t) \/ Operated(t)) /\ Hooks
    BY <1>4, CalledSigns
  <1>5. CASE Quiet /\ \E t \in Tasks : BindRead(t)
    <2> SUFFICES ASSUME NEW t \in Tasks, BindRead(t)
                 PROVE  SignOutInv'
      BY <1>5
    <2>1. /\ task[t] \in Requests /\ load.revs \in Nat
          /\ \A s \in Tasks \ {t} : ~(task[s].at = "found" /\ task[s].kind = "out")
      BY <1>5, TaskFacts DEF Quiet
    <2>2. UNCHANGED <<store, age, over, restore, signedOut, load>>
      BY DEF BindRead
    <2>3. CASE Answer(t, task[t], "none")
      BY <1>5, <2>1, <2>2, <2>3, AnswerTurns, RestSigns DEF Answer
    <2>4. CASE Resolvable /\ Fresh(t, [task[t] EXCEPT !.login = owner])
      <3>1. owner \in Logins /\ Live(owner) /\ born[owner] = "born"
        BY <2>4 DEF Resolvable, Named, OwnerFacts, ClaimInv
      <3> DEFINE k == [task[t] EXCEPT !.login = owner]
      <3>2. k \in Requests /\ k.login = owner /\ k.kind = task[t].kind
        BY <2>1, <3>1 DEF Requests
      <3>3. Fresh(t, k)
        BY <2>4
      <3> HIDE DEF k
      <3>4. signedOut' = signedOut /\ signedOut' \subseteq SignOuts
        BY <2>2 DEF LoginFacts, TypeOK
      <3>5. Effects
        BY <2>2, <3>1, <3>2, <3>3, <3>4, FreshServed, ServedAlone
      <3> QED
        BY <2>1, <3>2, <3>3, <3>4, <3>5, StaysLeft, FreshTurns, TurnedKeeps
    <2> QED
      BY <2>3, <2>4 DEF BindRead
  <1>6. CASE Quiet /\ \E t \in Tasks : BindStep(t)
    BY <1>6, BindSigns
  <1>7. CASE \/ \E l \in Logins : Claim(l)
             \/ ResetLoad \/ ResetClear \/ ResetFails \/ ResetDone \/ AttachmentClears \/ RevokeAll
             \/ \E b \in bindings : Release(b)
             \/ UNCHANGED bvars
    <2>1. UNCHANGED <<store, mem, over, restore, pending, signedOut, task>>
      BY <1>7 DEF Claim, ResetLoad, ResetClear, ResetFails, ResetDone, AttachmentClears, RevokeAll,
         Release, vars, bvars, work, store
    <2> QED
      BY <2>1, RestSigns
  <1>8. CASE OwnerRestart
    BY <1>8, RestartSigns DEF OwnerRestart
  <1> QED
    BY <1>1, <1>2, <1>3, <1>4, <1>5, <1>6, <1>7, <1>8 DEF OwnerNext

(* However many requests sign a login out, and whatever they share: one    *)
(* that was answered after its own request saw the row go is final, since  *)
(* neither a lookup nor a refresh that was on its way brings the login     *)
(* back, nor the next process; one that was answered on the word of        *)
(* another's revocation leaves the login in nobody's hands, and blocked    *)
(* until its row is deleted, unless the process dies first                 *)
(* (auth/session.ts, revoke and #revokeExact).                             *)
THEOREM SignOutLasts == OwnerSpec => []SignedOutStaysOut
  <1>1. OwnerInit => SignOutInv
    BY DEF OwnerInit, Init, SignOutInv, Finds, Idle
  <1>2. IndInv /\ SignOutInv /\ [OwnerNext]_bvars => SignOutInv'
    BY SameFacts, NextSigns
  <1>3. IndInv /\ SignOutInv => SignedOutStaysOut
    <2> SUFFICES ASSUME IndInv, SignOutInv, NEW s \in signedOut
                 PROVE  \/ SignedOff(s.login)
                        \/ s.row = "assumed" /\ ~Live(s.login) /\ s.login \in pending
                        \/ s.row = "dropped"
      BY DEF SignedOutStaysOut
    <2>1. s.row \in {"seen", "assumed", "dropped"} /\ Kept(s)
      BY SameFacts DEF LoginFacts, TypeOK, SignOuts, SignOutInv
    <2> QED
      BY <2>1 DEF Kept, Left, Away, Owed, SignedOff
  <1> QED
    BY <1>1, <1>2, <1>3, Always, PTL DEF OwnerSpec
=============================================================================
