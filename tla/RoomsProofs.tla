---------------------------- MODULE RoomsProofs ----------------------------
(***************************************************************************)
(* The rooms of a document, for any sockets, tabs, numbers of rooms and    *)
(* loads.  What an action does to the queue of the document lock, to who   *)
(* has an open document and to the rooms' flags is one of a few forms; the *)
(* parts of the invariant are shown of these forms.                        *)
(***************************************************************************)
EXTENDS Rooms, FiniteSetTheorems, TLAPS

-----------------------------------------------------------------------------
(* Queues.                                                                 *)

LEMMA AppendFacts ==
    ASSUME NEW S, NEW q \in Seq(S), NEW t \in S
    PROVE  /\ Append(q, t) \in Seq(S) /\ Append(q, t) # <<>> /\ Len(Append(q, t)) = Len(q) + 1
           /\ \A i \in 1 .. Len(q) : Append(q, t)[i] = q[i]
           /\ Append(q, t)[Len(q) + 1] = t
  OBVIOUS

LEMMA TailFacts ==
    ASSUME NEW S, NEW q \in Seq(S), q # <<>>
    PROVE  /\ Tail(q) \in Seq(S) /\ Len(Tail(q)) = Len(q) - 1
           /\ \A i \in 1 .. Len(q) - 1 : Tail(q)[i] = q[i + 1]
  OBVIOUS

LEMMA RunFacts ==
    ASSUME NEW S, NEW q \in Seq(S), q # <<>>, NEW t \in S
    PROVE  /\ <<t>> \o Tail(q) \in Seq(S) /\ Len(<<t>> \o Tail(q)) = Len(q)
           /\ (<<t>> \o Tail(q))[1] = t
           /\ \A i \in 2 .. Len(q) : (<<t>> \o Tail(q))[i] = q[i]
  <1>1. Tail(q) \in Seq(S) /\ Len(Tail(q)) = Len(q) - 1 /\ Len(q) > 0
    BY TailFacts
  <1>2. \A i \in 1 .. Len(q) - 1 : Tail(q)[i] = q[i + 1]
    BY TailFacts
  <1> QED
    BY <1>1, <1>2

LEMMA LenFacts ==
    ASSUME NEW S, NEW q \in Seq(S)
    PROVE  Len(q) \in Nat /\ (q # <<>> <=> Len(q) > 0) /\ \A i \in 1 .. Len(q) : q[i] \in S
  OBVIOUS

-----------------------------------------------------------------------------
(* What a step keeps, and what it does to the queue.                       *)

MembersSame == \A r \in RoomIds : room'[r].members = room[r].members
PlanSame    == \A r \in RoomIds : room'[r].plan = room[r].plan
OpeningSame == \A r \in RoomIds : room'[r].opening = room[r].opening
ClosingSame == \A r \in RoomIds : room'[r].closing = room[r].closing
TimerSame   == \A r \in RoomIds : room'[r].timer = room[r].timer
HoldsSame   == \A r \in RoomIds : room'[r].holds = room[r].holds

\* A transition that waits for its task goes on waiting.
StillAwaited ==
    trans.kind \in Transitions /\ trans.at = "locked"
    => trans'.kind = trans.kind /\ trans'.at = "locked"

Runs     == lock # <<>> /\ lock[1].run
NoneRuns == ~Runs
HeadSame == /\ Runs' <=> Runs
            /\ Runs => lock'[1] = lock[1]

LEMMA RoomUnchanged ==
    ASSUME UNCHANGED room
    PROVE  /\ MembersSame /\ PlanSame /\ OpeningSame /\ ClosingSame /\ TimerSame /\ HoldsSame
  BY DEF MembersSame, PlanSame, OpeningSame, ClosingSame, TimerSame, HoldsSame

LEMMA RoomSet ==
    ASSUME TypeOK, NEW r \in RoomIds, NEW x \in RoomRecords, room' = [room EXCEPT ![r] = x]
    PROVE  /\ room' \in [RoomIds -> RoomRecords] /\ room'[r] = x
           /\ \A q \in RoomIds : q # r => room'[q] = room[q]
  BY DEF TypeOK

LEMMA RoomFields ==
    ASSUME NEW x \in RoomRecords
    PROVE  /\ x.members \in [Clients -> Sockets \cup {NoSocket}] /\ x.plan \in Nat
           /\ x.opening \in BOOLEAN /\ x.closing \in BOOLEAN
           /\ x.timer \in {"none", "armed", "dead"} /\ x.holds \in Nat
  BY Zenon DEF RoomRecords

LEMMA QueueSame ==
    ASSUME TypeOK, QueueInv, UNCHANGED lock, made' \in Nat, made' >= made, OpeningSame,
           \A r \in RoomIds : room[r].closing => room'[r].closing,
           StillAwaited
    PROVE  QueueInv'
  <1> Len(lock) \in Nat /\ made \in 0 .. MaxRooms /\ MaxRooms \in Nat /\ RoomIds = 1 .. MaxRooms
    BY LoadAssumption, LenFacts DEF TypeOK, RoomIds
  <1>1. \A i \in Indices : lock[i].kind \in {"open", "close"} => lock[i].room \in RoomIds
    BY DEF QueueInv, Indices
  <1>2. Indices' = Indices
    BY DEF Indices
  <1>3. \A i \in Indices : /\ lock'[i].run => i = 1
                           /\ lock'[i].kind \in {"open", "close"} => lock'[i].room \in 1 .. made'
                           /\ lock'[i].kind = "open" => room'[lock'[i].room].opening
                           /\ lock'[i].kind = "close" => room'[lock'[i].room].closing
    BY <1>1 DEF QueueInv, OpeningSame
  <1>4. \A i \in Indices : lock'[i].kind \in Transitions
                             => trans'.kind = lock'[i].kind /\ trans'.at = "locked"
    BY DEF QueueInv, StillAwaited
  <1>5. \A r \in RoomIds : room'[r].opening =>
          \E i \in Indices : lock'[i].kind = "open" /\ lock'[i].room = r
    BY DEF QueueInv, OpeningSame
  <1> QED
    BY <1>2, <1>3, <1>4, <1>5 DEF QueueInv

LEMMA QueueAppend ==
    ASSUME TypeOK, QueueInv, NEW t \in LockTasks, lock' = Append(lock, t), t.run = FALSE,
           made' \in Nat, made' >= made, StillAwaited,
           \A r \in RoomIds : room'[r].opening = (room[r].opening \/ (t.kind = "open" /\ t.room = r)),
           \A r \in RoomIds : room'[r].closing = (room[r].closing \/ (t.kind = "close" /\ t.room = r)),
           t.kind \in {"open", "close"} =>
               /\ t.room \in 1 .. made' /\ t.room \in RoomIds /\ ~room[t.room].closing
               /\ t.kind = "open" => ~room[t.room].opening,
           t.kind \in Transitions =>
               /\ ~(trans.kind \in Transitions /\ trans.at = "locked")
               /\ trans'.kind = t.kind /\ trans'.at = "locked"
    PROVE  QueueInv'
  <1> PICK n \in Nat : n = Len(lock)
    BY LenFacts DEF TypeOK
  <1>0. made \in 0 .. MaxRooms /\ MaxRooms \in Nat /\ RoomIds = 1 .. MaxRooms
    BY LoadAssumption DEF TypeOK, RoomIds
  <1>1. Indices = 1 .. n /\ Indices' = 1 .. n + 1
    BY AppendFacts DEF TypeOK, Indices
  <1>2. (\A i \in 1 .. n : lock'[i] = lock[i]) /\ lock'[n + 1] = t
    BY AppendFacts DEF TypeOK
  <1>3. \A i \in 1 .. n : lock[i].kind \in {"open", "close"} => lock[i].room \in RoomIds
    BY <1>0, <1>1 DEF QueueInv
  <1>4. ASSUME NEW i \in 1 .. n + 1
        PROVE  /\ lock'[i].run => i = 1
               /\ lock'[i].kind \in {"open", "close"} => lock'[i].room \in 1 .. made'
               /\ lock'[i].kind = "open" => room'[lock'[i].room].opening
               /\ lock'[i].kind = "close" => room'[lock'[i].room].closing
    <2>1. CASE i = n + 1
      BY <2>1, <1>2, <1>3
    <2>2. CASE i \in 1 .. n
      <3>1. lock'[i] = lock[i]
        BY <2>2, <1>2
      <3>2. /\ lock[i].run => i = 1
            /\ lock[i].kind \in {"open", "close"} => lock[i].room \in 1 .. made
            /\ lock[i].kind = "open" => room[lock[i].room].opening
            /\ lock[i].kind = "close" => room[lock[i].room].closing
        BY <2>2, <1>1 DEF QueueInv
      <3>3. lock[i].kind \in {"open", "close"} => lock[i].room \in RoomIds
        BY <2>2, <1>3
      <3>4. lock[i].kind \in {"open", "close"} => lock[i].room \in 1 .. made'
        BY <3>2, <1>0
      <3>5. lock[i].kind = "open" => room'[lock[i].room].opening
        BY <3>2, <3>3
      <3>6. lock[i].kind = "close" => room'[lock[i].room].closing
        BY <3>2, <3>3
      <3> QED
        BY <3>1, <3>2, <3>4, <3>5, <3>6
    <2> QED
      BY <2>1, <2>2
  <1>5. ASSUME NEW i \in 1 .. n + 1, lock'[i].kind \in Transitions
        PROVE  trans'.kind = lock'[i].kind /\ trans'.at = "locked"
    <2>1. CASE i = n + 1
      BY <2>1, <1>2, <1>5
    <2>2. CASE i \in 1 .. n
      BY <2>2, <1>2, <1>1, <1>5 DEF QueueInv, StillAwaited
    <2> QED
      BY <2>1, <2>2
  <1>6. ASSUME NEW i \in 1 .. n + 1, NEW j \in 1 .. n + 1, i < j
        PROVE  /\ /\ lock'[i].kind \in {"open", "close"} /\ lock'[j].kind \in {"open", "close"}
                  /\ lock'[i].room = lock'[j].room
                  => lock'[i].kind = "open" /\ lock'[j].kind = "close"
               /\ ~(lock'[i].kind \in Transitions /\ lock'[j].kind \in Transitions)
    <2>0. i \in 1 .. n /\ lock'[i] = lock[i]
      BY <1>6, <1>2
    <2>1. CASE j = n + 1
      <3>1. lock'[j] = t
        BY <2>1, <1>2
      <3>2. /\ lock[i].kind = "open" => room[lock[i].room].opening
            /\ lock[i].kind = "close" => room[lock[i].room].closing
            /\ lock[i].kind \in Transitions => trans.kind = lock[i].kind /\ trans.at = "locked"
        BY <2>0, <1>1 DEF QueueInv
      <3> QED
        BY <2>0, <3>1, <3>2
    <2>2. CASE j \in 1 .. n
      <3>1. lock'[j] = lock[j]
        BY <2>2, <1>2
      <3> QED
        BY <2>0, <2>2, <3>1, <1>6, <1>1 DEF QueueInv
    <2> QED
      BY <2>1, <2>2
  <1>7. ASSUME NEW r \in RoomIds, room'[r].opening
        PROVE  \E i \in 1 .. n + 1 : lock'[i].kind = "open" /\ lock'[i].room = r
    <2>1. CASE t.kind = "open" /\ t.room = r
      <3>1. n + 1 \in 1 .. n + 1
        OBVIOUS
      <3> QED
        BY <2>1, <3>1, <1>2
    <2>2. CASE room[r].opening
      <3>1. PICK i \in 1 .. n : lock[i].kind = "open" /\ lock[i].room = r
        BY <2>2, <1>1 DEF QueueInv
      <3>2. i \in 1 .. n + 1 /\ lock'[i] = lock[i]
        BY <1>2
      <3> QED
        BY <3>1, <3>2
    <2> QED
      BY <2>1, <2>2, <1>7
  <1> QED
    BY <1>1, <1>4, <1>5, <1>6, <1>7 DEF QueueInv

LEMMA QueuePop ==
    ASSUME TypeOK, QueueInv, lock # <<>>, lock' = Tail(lock), made' \in Nat, made' >= made,
           \A r \in RoomIds : room'[r].opening =
               (room[r].opening /\ ~(lock[1].kind = "open" /\ lock[1].room = r)),
           \A r \in RoomIds : room'[r].closing =
               (room[r].closing /\ ~(lock[1].kind = "close" /\ lock[1].room = r)),
           lock[1].kind \in Transitions \/ StillAwaited
    PROVE  QueueInv' /\ NoneRuns'
  <1> PICK n \in Nat : n = Len(lock)
    BY LenFacts DEF TypeOK
  <1>n. n > 0
    BY LenFacts DEF TypeOK
  <1>0. made \in 0 .. MaxRooms /\ MaxRooms \in Nat /\ RoomIds = 1 .. MaxRooms
    BY LoadAssumption DEF TypeOK, RoomIds
  <1>1. Indices = 1 .. n /\ Indices' = 1 .. n - 1
    BY TailFacts DEF TypeOK, Indices
  <1>2. \A i \in 1 .. n - 1 : lock'[i] = lock[i + 1] /\ i + 1 \in 1 .. n /\ 1 < i + 1
    BY TailFacts DEF TypeOK
  <1>a. 1 \in 1 .. n
    BY <1>n
  <1>3. \A i \in 1 .. n : lock[i].kind \in {"open", "close"} => lock[i].room \in RoomIds
    BY <1>0, <1>1 DEF QueueInv
  <1>4. ASSUME NEW i \in 1 .. n - 1
        PROVE  /\ ~lock'[i].run
               /\ lock'[i].kind \in {"open", "close"} => lock'[i].room \in 1 .. made'
               /\ lock'[i].kind = "open" => room'[lock'[i].room].opening
               /\ lock'[i].kind = "close" => room'[lock'[i].room].closing
               /\ lock'[i].kind \in Transitions => trans'.kind = lock'[i].kind /\ trans'.at = "locked"
    <2> PICK j \in 1 .. n : j = i + 1 /\ lock'[i] = lock[j] /\ 1 < j
      BY <1>2
    <2>1. /\ lock[j].run => j = 1
          /\ lock[j].kind \in {"open", "close"} => lock[j].room \in 1 .. made
          /\ lock[j].kind = "open" => room[lock[j].room].opening
          /\ lock[j].kind = "close" => room[lock[j].room].closing
          /\ lock[j].kind \in Transitions => trans.kind = lock[j].kind /\ trans.at = "locked"
      BY <1>1 DEF QueueInv
    <2>2. /\ /\ lock[1].kind \in {"open", "close"} /\ lock[j].kind \in {"open", "close"}
             /\ lock[1].room = lock[j].room
             => lock[1].kind = "open" /\ lock[j].kind = "close"
          /\ ~(lock[1].kind \in Transitions /\ lock[j].kind \in Transitions)
      BY <1>1, <1>a DEF QueueInv
    <2>3. lock[j].kind \in {"open", "close"} => lock[j].room \in RoomIds
      BY <1>3
    <2>4. lock'[i].kind = "open" => room'[lock'[i].room].opening
      BY <2>1, <2>2, <2>3
    <2>5. lock'[i].kind = "close" => room'[lock'[i].room].closing
      BY <2>1, <2>2, <2>3
    <2>6. lock'[i].kind \in Transitions => trans'.kind = lock'[i].kind /\ trans'.at = "locked"
      BY <2>1, <2>2 DEF StillAwaited
    <2> QED
      BY <2>1, <2>4, <2>5, <2>6, <1>0
  <1>5. ASSUME NEW i \in 1 .. n - 1, NEW j \in 1 .. n - 1, i < j
        PROVE  /\ /\ lock'[i].kind \in {"open", "close"} /\ lock'[j].kind \in {"open", "close"}
                  /\ lock'[i].room = lock'[j].room
                  => lock'[i].kind = "open" /\ lock'[j].kind = "close"
               /\ ~(lock'[i].kind \in Transitions /\ lock'[j].kind \in Transitions)
    <2> PICK k \in 1 .. n : k = i + 1 /\ lock'[i] = lock[k]
      BY <1>2
    <2> PICK l \in 1 .. n : l = j + 1 /\ lock'[j] = lock[l]
      BY <1>2
    <2>1. k < l
      BY <1>5
    <2> QED
      BY <2>1, <1>1 DEF QueueInv
  <1>6. ASSUME NEW r \in RoomIds, room'[r].opening
        PROVE  \E i \in 1 .. n - 1 : lock'[i].kind = "open" /\ lock'[i].room = r
    <2>1. PICK j \in 1 .. n : lock[j].kind = "open" /\ lock[j].room = r
      BY <1>6, <1>1 DEF QueueInv
    <2>2. j # 1
      BY <2>1, <1>6
    <2>3. PICK i \in 1 .. n - 1 : j = i + 1
      BY <2>2, <1>n
    <2> QED
      BY <2>1, <2>3, <1>2
  <1>7. NoneRuns'
    <2>1. CASE n = 1
      <3>a. lock \in Seq(LockTasks)
        BY DEF TypeOK
      <3>b. Tail(lock) \in Seq(LockTasks) /\ Len(Tail(lock)) = Len(lock) - 1
        BY <3>a, TailFacts
      <3>1. lock' \in Seq(LockTasks) /\ Len(lock') = 0
        BY <2>1, <3>b
      <3>2. lock' = <<>>
        BY <3>1, LenFacts
      <3> QED
        BY <3>2 DEF NoneRuns, Runs
    <2>2. CASE n > 1
      <3>1. 1 \in 1 .. n - 1
        BY <2>2
      <3> QED
        BY <3>1, <1>4 DEF NoneRuns, Runs
    <2> QED
      BY <2>1, <2>2, <1>n
  <1> QED
    BY <1>1, <1>4, <1>5, <1>6, <1>7 DEF QueueInv

LEMMA QueueRun ==
    ASSUME TypeOK, QueueInv, lock # <<>>, NEW p \in Nat, Run(p), made' = made,
           OpeningSame, ClosingSame, StillAwaited
    PROVE  QueueInv' /\ Runs' /\ lock'[1] = [lock[1] EXCEPT !.run = TRUE, !.plan = p]
  <1> PICK n \in Nat : n = Len(lock)
    BY LenFacts DEF TypeOK
  <1>n. n > 0 /\ 1 \in 1 .. n
    BY LenFacts DEF TypeOK
  <1> PICK t : t = [lock[1] EXCEPT !.run = TRUE, !.plan = p]
    OBVIOUS
  <1>t. lock[1] \in LockTasks
    BY <1>n, LenFacts DEF TypeOK
  <1>u. t \in LockTasks /\ t.run /\ t.kind = lock[1].kind /\ t.room = lock[1].room
    BY <1>t DEF LockTasks
  <1>l. lock' = <<t>> \o Tail(lock)
    BY DEF Run
  <1>0. made \in 0 .. MaxRooms /\ MaxRooms \in Nat /\ RoomIds = 1 .. MaxRooms
    BY LoadAssumption DEF TypeOK, RoomIds
  <1>1. /\ Indices = 1 .. n /\ Indices' = 1 .. n /\ lock'[1] = t
        /\ \A i \in 2 .. n : lock'[i] = lock[i]
    BY <1>l, <1>u, RunFacts DEF TypeOK, Indices
  <1>2. \A i \in 1 .. n : /\ lock'[i].kind = lock[i].kind /\ lock'[i].room = lock[i].room
                          /\ i # 1 => lock'[i] = lock[i]
    <2> TAKE i \in 1 .. n
    <2>1. i = 1 \/ i \in 2 .. n
      OBVIOUS
    <2> QED
      BY <2>1, <1>1, <1>u
  <1>3. \A i \in 1 .. n : lock[i].kind \in {"open", "close"} => lock[i].room \in RoomIds
    BY <1>0, <1>1 DEF QueueInv
  <1>4. \A i \in 1 .. n : /\ lock'[i].run => i = 1
                          /\ lock'[i].kind \in {"open", "close"} => lock'[i].room \in 1 .. made'
                          /\ lock'[i].kind = "open" => room'[lock'[i].room].opening
                          /\ lock'[i].kind = "close" => room'[lock'[i].room].closing
    <2> TAKE i \in 1 .. n
    <2>1. /\ lock[i].run => i = 1
          /\ lock[i].kind \in {"open", "close"} => lock[i].room \in 1 .. made
          /\ lock[i].kind = "open" => room[lock[i].room].opening
          /\ lock[i].kind = "close" => room[lock[i].room].closing
      BY <1>1 DEF QueueInv
    <2> QED
      BY <2>1, <1>2, <1>3 DEF OpeningSame, ClosingSame
  <1>5. \A i \in 1 .. n : lock'[i].kind \in Transitions
                            => trans'.kind = lock'[i].kind /\ trans'.at = "locked"
    BY <1>1, <1>2 DEF QueueInv, StillAwaited
  <1>6. \A i, j \in 1 .. n : i < j =>
               /\ /\ lock'[i].kind \in {"open", "close"} /\ lock'[j].kind \in {"open", "close"}
                  /\ lock'[i].room = lock'[j].room
                  => lock'[i].kind = "open" /\ lock'[j].kind = "close"
               /\ ~(lock'[i].kind \in Transitions /\ lock'[j].kind \in Transitions)
    BY <1>1, <1>2 DEF QueueInv
  <1>7. \A r \in RoomIds : room'[r].opening =>
            \E i \in 1 .. n : lock'[i].kind = "open" /\ lock'[i].room = r
    BY <1>1, <1>2 DEF QueueInv, OpeningSame
  <1>8. Runs'
    <2>1. lock' # <<>>
      BY <1>l, <1>u, RunFacts, LenFacts, <1>n DEF TypeOK
    <2> QED
      BY <2>1, <1>1, <1>u DEF Runs
  <1> QED
    BY <1>1, <1>4, <1>5, <1>6, <1>7, <1>8 DEF QueueInv

-----------------------------------------------------------------------------
(* Who has an open document.                                               *)

LEMMA HeadUnchanged == ASSUME UNCHANGED lock PROVE HeadSame
  BY DEF HeadSame, Runs

LEMMA HeadAppend ==
    ASSUME TypeOK, NEW t \in LockTasks, t.run = FALSE, lock' = Append(lock, t)
    PROVE  HeadSame
  <1>1. lock \in Seq(LockTasks)
    BY DEF TypeOK
  <1>2. /\ Append(lock, t) # <<>> /\ Len(lock) \in Nat
        /\ \A i \in 1 .. Len(lock) : Append(lock, t)[i] = lock[i]
        /\ Append(lock, t)[Len(lock) + 1] = t
        /\ lock # <<>> <=> Len(lock) > 0
    BY <1>1, AppendFacts, LenFacts
  <1>3. lock # <<>> => lock'[1] = lock[1]
    BY <1>2
  <1>4. lock = <<>> => lock'[1] = t
    BY <1>2
  <1> QED
    BY <1>2, <1>3, <1>4 DEF HeadSame, Runs

LEMMA CurrentPlanSame ==
    ASSUME TypeOK, UNCHANGED current, PlanSame
    PROVE  CurrentPlan' = CurrentPlan
  BY LoadAssumption DEF TypeOK, PlanSame, CurrentPlan, RoomIds

\* The room of the task of an opening or a closing exists.
LEMMA HeadRoom ==
    ASSUME TypeOK, QueueInv, lock # <<>>
    PROVE  /\ lock[1] \in LockTasks
           /\ lock[1].kind \in {"open", "close"} => lock[1].room \in 1 .. made /\ lock[1].room \in RoomIds
           /\ lock[1].kind = "open" => room[lock[1].room].opening
           /\ lock[1].kind = "close" => room[lock[1].room].closing /\ ~room[lock[1].room].opening
           /\ lock[1].kind \in Transitions => trans.kind = lock[1].kind /\ trans.at = "locked"
  <1>1. lock \in Seq(LockTasks) /\ made \in 0 .. MaxRooms /\ MaxRooms \in Nat /\ RoomIds = 1 .. MaxRooms
    BY LoadAssumption DEF TypeOK, RoomIds
  <1>2. Len(lock) \in Nat /\ 1 \in Indices /\ lock[1] \in LockTasks
    BY <1>1, LenFacts DEF Indices
  <1>3. /\ lock[1].kind \in {"open", "close"} => lock[1].room \in 1 .. made
        /\ lock[1].kind = "open" => room[lock[1].room].opening
        /\ lock[1].kind = "close" => room[lock[1].room].closing
        /\ lock[1].kind \in Transitions => trans.kind = lock[1].kind /\ trans.at = "locked"
    BY <1>2 DEF QueueInv
  <1>4. lock[1].kind \in {"open", "close"} => lock[1].room \in RoomIds
    BY <1>1, <1>3
  <1>5. ASSUME lock[1].kind = "close", room[lock[1].room].opening
        PROVE  FALSE
    <2>1. PICK i \in Indices : lock[i].kind = "open" /\ lock[i].room = lock[1].room
      BY <1>4, <1>5 DEF QueueInv
    <2>2. i # 1
      BY <1>5, <2>1
    <2>3. 1 < i
      BY <2>2, <1>2 DEF Indices
    <2> QED
      BY <2>1, <2>3, <1>2, <1>5 DEF QueueInv
  <1> QED
    BY <1>2, <1>3, <1>4, <1>5

LEMMA OwnersKept ==
    ASSUME TypeOK, QueueInv, PlanInv, HeadSame, UNCHANGED live, PlanSame,
           \A r \in RoomIds : room'[r].opening => room[r].opening \/ room[r].plan = 0,
           \A r \in RoomIds : room[r].closing => /\ room'[r].opening => room[r].opening
                                                 /\ room[r].holds = 0 => room'[r].holds = 0,
           current' = current \/ CurrentPlan' = 0
    PROVE  PlanInv'
  <1>1. \A p : Running(p)' <=> Running(p)
    BY DEF Running, HeadSame, Runs
  <1>2. \A r \in RoomIds :
          /\ room'[r].plan # 0 =>
                /\ room'[r].plan \in live' /\ ~Running(room[r].plan)'
                /\ \A q \in RoomIds \ {r} : room'[q].plan # room'[r].plan
          /\ room'[r].opening => room'[r].plan = 0
    BY <1>1 DEF PlanInv, PlanSame
  <1>3. \A p \in live' : Running(p)' \/ \E r \in RoomIds : room'[r].plan = p
    BY <1>1 DEF PlanInv, PlanSame
  <1>4. ASSUME Runs'
        PROVE  /\ lock'[1].plan # 0 =>
                    /\ lock'[1].plan \in live'
                    /\ (lock'[1].kind = "open" /\ lock'[1].room # current') \/ CurrentPlan' = 0
               /\ lock'[1].kind = "open" => lock'[1].plan # 0
               /\ lock'[1].kind = "close" =>
                    /\ room'[lock'[1].room].plan = 0 /\ ~room'[lock'[1].room].opening
                    /\ room'[lock'[1].room].holds = 0
               /\ lock'[1].kind = "delete" => CurrentPlan' = 0
               /\ lock'[1].kind = "archive" => lock'[1].plan = 0
    <2>1. Runs /\ lock'[1] = lock[1] /\ lock # <<>>
      BY <1>4 DEF HeadSame, Runs
    <2>2. /\ lock[1].plan # 0 =>
                    /\ lock[1].plan \in live
                    /\ (lock[1].kind = "open" /\ lock[1].room # current) \/ CurrentPlan = 0
          /\ lock[1].kind = "open" => lock[1].plan # 0
          /\ lock[1].kind = "close" =>
                    /\ room[lock[1].room].plan = 0 /\ ~room[lock[1].room].opening
                    /\ room[lock[1].room].holds = 0
          /\ lock[1].kind = "delete" => CurrentPlan = 0
          /\ lock[1].kind = "archive" => lock[1].plan = 0
      BY <2>1 DEF PlanInv, Runs
    <2>3. current' = current => CurrentPlan' = CurrentPlan
      BY CurrentPlanSame
    <2>4. /\ lock[1].kind = "close" => lock[1].room \in RoomIds /\ room[lock[1].room].closing
      BY <2>1, HeadRoom
    <2>5. lock[1].kind = "close" =>
                    /\ room'[lock[1].room].plan = 0 /\ ~room'[lock[1].room].opening
                    /\ room'[lock[1].room].holds = 0
      BY <2>2, <2>4 DEF PlanSame
    <2> QED
      BY <2>1, <2>2, <2>3, <2>5
  <1> QED
    BY <1>2, <1>3, <1>4 DEF PlanInv, Runs

\* A task that ran ends: its document is closed.
LEMMA OwnersPopped ==
    ASSUME TypeOK, PlanInv, Runs, NoneRuns', live' = live \ {lock[1].plan}, PlanSame,
           \A r \in RoomIds : room'[r].opening => room[r].opening
    PROVE  PlanInv'
  <1>1. \A p : ~Running(p)'
    BY DEF Running, NoneRuns, Runs
  <1>2. \A r \in RoomIds : room[r].plan # 0 => room[r].plan # lock[1].plan
    BY DEF PlanInv, Running, Runs
  <1>3. \A r \in RoomIds :
          /\ room'[r].plan # 0 =>
                /\ room'[r].plan \in live' /\ ~Running(room[r].plan)'
                /\ \A q \in RoomIds \ {r} : room'[q].plan # room'[r].plan
          /\ room'[r].opening => room'[r].plan = 0
    BY <1>1, <1>2 DEF PlanInv, PlanSame
  <1>4. \A p \in live' : Running(p)' \/ \E r \in RoomIds : room'[r].plan = p
    BY DEF PlanInv, PlanSame, Running
  <1> QED
    BY <1>3, <1>4 DEF PlanInv, NoneRuns, Runs

\* The opening ends: its document is the room's.
LEMMA OwnersAttached ==
    ASSUME TypeOK, QueueInv, PlanInv, Runs, lock[1].kind = "open", NoneRuns', UNCHANGED live,
           room'[lock[1].room].plan = lock[1].plan, ~room'[lock[1].room].opening,
           \A r \in RoomIds \ {lock[1].room} : room'[r].plan = room[r].plan
                                               /\ (room'[r].opening => room[r].opening)
    PROVE  PlanInv'
  <1>1. \A p : ~Running(p)'
    BY DEF Running, NoneRuns, Runs
  <1>2. lock[1].room \in RoomIds /\ room[lock[1].room].opening
    BY HeadRoom DEF Runs
  <1>3. /\ lock[1].plan # 0 /\ lock[1].plan \in live /\ Running(lock[1].plan)
        /\ room[lock[1].room].plan = 0
    BY <1>2 DEF PlanInv, Runs, Running
  <1>4. \A r \in RoomIds : room[r].plan # lock[1].plan
    BY <1>3 DEF PlanInv
  <1>5. \A r \in RoomIds :
          /\ room'[r].plan # 0 =>
                /\ room'[r].plan \in live'
                /\ \A q \in RoomIds \ {r} : room'[q].plan # room'[r].plan
          /\ room'[r].opening => room'[r].plan = 0
    <2> TAKE r \in RoomIds
    <2>1. CASE r = lock[1].room
      BY <2>1, <1>3, <1>4
    <2>2. CASE r # lock[1].room
      BY <2>2, <1>2, <1>3, <1>4 DEF PlanInv
    <2> QED
      BY <2>1, <2>2
  <1>6. ASSUME NEW p \in live' PROVE \E r \in RoomIds : room'[r].plan = p
    <2>1. Running(p) \/ \E r \in RoomIds : room[r].plan = p
      BY DEF PlanInv
    <2>2. CASE Running(p)
      BY <2>2, <1>2 DEF Running
    <2>3. CASE ~Running(p)
      <3>1. PICK r \in RoomIds : room[r].plan = p
        BY <2>1, <2>3
      <3>2. p # 0
        BY DEF TypeOK
      <3>3. r # lock[1].room
        BY <3>1, <3>2, <1>3
      <3> QED
        BY <3>1, <3>3
    <2> QED
      BY <2>2, <2>3
  <1> QED
    BY <1>1, <1>5, <1>6 DEF PlanInv, NoneRuns, Runs

\* A task takes the document p, or none, from the room that has it.
LEMMA OwnersTaken ==
    ASSUME TypeOK, PlanInv, NoneRuns, Runs', NEW p \in live \cup {0}, lock'[1].plan = p, UNCHANGED live,
           \A r \in RoomIds : /\ room'[r].plan = IF room[r].plan = p THEN 0 ELSE room[r].plan
                              /\ room'[r].opening = room[r].opening,
           p # 0 => CurrentPlan' = 0,
           lock'[1].kind # "open",
           lock'[1].kind = "close" => /\ room'[lock'[1].room].plan = 0
                                      /\ ~room'[lock'[1].room].opening
                                      /\ room'[lock'[1].room].holds = 0,
           lock'[1].kind = "delete" => CurrentPlan' = 0,
           lock'[1].kind = "archive" => p = 0
    PROVE  PlanInv'
  <1>1. \A q : Running(q)' <=> q = p
    BY DEF Running, Runs
  <1>2. \A q : ~Running(q)
    BY DEF Running, Runs, NoneRuns
  <1>3. \A r \in RoomIds :
          /\ room'[r].plan # 0 =>
                /\ room'[r].plan \in live' /\ ~Running(room[r].plan)'
                /\ \A q \in RoomIds \ {r} : room'[q].plan # room'[r].plan
          /\ room'[r].opening => room'[r].plan = 0
    BY <1>1 DEF PlanInv
  <1>4. ASSUME NEW q \in live', q # p PROVE \E r \in RoomIds : room'[r].plan = q
    <2>1. PICK r \in RoomIds : room[r].plan = q
      BY <1>2 DEF PlanInv
    <2> QED
      BY <2>1, <1>4
  <1> QED
    BY <1>1, <1>3, <1>4 DEF PlanInv, Runs

\* A task opens a document of its own.
LEMMA OwnersOpened ==
    ASSUME TypeOK, PlanInv, NoneRuns, Runs', lock'[1].plan = opened + 1,
           live' = live \cup {opened + 1}, PlanSame, OpeningSame,
           (lock'[1].kind = "open" /\ lock'[1].room # current') \/ CurrentPlan' = 0,
           lock'[1].kind \notin {"close", "delete", "archive"}
    PROVE  PlanInv'
  <1>0. /\ opened + 1 # 0 /\ opened + 1 \notin live /\ opened + 1 \in live'
    BY DEF TypeOK
  <1>1. \A q : Running(q)' <=> q = opened + 1
    BY DEF Running, Runs
  <1>2. \A q : ~Running(q)
    BY DEF Running, Runs, NoneRuns
  <1>3. \A r \in RoomIds :
          /\ room'[r].plan # 0 =>
                /\ room'[r].plan \in live' /\ ~Running(room[r].plan)'
                /\ \A q \in RoomIds \ {r} : room'[q].plan # room'[r].plan
          /\ room'[r].opening => room'[r].plan = 0
    BY <1>0, <1>1 DEF PlanInv, PlanSame, OpeningSame
  <1>4. ASSUME NEW q \in live', q # opened + 1 PROVE \E r \in RoomIds : room'[r].plan = q
    BY <1>2, <1>4 DEF PlanInv, PlanSame
  <1> QED
    BY <1>0, <1>1, <1>3, <1>4 DEF PlanInv, Runs

-----------------------------------------------------------------------------
(* Rooms, holds, transitions and members.                                  *)

Stale == \A r \in RoomIds : StaleInv(r)
Held  == \A r \in RoomIds : HoldInv(r)

\* Whoever was greeted with a document and is still there has it.
Given ==
    \A s \in Sockets :
        /\ current # 0 /\ sock[s] = "in" /\ room[current].members[ClientOf[s]] = s
        /\ shown[s] # 0 /\ shown[s] \notin taken.plans
        => room[current].plan = shown[s]

LEMMA MembersEmpty ==
    ASSUME NEW x, NEW y, x.members = y.members
    PROVE  Members(x) = Members(y)
  BY DEF Members

LEMMA RoomsBound ==
    ASSUME TypeOK
    PROVE  /\ MaxRooms \in Nat /\ RoomIds = 1 .. MaxRooms /\ made \in 0 .. MaxRooms
           /\ current \in 0 .. made /\ current \in 0 .. MaxRooms /\ (current # 0 => current \in RoomIds)
           /\ 1 .. made \subseteq RoomIds
  BY LoadAssumption DEF TypeOK, RoomIds

LEMMA EmptyFields ==
    /\ Empty.plan = 0 /\ ~Empty.opening /\ ~Empty.closing /\ Empty.timer = "none" /\ Empty.holds = 0
    /\ Members(Empty) = {} /\ Empty \in RoomRecords
    /\ \A c \in Clients : Empty.members[c] = NoSocket
  BY DEF Empty, Members, RoomRecords

\* The room of the map is the same; only it may be armed or joined.
LEMMA StaleKept ==
    ASSUME TypeOK, Stale, UNCHANGED <<made, current>>, taken'.rooms = taken.rooms,
           \A r \in RoomIds : r = current \/ room'[r] = room[r]
    PROVE  Stale'
  <1> SUFFICES ASSUME NEW r \in RoomIds PROVE StaleInv(r)'
    BY DEF Stale
  <1>1. StaleInv(r)
    BY DEF Stale
  <1>2. r # current => Members(room'[r]) = Members(room[r])
    BY MembersEmpty
  <1>3. current <= made /\ current \in Int /\ made \in Int /\ r \in Int
    BY RoomsBound
  <1> QED
    BY <1>1, <1>2, <1>3 DEF StaleInv

\* A task changes its own room.
LEMMA StaleTask ==
    ASSUME TypeOK, Stale, UNCHANGED <<made, current, taken>>, NEW q \in 1 .. made,
           \A r \in RoomIds : r # q => room'[r] = room[r],
           q # current =>
               /\ room'[q].holds = room[q].holds /\ room'[q].timer = room[q].timer
               /\ room'[q].members = room[q].members
               /\ room'[q].closing => room[q].closing /\ room'[q].plan = 0
    PROVE  Stale'
  <1> SUFFICES ASSUME NEW r \in RoomIds PROVE StaleInv(r)'
    BY DEF Stale
  <1>1. StaleInv(r)
    BY DEF Stale
  <1>2. r # current => Members(room'[r]) = Members(room[r])
    BY MembersEmpty
  <1>3. current <= made /\ current \in Int /\ made \in Int /\ r \in Int
    BY RoomsBound
  <1>4. CASE r # q
    BY <1>1, <1>2, <1>3, <1>4 DEF StaleInv
  <1>5. CASE r = q
    BY <1>1, <1>2, <1>3, <1>5 DEF StaleInv
  <1> QED
    BY <1>4, <1>5

\* Rooms.open: the room of the map, or a new one that becomes it.
LEMMA OpenedFacts ==
    ASSUME TypeOK, Stale, Opened \in RoomIds
    PROVE  /\ Opened \in Nat /\ Opened > 0 /\ Opened \notin taken.rooms
           /\ current = 0 => Opened = made + 1 /\ room[Opened] = Empty
           /\ current # 0 => Opened = current
  <1>1. made \in Nat /\ current \in Nat /\ RoomIds = 1 .. MaxRooms /\ MaxRooms \in Nat
    BY RoomsBound
  <1>2. StaleInv(Opened)
    BY DEF Stale
  <1>3. current = 0 => Opened = made + 1
    BY DEF Opened
  <1>4. current # 0 => Opened = current
    BY DEF Opened
  <1> QED
    BY <1>1, <1>2, <1>3, <1>4 DEF StaleInv

LEMMA StaleOpened ==
    ASSUME TypeOK, Stale, UNCHANGED taken, Opened \in RoomIds,
           made' = (IF current = 0 THEN made + 1 ELSE made), current' = Opened,
           \A r \in RoomIds : r # Opened => room'[r] = room[r]
    PROVE  Stale' /\ made' \in Nat /\ made' >= made /\ Opened \in 1 .. made'
  <1>1. made \in Nat /\ current \in 0 .. made
    BY RoomsBound
  <1>2. Opened \notin taken.rooms /\ (current = 0 => Opened = made + 1) /\ (current # 0 => Opened = current)
    BY OpenedFacts
  <1>3. made' \in Nat /\ made' >= made /\ Opened \in 1 .. made'
    BY <1>1, <1>2
  <1>4. ASSUME NEW r \in RoomIds PROVE StaleInv(r)'
    <2>1. StaleInv(r) /\ r \in Nat /\ r > 0
      BY RoomsBound DEF Stale
    <2>2. CASE r = Opened
      BY <2>2, <1>2, <1>3 DEF StaleInv
    <2>3. CASE r # Opened
      <3>1. room'[r] = room[r] /\ r # current
        BY <2>3, <1>2, <2>1
      <3>2. Members(room'[r]) = Members(room[r])
        BY <3>1
      <3> QED
        BY <2>1, <2>3, <3>1, <3>2, <1>1, <1>2, <1>3 DEF StaleInv
    <2> QED
      BY <2>2, <2>3
  <1> QED
    BY <1>3, <1>4 DEF Stale

\* Work that holds its room.
Holding(r) == /\ trans.kind = "work" /\ trans.room = r
              /\ trans.at \in {"opening", "opened", "locked", "release"}

LEMMA HeldKept ==
    ASSUME Held, \A r \in RoomIds : Holding(r)' <=> Holding(r), HoldsSame,
           \A r \in RoomIds : room[r].holds > 0 /\ room'[r].closing => room[r].closing
    PROVE  Held'
  <1> SUFFICES ASSUME NEW r \in RoomIds PROVE HoldInv(r)'
    BY DEF Held
  <1>1. HoldInv(r) /\ room'[r].holds = room[r].holds
    BY DEF Held, HoldsSame
  <1>2. Holding(r)' <=> Holding(r)
    OBVIOUS
  <1>3. room[r].holds = IF Holding(r) THEN 1 ELSE 0
    BY <1>1 DEF HoldInv, Holding
  <1>4. room'[r].holds = IF Holding(r)' THEN 1 ELSE 0
    BY <1>1, <1>2, <1>3
  <1>5. room'[r].holds > 0 => ~room'[r].closing
    BY <1>1 DEF HoldInv
  <1> QED
    BY <1>4, <1>5 DEF HoldInv, Holding

LEMMA HeldSame ==
    ASSUME Held, UNCHANGED trans, HoldsSame,
           \A r \in RoomIds : room[r].holds > 0 /\ room'[r].closing => room[r].closing
    PROVE  Held'
  <1>1. \A r \in RoomIds : Holding(r)' <=> Holding(r)
    BY DEF Holding
  <1> QED
    BY <1>1, HeldKept

LEMMA TransKept ==
    ASSUME TypeOK, TransInv, UNCHANGED <<trans, deleting>>, taken'.rooms = taken.rooms, made' \in Nat, made' >= made,
           trans.kind = "work" => current' = current \/ (current' = 0 /\ trans.at = "closing"),
           trans.kind = "work" /\ trans.at \in {"opened", "locked"}
               => room'[current].plan = room[current].plan,
           trans.kind = "delete" /\ trans.room \notin {0, current'}
               => room'[trans.room].plan = 0 /\ ~room'[trans.room].opening
    PROVE  TransInv'
  <1>1. made \in Nat
    BY RoomsBound
  <1>2. trans.kind = "none" => trans = NoTrans
    BY DEF TransInv
  <1>3. trans.kind = "work" =>
          /\ trans.at \in {"closing", "opening", "opened", "locked", "release"}
          /\ trans.room \in 1 .. made'
          /\ trans.at # "closing" => trans.room = current'
          /\ trans.at = "closing" => trans.room = current' \/ current' = 0
          /\ trans.at \in {"opened", "locked"} => trans.plan # 0 /\ trans.plan = room'[current'].plan
    BY <1>1 DEF TransInv
  <1>4. trans.kind = "reopen" =>
          /\ trans.at \in {"closing", "opening", "opened", "release"}
          /\ trans.room \in 1 .. made'
    BY <1>1 DEF TransInv
  <1>5. trans.kind = "delete" => trans.room \in 0 .. made'
    BY <1>1 DEF TransInv
  <1>6. /\ trans.kind \in {"archive", "restore", "delete"} => trans.at \in {"suspend", "locked"}
        /\ trans.at = "closing" => trans.room \notin taken.rooms
        /\ deleting = (trans.kind = "delete")
    BY DEF TransInv
  <1> QED
    BY <1>2, <1>3, <1>4, <1>5, <1>6 DEF TransInv, NoTrans

LEMMA MemberKept ==
    ASSUME TypeOK, MemberInv, UNCHANGED sock, MembersSame, made' \in Nat, made' >= made,
           taken.rooms \subseteq taken'.rooms,
           \A s \in Sockets : sock[s] = "new" => shown'[s] = shown[s],
           \A s \in Sockets : ask'[s] = ask[s] \/ ask'[s].at \in {"none", "done"}
                              \/ ask'[s].room \in 1 .. made'
    PROVE  MemberInv'
  <1>1. made \in Nat
    BY RoomsBound
  <1>2. ASSUME NEW r \in RoomIds, NEW c \in Clients, room'[r].members[c] # NoSocket
        PROVE  /\ ClientOf[room'[r].members[c]] = c /\ sock'[room'[r].members[c]] # "new"
               /\ sock'[room'[r].members[c]] = "in" \/ r \in taken'.rooms
    BY <1>2 DEF MemberInv, MembersSame
  <1>3. ASSUME NEW s \in Sockets
        PROVE  /\ sock'[s] = "new" => shown'[s] = 0
               /\ ask'[s].at \in {"closing", "opening", "opened"} => ask'[s].room \in 1 .. made'
    BY <1>1 DEF MemberInv
  <1> QED
    BY <1>2, <1>3 DEF MemberInv

LEMMA GivenKept ==
    ASSUME TypeOK, Given, UNCHANGED <<sock, shown>>, MembersSame,
           taken.plans \subseteq taken'.plans, current' = current \/ current' = 0,
           \A r \in RoomIds : \/ room'[r].plan = room[r].plan \/ room[r].plan = 0
                              \/ room[r].plan \in taken'.plans \/ Members(room[r]) = {}
    PROVE  Given'
  <1> SUFFICES ASSUME NEW s \in Sockets, current' # 0, sock'[s] = "in",
                      room'[current'].members[ClientOf[s]] = s,
                      shown'[s] # 0, shown'[s] \notin taken'.plans
               PROVE  room'[current'].plan = shown'[s]
    BY DEF Given
  <1>1. current' = current /\ current \in RoomIds
    BY RoomsBound
  <1>2. room[current].members[ClientOf[s]] = s
    BY <1>1 DEF MembersSame
  <1>3. room[current].plan = shown[s]
    BY <1>1, <1>2 DEF Given
  <1>4. ClientOf[s] \in Members(room[current])
    BY <1>2, SocketAssumption DEF Members
  <1> QED
    BY <1>1, <1>3, <1>4

-----------------------------------------------------------------------------
(* Steps that leave the rooms alone.                                       *)

Ind == TypeOK /\ QueueInv /\ PlanInv /\ TransInv /\ MemberInv /\ Stale /\ Held /\ Given

LEMMA RoomsStill ==
    ASSUME Ind, UNCHANGED <<room, made, current, taken, sock, shown, ask>>
    PROVE  /\ MemberInv' /\ Stale' /\ Given' /\ CurrentPlan' = CurrentPlan
           /\ made' \in Nat /\ made' >= made
           /\ PlanSame /\ OpeningSame /\ ClosingSame /\ HoldsSame
  <1>1. /\ UNCHANGED room /\ UNCHANGED made /\ UNCHANGED current /\ UNCHANGED taken
        /\ UNCHANGED sock /\ UNCHANGED shown /\ UNCHANGED ask
    OBVIOUS
  <1>2. MembersSame /\ PlanSame /\ OpeningSame /\ ClosingSame /\ HoldsSame
    BY <1>1, RoomUnchanged
  <1>3. made' \in Nat /\ made' >= made
    BY <1>1, RoomsBound DEF Ind
  <1>4. MemberInv'
    BY <1>1, <1>2, <1>3, MemberKept DEF Ind
  <1>5. Stale'
    BY <1>1, StaleKept DEF Ind
  <1>6. Given'
    BY <1>1, <1>2, GivenKept DEF Ind, PlanSame
  <1>7. CurrentPlan' = CurrentPlan
    BY <1>1, <1>2, CurrentPlanSame DEF Ind
  <1> QED
    BY <1>2, <1>3, <1>4, <1>5, <1>6, <1>7

LEMMA TransStill ==
    ASSUME Ind, UNCHANGED <<room, made, current, taken, sock, shown, ask, trans, deleting>>
    PROVE  TransInv' /\ Held' /\ StillAwaited
  <1>1. /\ UNCHANGED room /\ UNCHANGED made /\ UNCHANGED current /\ UNCHANGED taken
        /\ UNCHANGED trans /\ UNCHANGED deleting
    OBVIOUS
  <1>2. PlanSame /\ OpeningSame /\ ClosingSame /\ HoldsSame
    BY <1>1, RoomUnchanged
  <1>3. made' \in Nat /\ made' >= made
    BY <1>1, RoomsBound DEF Ind
  <1>4. trans.kind = "delete" /\ trans.room \notin {0, current}
               => room[trans.room].plan = 0 /\ ~room[trans.room].opening
    BY DEF Ind, TransInv
  <1>5. TransInv'
    BY <1>1, <1>3, <1>4, TransKept DEF Ind
  <1>6. Held'
    BY <1>1, <1>2, HeldSame DEF Ind
  <1> QED
    BY <1>1, <1>5, <1>6 DEF StillAwaited

\* Turns begin and end.
LEMMA TurnSteps ==
    ASSUME Ind, UNCHANGED <<map, lock, plans, people, chan>>, TypeOK'
    PROVE  Ind'
  <1>1. /\ UNCHANGED room /\ UNCHANGED made /\ UNCHANGED current /\ UNCHANGED taken
        /\ UNCHANGED sock /\ UNCHANGED shown /\ UNCHANGED ask /\ UNCHANGED trans
        /\ UNCHANGED deleting /\ UNCHANGED lock /\ UNCHANGED live
    BY DEF map, plans, people, chan
  <1>2. /\ MemberInv' /\ Stale' /\ Given' /\ made' \in Nat /\ made' >= made
        /\ PlanSame /\ OpeningSame /\ ClosingSame /\ HoldsSame
    BY <1>1, RoomsStill
  <1>3. TransInv' /\ Held' /\ StillAwaited
    BY <1>1, TransStill
  <1>4. QueueInv'
    BY <1>1, <1>2, <1>3, QueueSame DEF Ind, ClosingSame
  <1>5. PlanInv'
    BY <1>1, <1>2, HeadUnchanged, OwnersKept DEF Ind, OpeningSame, HoldsSame
  <1> QED
    BY <1>2, <1>3, <1>4, <1>5 DEF Ind

\* A task of nobody's room is queued, and one that has nothing to close is done.
LEMMA PlainQueued ==
    ASSUME Ind, NEW kind \in {"detached", "tool"}, lock' = Append(lock, Task(kind, 0)),
           UNCHANGED <<map, plans, people, chan>>, TypeOK'
    PROVE  Ind'
  <1>1. /\ UNCHANGED room /\ UNCHANGED made /\ UNCHANGED current /\ UNCHANGED taken
        /\ UNCHANGED sock /\ UNCHANGED shown /\ UNCHANGED ask /\ UNCHANGED trans
        /\ UNCHANGED deleting /\ UNCHANGED live
    BY DEF map, plans, people, chan
  <1>2. /\ MemberInv' /\ Stale' /\ Given' /\ made' \in Nat /\ made' >= made
        /\ PlanSame /\ OpeningSame /\ ClosingSame /\ HoldsSame
    BY <1>1, RoomsStill
  <1>3. TransInv' /\ Held' /\ StillAwaited
    BY <1>1, TransStill
  <1>4. PICK t \in LockTasks : /\ lock' = Append(lock, t) /\ t.kind = kind /\ t.run = FALSE
                               /\ t.room = 0
    <2>1. Task(kind, 0) \in LockTasks
      BY RoomsBound DEF Ind, Task, LockTasks, Kinds
    <2> QED
      BY <2>1 DEF Task
  <1>5. kind \notin Transitions /\ kind \notin {"open", "close"}
    BY DEF Transitions
  <1>6. QueueInv'
    <2>1. \A r \in RoomIds : /\ room'[r].opening = (room[r].opening \/ (t.kind = "open" /\ t.room = r))
                             /\ room'[r].closing = (room[r].closing \/ (t.kind = "close" /\ t.room = r))
      BY <1>1, <1>4, <1>5, RoomFields DEF Ind, TypeOK
    <2> QED
      BY <1>1, <1>2, <1>3, <1>4, <1>5, <2>1, QueueAppend DEF Ind
  <1>7. HeadSame
    BY <1>4, HeadAppend DEF Ind
  <1>8. PlanInv'
    BY <1>1, <1>2, <1>7, OwnersKept DEF Ind, OpeningSame, HoldsSame
  <1> QED
    BY <1>2, <1>3, <1>6, <1>8 DEF Ind

LEMMA PlainDone ==
    ASSUME Ind, lock # <<>>, lock[1].kind \in {"detached", "tool"}, Done,
           UNCHANGED <<map, taken, people, chan>>, TypeOK',
           \/ ~lock[1].run /\ UNCHANGED live
           \/ lock[1].run /\ live' = live \ {lock[1].plan}
    PROVE  Ind'
  <1>1. /\ UNCHANGED room /\ UNCHANGED made /\ UNCHANGED current /\ UNCHANGED taken
        /\ UNCHANGED sock /\ UNCHANGED shown /\ UNCHANGED ask /\ UNCHANGED trans
        /\ UNCHANGED deleting
    BY DEF map, people, chan
  <1>2. /\ MemberInv' /\ Stale' /\ Given' /\ made' \in Nat /\ made' >= made
        /\ PlanSame /\ OpeningSame /\ ClosingSame /\ HoldsSame
    BY <1>1, RoomsStill
  <1>3. TransInv' /\ Held' /\ StillAwaited
    BY <1>1, TransStill
  <1>4. \A r \in RoomIds :
            /\ room'[r].opening = (room[r].opening /\ ~(lock[1].kind = "open" /\ lock[1].room = r))
            /\ room'[r].closing = (room[r].closing /\ ~(lock[1].kind = "close" /\ lock[1].room = r))
    BY <1>1, RoomFields DEF Ind, TypeOK
  <1>5. QueueInv' /\ NoneRuns'
    BY <1>2, <1>3, <1>4, QueuePop DEF Ind, Done
  <1>6. PlanInv'
    <2>1. CASE ~lock[1].run /\ UNCHANGED live
      <3>1. HeadSame
        BY <1>5, <2>1 DEF HeadSame, NoneRuns, Runs
      <3> QED
        BY <1>1, <1>2, <2>1, <3>1, OwnersKept DEF Ind, OpeningSame, HoldsSame
    <2>2. CASE lock[1].run /\ live' = live \ {lock[1].plan}
      BY <1>2, <1>5, <2>2, OwnersPopped DEF Ind, Runs, OpeningSame
    <2> QED
      BY <2>1, <2>2
  <1> QED
    BY <1>2, <1>3, <1>5, <1>6 DEF Ind

-----------------------------------------------------------------------------
(* Types of what the steps assign.                                         *)

LEMMA LoadSet ==
    ASSUME NEW l \in LoadRecords, NEW n \in Nat
    PROVE  /\ [l EXCEPT !.trans = n] \in LoadRecords /\ [l EXCEPT !.turns = n] \in LoadRecords
           /\ [l EXCEPT !.detached = n] \in LoadRecords
           /\ [l EXCEPT !.faults = n, !.failed = TRUE] \in LoadRecords
  BY DEF LoadRecords

LEMMA LoadFields ==
    ASSUME NEW l \in LoadRecords
    PROVE  l.trans \in Nat /\ l.turns \in Nat /\ l.detached \in Nat /\ l.faults \in Nat
  BY DEF LoadRecords

LEMMA SpendType ==
    ASSUME TypeOK, NEW b \in {"trans", "turns", "detached"}, Spend(b)
    PROVE  load' \in LoadRecords
  <1>0. load \in LoadRecords
    BY DEF TypeOK
  <1>1. CASE b = "trans"
    <2>a. load.trans \in Nat /\ load.trans > 0
      BY <1>0, <1>1, LoadFields DEF Spend
    <2>1. load.trans - 1 \in Nat
      BY <2>a
    <2> QED
      BY <1>0, <1>1, <2>1, LoadSet DEF Spend
  <1>2. CASE b = "turns"
    <2>a. load.turns \in Nat /\ load.turns > 0
      BY <1>0, <1>2, LoadFields DEF Spend
    <2>1. load.turns - 1 \in Nat
      BY <2>a
    <2> QED
      BY <1>0, <1>2, <2>1, LoadSet DEF Spend
  <1>3. CASE b = "detached"
    <2>a. load.detached \in Nat /\ load.detached > 0
      BY <1>0, <1>3, LoadFields DEF Spend
    <2>1. load.detached - 1 \in Nat
      BY <2>a
    <2> QED
      BY <1>0, <1>3, <2>1, LoadSet DEF Spend
  <1> QED
    BY <1>1, <1>2, <1>3

LEMMA FailureType ==
    ASSUME TypeOK, Failure
    PROVE  load' \in LoadRecords
  <1>1. load \in LoadRecords
    BY DEF TypeOK
  <1>a. load.faults \in Nat /\ load.faults > 0
    BY <1>1, LoadFields DEF Failure
  <1>2. load.faults - 1 \in Nat
    BY <1>a
  <1> QED
    BY <1>1, <1>2, LoadSet DEF Failure

LEMMA TaskType ==
    ASSUME NEW kind \in Kinds, NEW r \in 0 .. MaxRooms
    PROVE  Task(kind, r) \in LockTasks /\ Task(kind, r).run = FALSE
           /\ Task(kind, r).kind = kind /\ Task(kind, r).room = r
  BY DEF Task, LockTasks

LEMMA AppendType ==
    ASSUME TypeOK, NEW t \in LockTasks, lock' = Append(lock, t)
    PROVE  lock' \in Seq(LockTasks)
  BY AppendFacts DEF TypeOK

LEMMA DoneType ==
    ASSUME TypeOK, lock # <<>>, Done
    PROVE  lock' \in Seq(LockTasks)
  BY TailFacts DEF TypeOK, Done

LEMMA RunType ==
    ASSUME TypeOK, lock # <<>>, NEW p \in Nat, Run(p)
    PROVE  lock' \in Seq(LockTasks)
  <1>1. lock[1] \in LockTasks
    BY LenFacts DEF TypeOK
  <1>2. [lock[1] EXCEPT !.run = TRUE, !.plan = p] \in LockTasks
    BY <1>1 DEF LockTasks
  <1> QED
    BY <1>2, RunFacts DEF TypeOK, Run

LEMMA RunFields ==
    ASSUME TypeOK, lock # <<>>, NEW p \in Nat, lock'[1] = [lock[1] EXCEPT !.run = TRUE, !.plan = p]
    PROVE  lock'[1].kind = lock[1].kind /\ lock'[1].room = lock[1].room /\ lock'[1].plan = p
  <1>1. lock[1] \in LockTasks
    BY LenFacts DEF TypeOK
  <1> QED
    BY <1>1 DEF LockTasks

\* A transition that is over, or has none of the rooms' business.
LEMMA NoTransFields ==
    /\ NoTrans.kind = "none" /\ NoTrans.at = "none" /\ NoTrans.room = 0 /\ NoTrans.plan = 0
    /\ MaxRooms \in Nat => NoTrans \in Transits
  BY DEF NoTrans, Transits

LEMMA TransOver ==
    ASSUME trans' = NoTrans, deleting' = FALSE
    PROVE  TransInv' /\ \A r : ~Holding(r)'
  <1>1. trans'.kind = "none" /\ trans'.at = "none"
    BY NoTransFields
  <1>2. \A r : ~Holding(r)'
    BY <1>1 DEF Holding
  <1>3. TransInv'
    BY <1>1 DEF TransInv, NoTrans
  <1> QED
    BY <1>2, <1>3

-----------------------------------------------------------------------------
(* Turns, tools and detached work.                                         *)

LEMMA TurnStartKeeps == ASSUME Ind, TurnStart PROVE Ind'
  <1>1. UNCHANGED <<map, lock, plans, people, chan>>
    BY DEF TurnStart
  <1>2. load' \in LoadRecords
    BY SpendType DEF TurnStart, Ind
  <1>3. turn' \in Nat
    BY RoomsBound, RoomFields DEF Ind, TypeOK, TurnStart
  <1>4. TypeOK'
    BY <1>2, <1>3 DEF Ind, TypeOK, TurnStart, map, plans, people, chan
  <1> QED
    BY <1>1, <1>4, TurnSteps

LEMMA TurnEndKeeps == ASSUME Ind, TurnEnd PROVE Ind'
  <1>1. UNCHANGED <<map, lock, plans, people, chan>>
    BY DEF TurnEnd
  <1>2. TypeOK'
    BY DEF Ind, TypeOK, TurnEnd, map, plans, people, chan
  <1> QED
    BY <1>1, <1>2, TurnSteps

LEMMA StutterKeeps == ASSUME Ind, UNCHANGED vars PROVE Ind'
  <1>1. UNCHANGED <<map, lock, plans, people, chan>>
    BY DEF vars
  <1>2. TypeOK'
    BY DEF Ind, TypeOK, vars, map, plans, people, chan, chat
  <1> QED
    BY <1>1, <1>2, TurnSteps

LEMMA DetachKeeps == ASSUME Ind, Detach PROVE Ind'
  <1>1. UNCHANGED <<map, plans, people, chan>> /\ lock' = Append(lock, Task("detached", 0))
    BY DEF Detach
  <1>2. load' \in LoadRecords
    BY SpendType DEF Detach, Ind
  <1>3. Task("detached", 0) \in LockTasks
    <2>1. 0 \in 0 .. MaxRooms /\ "detached" \in Kinds
      BY RoomsBound DEF Ind, Kinds
    <2> QED
      BY <2>1, TaskType
  <1>4. lock' \in Seq(LockTasks)
    BY <1>1, <1>3, AppendType DEF Ind
  <1>5. TypeOK'
    BY <1>2, <1>4 DEF Ind, TypeOK, Detach, map, plans, people, chan, chat
  <1> QED
    BY <1>1, <1>5, PlainQueued

LEMMA ToolCallKeeps == ASSUME Ind, ToolCall PROVE Ind'
  <1>1. UNCHANGED <<map, plans, people, chan>> /\ lock' = Append(lock, Task("tool", 0))
    BY DEF ToolCall
  <1>2. Task("tool", 0) \in LockTasks
    <2>1. 0 \in 0 .. MaxRooms /\ "tool" \in Kinds
      BY RoomsBound DEF Ind, Kinds
    <2> QED
      BY <2>1, TaskType
  <1>3. lock' \in Seq(LockTasks)
    BY <1>1, <1>2, AppendType DEF Ind
  <1>4. TypeOK'
    BY <1>3 DEF Ind, TypeOK, ToolCall, map, plans, people, chan
  <1> QED
    BY <1>1, <1>4, PlainQueued

LEMMA ToolRunKeeps == ASSUME Ind, ToolRun PROVE Ind'
  <1>1. /\ UNCHANGED <<map, taken, people, chan>> /\ UNCHANGED live
        /\ lock # <<>> /\ lock[1].kind = "tool" /\ ~lock[1].run /\ Done
    BY DEF ToolRun, plans, Starts, First
  <1>2. lock' \in Seq(LockTasks)
    BY <1>1, DoneType DEF Ind
  <1>3. TypeOK'
    BY <1>2 DEF Ind, TypeOK, ToolRun, map, plans, people, chan
  <1> QED
    BY <1>1, <1>3, PlainDone

LEMMA DetachedEndKeeps == ASSUME Ind, DetachedEnd PROVE Ind'
  <1>1. /\ UNCHANGED <<map, taken, people, chan>> /\ live' = live \ {lock[1].plan}
        /\ lock # <<>> /\ lock[1].kind = "detached" /\ lock[1].run /\ Done
    BY DEF DetachedEnd, ClosePlan, Ends, First
  <1>2. lock' \in Seq(LockTasks)
    BY <1>1, DoneType DEF Ind
  <1>3. UNCHANGED opened /\ live' \subseteq live
    BY <1>1 DEF DetachedEnd, ClosePlan
  <1>4. TypeOK'
    BY <1>1, <1>2, <1>3 DEF Ind, TypeOK, DetachedEnd, map, people, chan, chat
  <1> QED
    BY <1>1, <1>4, PlainDone

\* A task that leaves the rooms alone starts and has a document of its own.
LEMMA DetachedOpens ==
    ASSUME Ind, Starts("detached"), CurrentPlan = 0, OpenPlan, Run(opened + 1),
           UNCHANGED <<map, people, chan, chat, load>>
    PROVE  Ind'
  <1>1. /\ UNCHANGED room /\ UNCHANGED made /\ UNCHANGED current /\ UNCHANGED taken
        /\ UNCHANGED sock /\ UNCHANGED shown /\ UNCHANGED ask /\ UNCHANGED trans
        /\ UNCHANGED deleting
    BY DEF map, people, chan, OpenPlan
  <1>2. /\ MemberInv' /\ Stale' /\ Given' /\ made' \in Nat /\ made' >= made
        /\ PlanSame /\ OpeningSame /\ ClosingSame /\ HoldsSame /\ CurrentPlan' = CurrentPlan
    BY <1>1, RoomsStill
  <1>3. TransInv' /\ Held' /\ StillAwaited
    BY <1>1, TransStill
  <1>4. lock # <<>> /\ lock[1].kind = "detached" /\ ~lock[1].run /\ opened + 1 \in Nat
    BY DEF Starts, First, Ind, TypeOK
  <1>5. QueueInv' /\ Runs' /\ lock'[1] = [lock[1] EXCEPT !.run = TRUE, !.plan = opened + 1]
    BY <1>1, <1>2, <1>3, <1>4, QueueRun DEF Ind
  <1>6. lock'[1].kind = "detached" /\ lock'[1].plan = opened + 1
    BY <1>4, <1>5, RunFields DEF Ind
  <1>7. PlanInv'
    BY <1>1, <1>2, <1>4, <1>5, <1>6, OwnersOpened DEF Ind, NoneRuns, Runs, OpenPlan
  <1>8. lock' \in Seq(LockTasks)
    BY <1>4, RunType DEF Ind
  <1>9. live' \subseteq 1 .. opened' /\ opened' \in Nat
    BY DEF Ind, TypeOK, OpenPlan
  <1>10. TypeOK'
    BY <1>1, <1>8, <1>9 DEF Ind, TypeOK, map, people, chan, chat
  <1> QED
    BY <1>2, <1>3, <1>5, <1>7, <1>10 DEF Ind

LEMMA DetachedStartKeeps == ASSUME Ind, DetachedStart PROVE Ind'
  <1>1. CASE CurrentPlan # 0 \/ row = "gone"
    <2>1. /\ UNCHANGED <<map, taken, people, chan>> /\ UNCHANGED live
          /\ lock # <<>> /\ lock[1].kind = "detached" /\ ~lock[1].run /\ Done
      BY <1>1 DEF DetachedStart, plans, Starts, First
    <2>2. lock' \in Seq(LockTasks)
      BY <2>1, DoneType DEF Ind
    <2>3. TypeOK'
      BY <1>1, <2>2 DEF Ind, TypeOK, DetachedStart, map, plans, people, chan, chat
    <2> QED
      BY <2>1, <2>3, PlainDone
  <1>2. CASE ~(CurrentPlan # 0 \/ row = "gone")
    BY <1>2, DetachedOpens DEF DetachedStart
  <1> QED
    BY <1>1, <1>2

-----------------------------------------------------------------------------
(* Transitions that leave the rooms alone.                                 *)

TransMoves ==
    /\ UNCHANGED <<map, plans, people>>
    /\ TypeOK' /\ TransInv' /\ \A r \in RoomIds : Holding(r)' <=> Holding(r)

LEMMA TransMovesRooms ==
    ASSUME Ind, TransMoves
    PROVE  /\ UNCHANGED live /\ UNCHANGED room /\ UNCHANGED made /\ UNCHANGED current
           /\ MemberInv' /\ Stale' /\ Given' /\ Held' /\ CurrentPlan' = CurrentPlan
           /\ made' \in Nat /\ made' >= made
           /\ PlanSame /\ OpeningSame /\ ClosingSame /\ HoldsSame
  <1>1. /\ UNCHANGED room /\ UNCHANGED made /\ UNCHANGED current /\ UNCHANGED taken
        /\ UNCHANGED sock /\ UNCHANGED shown /\ UNCHANGED ask /\ UNCHANGED live
    BY DEF TransMoves, map, plans, people
  <1>2. /\ MemberInv' /\ Stale' /\ Given' /\ CurrentPlan' = CurrentPlan
        /\ made' \in Nat /\ made' >= made
        /\ PlanSame /\ OpeningSame /\ ClosingSame /\ HoldsSame
    BY <1>1, RoomsStill
  <1>3. Held'
    BY <1>1, <1>2, HeldKept DEF Ind, TransMoves
  <1> QED
    BY <1>1, <1>2, <1>3

LEMMA TransMovesAlone ==
    ASSUME Ind, TransMoves, UNCHANGED lock, StillAwaited
    PROVE  Ind'
  <1>1. /\ UNCHANGED live /\ UNCHANGED current
        /\ MemberInv' /\ Stale' /\ Given' /\ Held' /\ CurrentPlan' = CurrentPlan
        /\ made' \in Nat /\ made' >= made
        /\ PlanSame /\ OpeningSame /\ ClosingSame /\ HoldsSame
    BY TransMovesRooms
  <1>2. QueueInv'
    BY <1>1, QueueSame DEF Ind, ClosingSame
  <1>3. PlanInv'
    BY <1>1, HeadUnchanged, OwnersKept DEF Ind, OpeningSame, HoldsSame
  <1> QED
    BY <1>1, <1>2, <1>3 DEF Ind, TransMoves

LEMMA TransMovesQueued ==
    ASSUME Ind, TransMoves, NEW kind \in Transitions, NEW r \in 0 .. MaxRooms,
           lock' = Append(lock, Task(kind, r)),
           trans.at # "locked", trans'.kind = kind, trans'.at = "locked"
    PROVE  Ind'
  <1>1. /\ UNCHANGED live /\ UNCHANGED room /\ UNCHANGED current
        /\ MemberInv' /\ Stale' /\ Given' /\ Held' /\ CurrentPlan' = CurrentPlan
        /\ made' \in Nat /\ made' >= made
        /\ PlanSame /\ OpeningSame /\ ClosingSame /\ HoldsSame
    BY TransMovesRooms
  <1>k. kind \in Kinds /\ kind \notin {"open", "close"}
    BY DEF Transitions, Kinds
  <1>2. PICK t \in LockTasks : /\ lock' = Append(lock, t) /\ t.kind = kind /\ t.run = FALSE
    <2>1. PICK t : t = Task(kind, r)
      OBVIOUS
    <2>2. t \in LockTasks /\ t.kind = kind /\ t.run = FALSE
      BY <1>k, <2>1 DEF Task, LockTasks
    <2> QED
      BY <2>1, <2>2
  <1>3. QueueInv'
    <2>1. \A q \in RoomIds : /\ room'[q].opening = (room[q].opening \/ (t.kind = "open" /\ t.room = q))
                             /\ room'[q].closing = (room[q].closing \/ (t.kind = "close" /\ t.room = q))
      BY <1>1, <1>2, <1>k, RoomFields DEF Ind, TypeOK
    <2>2. StillAwaited
      BY DEF StillAwaited
    <2> QED
      BY <1>1, <1>2, <1>k, <2>1, <2>2, QueueAppend DEF Ind
  <1>4. HeadSame
    BY <1>2, HeadAppend DEF Ind
  <1>5. PlanInv'
    BY <1>1, <1>4, OwnersKept DEF Ind, OpeningSame, HoldsSame
  <1> QED
    BY <1>1, <1>3, <1>5 DEF Ind, TransMoves

LEMMA TransMovesDone ==
    ASSUME Ind, TransMoves, lock # <<>>, lock[1].kind \in Transitions, Done,
           lock[1].run => lock[1].kind = "archive"
    PROVE  Ind'
  <1>1. /\ UNCHANGED live /\ UNCHANGED room /\ UNCHANGED current
        /\ MemberInv' /\ Stale' /\ Given' /\ Held' /\ CurrentPlan' = CurrentPlan
        /\ made' \in Nat /\ made' >= made
        /\ PlanSame /\ OpeningSame /\ ClosingSame /\ HoldsSame
    BY TransMovesRooms
  <1>2. lock[1].kind \notin {"open", "close"}
    BY DEF Transitions
  <1>3. \A r \in RoomIds :
            /\ room'[r].opening = (room[r].opening /\ ~(lock[1].kind = "open" /\ lock[1].room = r))
            /\ room'[r].closing = (room[r].closing /\ ~(lock[1].kind = "close" /\ lock[1].room = r))
    BY <1>1, <1>2, RoomFields DEF Ind, TypeOK
  <1>4. QueueInv' /\ NoneRuns'
    BY <1>1, <1>3, QueuePop DEF Ind, Done
  <1>5. PlanInv'
    <2>1. CASE ~lock[1].run
      <3>1. HeadSame
        BY <1>4, <2>1 DEF HeadSame, NoneRuns, Runs
      <3> QED
        BY <1>1, <2>1, <3>1, OwnersKept DEF Ind, OpeningSame, HoldsSame
    <2>2. CASE lock[1].run
      <3>1. lock[1].plan = 0
        BY <2>2 DEF Ind, PlanInv
      <3>2. live' = live \ {lock[1].plan}
        BY <1>1, <3>1 DEF Ind, TypeOK
      <3> QED
        BY <1>1, <1>4, <2>2, <3>2, OwnersPopped DEF Ind, Runs, OpeningSame
    <2> QED
      BY <2>1, <2>2
  <1> QED
    BY <1>1, <1>4, <1>5 DEF Ind, TransMoves

LEMMA WorkRunKeeps == ASSUME Ind, WorkRun PROVE Ind'
  <1>1. /\ lock # <<>> /\ lock[1].kind = "work" /\ ~lock[1].run /\ Done
        /\ UNCHANGED map /\ UNCHANGED plans /\ UNCHANGED people /\ UNCHANGED deleting
        /\ trans' = [trans EXCEPT !.at = "release"]
    BY DEF WorkRun, Starts, First
  <1>2. trans.kind = "work" /\ trans.at = "locked"
    BY <1>1, HeadRoom DEF Ind, Transitions
  <1>3. trans \in Transits
    BY DEF Ind, TypeOK
  <1>4. /\ trans' \in Transits /\ trans'.kind = "work" /\ trans'.at = "release"
        /\ trans'.room = trans.room /\ trans'.plan = trans.plan
    BY <1>1, <1>2, <1>3 DEF Transits
  <1>5. \A r \in RoomIds : Holding(r)' <=> Holding(r)
    BY <1>2, <1>4 DEF Holding
  <1>6. TransInv'
    BY <1>1, <1>2, <1>4 DEF Ind, TransInv, map, plans
  <1>7. lock' \in Seq(LockTasks)
    BY <1>1, DoneType DEF Ind
  <1>8. TypeOK'
    BY <1>4, <1>7 DEF Ind, TypeOK, WorkRun, map, plans, people, chat
  <1>9. TransMoves
    BY <1>1, <1>5, <1>6, <1>8 DEF TransMoves
  <1> QED
    BY <1>1, <1>9, TransMovesDone DEF Transitions

LEMMA WorkLockKeeps == ASSUME Ind, WorkLock PROVE Ind'
  <1>1. /\ lock' = Append(lock, Task("work", trans.room))
        /\ UNCHANGED map /\ UNCHANGED plans /\ UNCHANGED people /\ UNCHANGED deleting
        /\ trans' = [trans EXCEPT !.at = "locked"]
        /\ trans.kind = "work" /\ trans.at = "opened"
    BY DEF WorkLock
  <1>3. trans \in Transits
    BY DEF Ind, TypeOK
  <1>4. /\ trans' \in Transits /\ trans'.kind = "work" /\ trans'.at = "locked"
        /\ trans'.room = trans.room /\ trans'.plan = trans.plan /\ trans.room \in 0 .. MaxRooms
    BY <1>1, <1>3 DEF Transits
  <1>5. \A r \in RoomIds : Holding(r)' <=> Holding(r)
    BY <1>1, <1>4 DEF Holding
  <1>6. TransInv'
    BY <1>1, <1>4 DEF Ind, TransInv, map, plans
  <1>7. lock' \in Seq(LockTasks)
    <2>1. Task("work", trans.room) \in LockTasks
      BY <1>4, TaskType DEF Kinds
    <2> QED
      BY <1>1, <2>1, AppendType DEF Ind
  <1>8. TypeOK'
    BY <1>4, <1>7 DEF Ind, TypeOK, WorkLock, map, plans, people, chat
  <1>9. TransMoves
    BY <1>1, <1>5, <1>6, <1>8 DEF TransMoves
  <1> QED
    BY <1>1, <1>4, <1>9, TransMovesQueued DEF Transitions

LEMMA SuspendedKeeps == ASSUME Ind, Suspended PROVE Ind'
  <1>1. /\ lock' = Append(lock, Task(trans.kind, 0))
        /\ UNCHANGED map /\ UNCHANGED plans /\ UNCHANGED people /\ UNCHANGED deleting
        /\ trans' = [trans EXCEPT !.at = "locked"] /\ trans.at = "suspend"
    BY DEF Suspended
  <1>3. trans \in Transits
    BY DEF Ind, TypeOK
  <1>2. trans.kind \in {"archive", "restore", "delete"}
    BY <1>1, <1>3 DEF Ind, TransInv, NoTrans, Transits
  <1>4. /\ trans' \in Transits /\ trans'.kind = trans.kind /\ trans'.at = "locked"
        /\ trans'.room = trans.room /\ trans'.plan = trans.plan
    BY <1>1, <1>3 DEF Transits
  <1>5. \A r \in RoomIds : Holding(r)' <=> Holding(r)
    BY <1>2, <1>4 DEF Holding
  <1>6. TransInv'
    BY <1>1, <1>2, <1>4 DEF Ind, TransInv, map, plans
  <1>z. 0 \in 0 .. MaxRooms
    BY RoomsBound DEF Ind
  <1>7. lock' \in Seq(LockTasks)
    <2>1. Task(trans.kind, 0) \in LockTasks
      BY <1>2, <1>z, TaskType DEF Kinds
    <2> QED
      BY <1>1, <2>1, AppendType DEF Ind
  <1>8. TypeOK'
    BY <1>4, <1>7 DEF Ind, TypeOK, Suspended, map, plans, people, chat
  <1>9. TransMoves
    BY <1>1, <1>5, <1>6, <1>8 DEF TransMoves
  <1> QED
    BY <1>1, <1>2, <1>4, <1>z, <1>9, TransMovesQueued DEF Transitions

LEMMA RestoreRunKeeps == ASSUME Ind, RestoreRun PROVE Ind'
  <1>1. /\ lock # <<>> /\ lock[1].kind = "restore" /\ ~lock[1].run /\ Done
        /\ UNCHANGED map /\ UNCHANGED plans /\ UNCHANGED people /\ UNCHANGED deleting
        /\ trans' = NoTrans
    BY DEF RestoreRun, Starts, First
  <1>2. trans.kind = "restore" /\ trans.at = "locked"
    BY <1>1, HeadRoom DEF Ind, Transitions
  <1>3. deleting' = FALSE
    BY <1>1, <1>2 DEF Ind, TransInv
  <1>4. TransInv' /\ \A r \in RoomIds : Holding(r)' <=> Holding(r)
    BY <1>1, <1>2, <1>3, TransOver DEF Holding
  <1>5. lock' \in Seq(LockTasks)
    BY <1>1, DoneType DEF Ind
  <1>6. trans' \in Transits
    BY <1>1, RoomsBound, NoTransFields DEF Ind
  <1>7. TypeOK'
    BY <1>5, <1>6 DEF Ind, TypeOK, RestoreRun, map, plans, people, chat
  <1>8. TransMoves
    BY <1>1, <1>4, <1>7 DEF TransMoves
  <1> QED
    BY <1>1, <1>8, TransMovesDone DEF Transitions

LEMMA ArchiveEndKeeps == ASSUME Ind, ArchiveEnd PROVE Ind'
  <1>1. /\ lock # <<>> /\ lock[1].kind = "archive" /\ Done
        /\ UNCHANGED map /\ UNCHANGED plans /\ UNCHANGED people /\ UNCHANGED deleting
        /\ trans' = NoTrans
    BY DEF ArchiveEnd, Ends, First
  <1>2. trans.kind = "archive" /\ trans.at = "locked"
    BY <1>1, HeadRoom DEF Ind, Transitions
  <1>3. deleting' = FALSE
    BY <1>1, <1>2 DEF Ind, TransInv
  <1>4. TransInv' /\ \A r \in RoomIds : Holding(r)' <=> Holding(r)
    BY <1>1, <1>2, <1>3, TransOver DEF Holding
  <1>5. lock' \in Seq(LockTasks)
    BY <1>1, DoneType DEF Ind
  <1>6. trans' \in Transits
    BY <1>1, RoomsBound, NoTransFields DEF Ind
  <1>7. TypeOK'
    BY <1>5, <1>6 DEF Ind, TypeOK, ArchiveEnd, map, plans, people, chat
  <1>8. TransMoves
    BY <1>1, <1>4, <1>7 DEF TransMoves
  <1> QED
    BY <1>1, <1>8, TransMovesDone DEF Transitions

LEMMA ReopenedKeeps == ASSUME Ind, Reopened PROVE Ind'
  <1>1. /\ UNCHANGED lock /\ UNCHANGED map /\ UNCHANGED plans /\ UNCHANGED people
        /\ UNCHANGED deleting /\ trans' = NoTrans
        /\ trans.kind = "reopen" /\ trans.at \in {"opened", "release"}
    BY DEF Reopened
  <1>3. deleting' = FALSE
    BY <1>1 DEF Ind, TransInv
  <1>4. TransInv' /\ \A r \in RoomIds : Holding(r)' <=> Holding(r)
    BY <1>1, <1>3, TransOver DEF Holding
  <1>5. StillAwaited
    BY <1>1 DEF StillAwaited, Transitions
  <1>6. trans' \in Transits
    BY <1>1, RoomsBound, NoTransFields DEF Ind
  <1>7. TypeOK'
    BY <1>6 DEF Ind, TypeOK, Reopened, map, plans, people, chat
  <1>8. TransMoves
    BY <1>1, <1>4, <1>7 DEF TransMoves
  <1> QED
    BY <1>1, <1>5, <1>8, TransMovesAlone

\* The transition that begins, or the work that waits for a closing.
LEMMA BeginKeeps == ASSUME Ind, NEW kind \in {"archive", "restore", "delete"}, Begin(kind) PROVE Ind'
  <1>0. MayBegin /\ trans = NoTrans /\ Spend("trans")
    BY DEF Begin, MayBegin
  <1>1. /\ UNCHANGED lock /\ UNCHANGED map /\ UNCHANGED plans /\ UNCHANGED people
        /\ archiving' \in BOOLEAN /\ deleting' = (kind = "delete")
        /\ trans' = [kind |-> kind, at |-> "suspend", room |-> current, plan |-> 0]
    BY DEF Begin
  <1>2. trans.kind = "none" /\ trans.at = "none"
    BY <1>0, NoTransFields
  <1>3. /\ trans'.kind = kind /\ trans'.at = "suspend" /\ trans'.room = current
    BY <1>1
  <1>4. current \in 0 .. MaxRooms /\ current \in 0 .. made
    BY RoomsBound DEF Ind
  <1>5. trans' \in Transits
    BY <1>1, <1>4 DEF Transits
  <1>6. \A r \in RoomIds : Holding(r)' <=> Holding(r)
    BY <1>2, <1>3 DEF Holding
  <1>7. UNCHANGED made /\ UNCHANGED current
    BY <1>1 DEF map
  <1>8. TransInv'
    BY <1>1, <1>3, <1>4, <1>7 DEF TransInv
  <1>9. StillAwaited
    BY <1>2 DEF StillAwaited
  <1>10. load' \in LoadRecords
    BY <1>0, SpendType DEF Ind
  <1>11. TypeOK'
    BY <1>1, <1>5, <1>10 DEF Ind, TypeOK, Begin, map, plans, people, chat
  <1>12. TransMoves
    BY <1>1, <1>6, <1>8, <1>11 DEF TransMoves
  <1> QED
    BY <1>1, <1>9, <1>12, TransMovesAlone

LEMMA WorkWaits ==
    ASSUME Ind, MayBegin, CurrentCloses, UNCHANGED <<map, lock>>,
           trans' = [kind |-> "work", at |-> "closing", room |-> current, plan |-> 0],
           UNCHANGED <<plans, people, archiving, deleting, row, chat>>
    PROVE  Ind'
  <1>0. trans = NoTrans /\ Spend("trans")
    BY DEF MayBegin
  <1>1. /\ UNCHANGED lock /\ UNCHANGED map /\ UNCHANGED plans /\ UNCHANGED people /\ UNCHANGED deleting
        /\ UNCHANGED archiving /\ UNCHANGED row /\ UNCHANGED chat
    OBVIOUS
  <1>2. trans.kind = "none" /\ trans.at = "none"
    BY <1>0, NoTransFields
  <1>3. trans'.kind = "work" /\ trans'.at = "closing" /\ trans'.room = current
    OBVIOUS
  <1>4. current \in RoomIds /\ current \in 1 .. made /\ current \in 0 .. MaxRooms
    BY RoomsBound DEF Ind, CurrentCloses
  <1>t. current \notin taken.rooms
    BY <1>4 DEF Ind, Stale, StaleInv
  <1>5. trans' \in Transits
    BY <1>4 DEF Transits
  <1>6. \A r \in RoomIds : Holding(r)' <=> Holding(r)
    BY <1>2, <1>3 DEF Holding
  <1>7. UNCHANGED made /\ UNCHANGED current /\ UNCHANGED taken
    BY <1>1 DEF map, plans
  <1>8. TransInv'
    <2>1. deleting = FALSE
      BY <1>2 DEF Ind, TransInv
    <2> QED
      BY <1>1, <1>3, <1>4, <1>t, <1>7, <2>1 DEF TransInv
  <1>9. StillAwaited
    BY <1>2 DEF StillAwaited
  <1>10. load' \in LoadRecords
    BY <1>0, SpendType DEF Ind
  <1>11. TypeOK'
    BY <1>1, <1>5, <1>10 DEF Ind, TypeOK, map, plans, people, chat
  <1>12. TransMoves
    BY <1>1, <1>6, <1>8, <1>11 DEF TransMoves
  <1> QED
    BY <1>1, <1>9, <1>12, TransMovesAlone

\* Archiving starts: its task runs and has no document.
LEMMA ArchiveStartKeeps == ASSUME Ind, ArchiveStart PROVE Ind'
  <1>1. /\ UNCHANGED room /\ UNCHANGED made /\ UNCHANGED current /\ UNCHANGED taken
        /\ UNCHANGED sock /\ UNCHANGED shown /\ UNCHANGED ask /\ UNCHANGED trans
        /\ UNCHANGED deleting /\ UNCHANGED live
    BY DEF ArchiveStart, map, people, chan, plans
  <1>2. /\ MemberInv' /\ Stale' /\ Given' /\ made' \in Nat /\ made' >= made
        /\ PlanSame /\ OpeningSame /\ ClosingSame /\ HoldsSame /\ CurrentPlan' = CurrentPlan
    BY <1>1, RoomsStill
  <1>3. TransInv' /\ Held' /\ StillAwaited
    BY <1>1, TransStill
  <1>4. lock # <<>> /\ lock[1].kind = "archive" /\ ~lock[1].run /\ Run(0)
    BY DEF ArchiveStart, Starts, First
  <1>5. QueueInv' /\ Runs' /\ lock'[1] = [lock[1] EXCEPT !.run = TRUE, !.plan = 0]
    BY <1>1, <1>2, <1>3, <1>4, QueueRun DEF Ind
  <1>6. lock'[1].kind = "archive" /\ lock'[1].plan = 0
    BY <1>4, <1>5, RunFields DEF Ind
  <1>7. PlanInv'
    <2>1. \A r \in RoomIds : /\ room'[r].plan = IF room[r].plan = 0 THEN 0 ELSE room[r].plan
                             /\ room'[r].opening = room[r].opening
      BY <1>2 DEF PlanSame, OpeningSame
    <2> QED
      BY <1>1, <1>4, <1>5, <1>6, <2>1, OwnersTaken DEF Ind, NoneRuns, Runs
  <1>8. lock' \in Seq(LockTasks)
    BY <1>4, RunType DEF Ind
  <1>9. aborted' \in BOOLEAN
    BY DEF Ind, TypeOK, ArchiveStart
  <1>10. TypeOK'
    BY <1>1, <1>8, <1>9 DEF Ind, TypeOK, ArchiveStart, map, people, chan, plans
  <1> QED
    BY <1>2, <1>3, <1>5, <1>7, <1>10 DEF Ind

-----------------------------------------------------------------------------
(* Sockets come and go.                                                    *)

LEMMA EvictFields ==
    ASSUME NEW x \in RoomRecords
    PROVE  /\ Evict(x) \in RoomRecords /\ Evict(x).members = x.members /\ Evict(x).plan = x.plan
           /\ Evict(x).opening = x.opening /\ Evict(x).closing = x.closing /\ Evict(x).holds = x.holds
  BY DEF Evict, RoomRecords

LEMMA ForgottenFields ==
    ASSUME NEW x \in RoomRecords
    PROVE  /\ Forgotten(x) \in RoomRecords /\ Forgotten(x).members = x.members
           /\ Forgotten(x).plan = x.plan /\ Forgotten(x).opening = x.opening
           /\ Forgotten(x).closing = x.closing /\ Forgotten(x).holds = x.holds
           /\ Forgotten(x).timer # "armed"
  BY DEF Forgotten, RoomRecords

\* One room changes, and keeps its document and its openings and closings.
LEMMA RoomSetSame ==
    ASSUME TypeOK, NEW r \in RoomIds, NEW x \in RoomRecords, room' = [room EXCEPT ![r] = x],
           x.plan = room[r].plan, x.opening = room[r].opening, x.closing = room[r].closing
    PROVE  PlanSame /\ OpeningSame /\ ClosingSame
  <1>1. room'[r] = x /\ \A q \in RoomIds : q # r => room'[q] = room[q]
    BY RoomSet
  <1> QED
    BY <1>1 DEF PlanSame, OpeningSame, ClosingSame

LEMMA RoomSetHolds ==
    ASSUME TypeOK, NEW r \in RoomIds, NEW x \in RoomRecords, room' = [room EXCEPT ![r] = x],
           x.holds = room[r].holds
    PROVE  HoldsSame
  <1>1. room'[r] = x /\ \A q \in RoomIds : q # r => room'[q] = room[q]
    BY RoomSet
  <1> QED
    BY <1>1 DEF HoldsSame

LEMMA JoinFacts ==
    ASSUME Ind, NEW s \in Sockets, Join(s)
    PROVE  /\ Opened \in RoomIds /\ ClientOf[s] \in Clients /\ sock[s] = "new"
           /\ sock' = [sock EXCEPT ![s] = "in"]
           /\ made' = (IF current = 0 THEN made + 1 ELSE made) /\ current' = Opened
           /\ room' \in [RoomIds -> RoomRecords]
           /\ room'[Opened].members = [room[Opened].members EXCEPT ![ClientOf[s]] = s]
           /\ \A q \in RoomIds : q # Opened => room'[q] = room[q]
           /\ PlanSame /\ OpeningSame /\ ClosingSame /\ HoldsSame
           /\ UNCHANGED lock /\ UNCHANGED plans /\ UNCHANGED ask /\ UNCHANGED shown
           /\ UNCHANGED chan /\ UNCHANGED chat /\ UNCHANGED load
  <1>1. PICK x : x = [room[Opened] EXCEPT !.members[ClientOf[s]] = s, !.timer = "none"]
    OBVIOUS
  <1>2. /\ Opened \in RoomIds /\ room' = [room EXCEPT ![Opened] = x]
        /\ made' = (IF current = 0 THEN made + 1 ELSE made) /\ current' = Opened
    BY <1>1 DEF Join, Store
  <1>3. ClientOf[s] \in Clients /\ room[Opened] \in RoomRecords
    BY <1>2, SocketAssumption DEF Ind, TypeOK
  <1>4. /\ x \in RoomRecords /\ x.members = [room[Opened].members EXCEPT ![ClientOf[s]] = s]
        /\ x.plan = room[Opened].plan /\ x.opening = room[Opened].opening
        /\ x.closing = room[Opened].closing /\ x.holds = room[Opened].holds
    <2>1. PICK y : y = room[Opened]
      OBVIOUS
    <2>2. x = [y EXCEPT !.members[ClientOf[s]] = s, !.timer = "none"] /\ y \in RoomRecords
      BY <1>1, <1>3, <2>1
    <2>3. /\ x \in RoomRecords /\ x.members = [y.members EXCEPT ![ClientOf[s]] = s]
          /\ x.plan = y.plan /\ x.opening = y.opening /\ x.closing = y.closing /\ x.holds = y.holds
      BY <1>3, <2>2 DEF RoomRecords
    <2> QED
      BY <2>1, <2>3
  <1>5. /\ room' \in [RoomIds -> RoomRecords] /\ room'[Opened] = x
        /\ \A q \in RoomIds : q # Opened => room'[q] = room[q]
    BY <1>2, <1>4, RoomSet DEF Ind
  <1>6. PlanSame /\ OpeningSame /\ ClosingSame
    BY <1>2, <1>4, RoomSetSame DEF Ind
  <1>7. HoldsSame
    BY <1>2, <1>4, RoomSetHolds DEF Ind
  <1> QED
    BY <1>2, <1>3, <1>4, <1>5, <1>6, <1>7 DEF Join

\* A room that becomes the one in the map is empty.
LEMMA CurrentOpened ==
    ASSUME TypeOK, Stale, Opened \in RoomIds, current' = Opened,
           room'[Opened].plan = room[Opened].plan
    PROVE  current' = current \/ CurrentPlan' = 0
  <1>1. CASE current = 0
    <2>1. room[Opened].plan = 0
      BY <1>1, OpenedFacts, EmptyFields
    <2> QED
      BY <2>1 DEF CurrentPlan
  <1>2. CASE current # 0
    BY <1>2, OpenedFacts
  <1> QED
    BY <1>1, <1>2

LEMMA JoinKeeps == ASSUME Ind, ~Pending, NEW s \in Sockets, Join(s) PROVE Ind'
  <1>1. /\ Opened \in RoomIds /\ ClientOf[s] \in Clients /\ sock[s] = "new"
        /\ sock' = [sock EXCEPT ![s] = "in"]
        /\ made' = (IF current = 0 THEN made + 1 ELSE made) /\ current' = Opened
        /\ room' \in [RoomIds -> RoomRecords]
        /\ room'[Opened].members = [room[Opened].members EXCEPT ![ClientOf[s]] = s]
        /\ \A q \in RoomIds : q # Opened => room'[q] = room[q]
        /\ PlanSame /\ OpeningSame /\ ClosingSame /\ HoldsSame
        /\ UNCHANGED lock /\ UNCHANGED plans /\ UNCHANGED ask /\ UNCHANGED shown
        /\ UNCHANGED chan /\ UNCHANGED chat /\ UNCHANGED load
    BY JoinFacts
  <1>2. /\ UNCHANGED live /\ UNCHANGED taken /\ UNCHANGED trans /\ UNCHANGED deleting
    BY <1>1 DEF plans, chan
  <1>3. /\ Opened \notin taken.rooms /\ (current = 0 => room[Opened] = Empty)
        /\ current # 0 => Opened = current
    BY <1>1, OpenedFacts DEF Ind
  <1>4. Stale' /\ made' \in Nat /\ made' >= made /\ Opened \in 1 .. made'
    BY <1>1, <1>2, StaleOpened DEF Ind
  <1>5. Held'
    BY <1>1, <1>2, HeldSame DEF Ind, ClosingSame
  <1>6. QueueInv'
    BY <1>1, <1>2, <1>4, QueueSame DEF Ind, ClosingSame, StillAwaited
  <1>7. PlanInv'
    <2>1. current' = current \/ CurrentPlan' = 0
      BY <1>1, CurrentOpened DEF Ind, PlanSame
    <2> QED
      BY <1>1, <1>2, <2>1, HeadUnchanged, OwnersKept DEF Ind, OpeningSame, HoldsSame
  <1>8. TransInv'
    <2>1. ASSUME trans.kind = "work", current = 0 PROVE FALSE
      <3>1. trans.room \in 1 .. made /\ trans.at = "closing" /\ trans.room \notin taken.rooms
        BY <2>1, RoomsBound DEF Ind, TransInv
      <3>2. trans.room \in RoomIds /\ trans.room # current
        BY <2>1, <3>1, RoomsBound DEF Ind
      <3>3. ~room[trans.room].closing
        BY <3>1, <3>2 DEF Ind, Stale, StaleInv
      <3> QED
        BY <3>1, <3>3 DEF Pending
    <2>2. trans.kind = "work" => current' = current
      BY <1>1, <1>3, <2>1
    <2>3. trans.kind = "work" /\ trans.at \in {"opened", "locked"}
               => room'[current].plan = room[current].plan
      BY <2>1, RoomsBound, <1>1 DEF Ind, PlanSame
    <2>4. ASSUME trans.kind = "delete", trans.room \notin {0, current'}
          PROVE  room'[trans.room].plan = 0 /\ ~room'[trans.room].opening
      <3>1. trans.room \in 1 .. made /\ trans.room \in RoomIds
        BY <2>4, RoomsBound DEF Ind, TransInv
      <3>2. trans.room # current
        BY <2>4, <3>1, <1>1, <1>3, RoomsBound DEF Ind
      <3>3. room[trans.room].plan = 0 /\ ~room[trans.room].opening
        BY <2>4, <3>2 DEF Ind, TransInv
      <3> QED
        BY <3>1, <3>3, <1>1 DEF PlanSame, OpeningSame
    <2> QED
      BY <1>2, <1>4, <2>2, <2>3, <2>4, TransKept DEF Ind
  <1>9. MemberInv'
    <2>1. ASSUME NEW r \in RoomIds, NEW c \in Clients, room'[r].members[c] # NoSocket
          PROVE  /\ ClientOf[room'[r].members[c]] = c /\ sock'[room'[r].members[c]] # "new"
                 /\ sock'[room'[r].members[c]] = "in" \/ r \in taken'.rooms
      <3>1. CASE r = Opened /\ c = ClientOf[s]
        <4>1. room'[r].members[c] = s
          BY <1>1, <3>1, RoomFields DEF Ind, TypeOK
        <4>2. sock'[s] = "in"
          BY <1>1 DEF Ind, TypeOK
        <4> QED
          BY <3>1, <4>1, <4>2
      <3>2. CASE ~(r = Opened /\ c = ClientOf[s])
        <4>1. room'[r].members[c] = room[r].members[c]
          BY <1>1, <3>2, RoomFields DEF Ind, TypeOK
        <4>2. PICK t : t = room[r].members[c]
          OBVIOUS
        <4>3. t \in Sockets
          BY <4>1, <4>2, <2>1, RoomFields DEF Ind, TypeOK
        <4>4. ClientOf[t] = c /\ sock[t] # "new" /\ (sock[t] = "in" \/ r \in taken.rooms)
          BY <2>1, <4>1, <4>2 DEF Ind, MemberInv
        <4>5. sock'[t] # "new" /\ (sock[t] = "in" => sock'[t] = "in")
          BY <4>3, <4>4, <1>1 DEF Ind, TypeOK
        <4> QED
          BY <4>1, <4>2, <4>4, <4>5, <1>2
      <3> QED
        BY <3>1, <3>2
    <2>2. ASSUME NEW t \in Sockets
          PROVE  /\ sock'[t] = "new" => shown'[t] = 0
                 /\ ask'[t].at \in {"closing", "opening", "opened"} => ask'[t].room \in 1 .. made'
      <3>1. sock'[t] = "new" => sock[t] = "new"
        BY <1>1 DEF Ind, TypeOK
      <3>2. made \in Nat
        BY RoomsBound DEF Ind
      <3> QED
        BY <1>1, <1>4, <3>1, <3>2 DEF Ind, MemberInv
    <2> QED
      BY <2>1, <2>2 DEF MemberInv
  <1>10. Given'
    <2> SUFFICES ASSUME NEW t \in Sockets, sock'[t] = "in",
                        room'[Opened].members[ClientOf[t]] = t,
                        shown[t] # 0, shown[t] \notin taken.plans
                 PROVE  room'[Opened].plan = shown[t]
      BY <1>1, <1>2 DEF Given
    <2>1. t # s
      BY <1>1 DEF Ind, MemberInv
    <2>2. ClientOf[t] \in Clients /\ t # NoSocket
      BY SocketAssumption
    <2>3. room[Opened].members[ClientOf[t]] = t
      BY <1>1, <2>1, <2>2, RoomFields DEF Ind, TypeOK
    <2>4. current # 0
      BY <1>3, <2>2, <2>3, EmptyFields
    <2>5. Opened = current
      BY <1>3, <2>4
    <2>6. sock[t] = "in"
      BY <1>1, <2>1 DEF Ind, TypeOK
    <2>7. room[current].plan = shown[t]
      BY <2>3, <2>4, <2>5, <2>6 DEF Ind, Given
    <2> QED
      BY <1>1, <2>5, <2>7 DEF PlanSame
  <1>11. TypeOK'
    <2>1. current' \in 0 .. made' /\ made' \in 0 .. MaxRooms
      BY <1>1, <1>3, <1>4, OpenedFacts, RoomsBound DEF Ind
    <2>2. sock' \in [Sockets -> {"new", "in", "gone"}]
      BY <1>1 DEF Ind, TypeOK
    <2> QED
      BY <1>1, <2>1, <2>2 DEF Ind, TypeOK, plans, chan, chat
  <1> QED
    BY <1>4, <1>5, <1>6, <1>7, <1>8, <1>9, <1>10, <1>11 DEF Ind

\* What leaving makes of the room in the map.
LEMMA LeaveFacts ==
    ASSUME Ind, NEW s \in Sockets, Leave(s)
    PROVE  /\ sock[s] = "in" /\ sock' = [sock EXCEPT ![s] = "gone"] /\ ClientOf[s] \in Clients
           /\ room' \in [RoomIds -> RoomRecords]
           /\ \A r \in RoomIds : r = current \/ room'[r] = room[r]
           /\ current # 0 =>
                \A c \in Clients : room'[current].members[c] =
                    IF c = ClientOf[s] /\ room[current].members[c] = s THEN NoSocket
                    ELSE room[current].members[c]
           /\ PlanSame /\ OpeningSame /\ ClosingSame /\ HoldsSame
  <1>1. sock[s] = "in" /\ sock' = [sock EXCEPT ![s] = "gone"] /\ ClientOf[s] \in Clients
    BY SocketAssumption DEF Leave
  <1>2. CASE current = 0
    <2>1. UNCHANGED room
      BY <1>2 DEF Leave
    <2> QED
      BY <1>1, <1>2, <2>1, RoomUnchanged DEF Ind, TypeOK
  <1>3. CASE current # 0
    <2>1. current \in RoomIds /\ room[current] \in RoomRecords
      BY <1>3, RoomsBound DEF Ind, TypeOK
    <2>2. PICK z : z = room[current]
      OBVIOUS
    <2>3. PICK y : y = IF z.members[ClientOf[s]] # s THEN z
                       ELSE [z EXCEPT !.members[ClientOf[s]] = NoSocket]
      OBVIOUS
    <2>4. /\ y \in RoomRecords
          /\ \A c \in Clients : y.members[c] = IF c = ClientOf[s] /\ z.members[c] = s THEN NoSocket
                                               ELSE z.members[c]
          /\ y.plan = z.plan /\ y.opening = z.opening /\ y.closing = z.closing /\ y.holds = z.holds
      <3>1. CASE z.members[ClientOf[s]] # s
        BY <2>1, <2>2, <2>3, <3>1
      <3>2. CASE z.members[ClientOf[s]] = s
        <4>1. y = [z EXCEPT !.members[ClientOf[s]] = NoSocket]
          BY <2>3, <3>2
        <4>2. z \in RoomRecords
          BY <2>1, <2>2
        <4> QED
          BY <1>1, <3>2, <4>1, <4>2 DEF RoomRecords
      <3> QED
        BY <3>1, <3>2
    <2>5. room' = [room EXCEPT ![current] = Evict(y)]
      BY <1>3, <2>2, <2>3 DEF Leave
    <2>6. PICK x : x = Evict(y)
      OBVIOUS
    <2>7. /\ x \in RoomRecords /\ x.members = y.members /\ x.plan = z.plan
          /\ x.opening = z.opening /\ x.closing = z.closing /\ x.holds = z.holds
      BY <2>4, <2>6, EvictFields
    <2>8. room' = [room EXCEPT ![current] = x]
      BY <2>5, <2>6
    <2>9. /\ room' \in [RoomIds -> RoomRecords] /\ room'[current] = x
          /\ \A q \in RoomIds : q # current => room'[q] = room[q]
      BY <2>1, <2>7, <2>8, RoomSet DEF Ind
    <2>10. PlanSame /\ OpeningSame /\ ClosingSame
      BY <2>1, <2>2, <2>7, <2>8, RoomSetSame DEF Ind
    <2>11. HoldsSame
      BY <2>1, <2>2, <2>7, <2>8, RoomSetHolds DEF Ind
    <2>12. \A c \in Clients : room'[current].members[c] =
                    IF c = ClientOf[s] /\ room[current].members[c] = s THEN NoSocket
                    ELSE room[current].members[c]
      BY <2>2, <2>4, <2>7, <2>9
    <2> QED
      BY <1>1, <2>9, <2>10, <2>11, <2>12
  <1> QED
    BY <1>2, <1>3

LEMMA LeaveKeeps == ASSUME Ind, NEW s \in Sockets, Leave(s) PROVE Ind'
  <1>1. /\ sock[s] = "in" /\ sock' = [sock EXCEPT ![s] = "gone"] /\ ClientOf[s] \in Clients
        /\ room' \in [RoomIds -> RoomRecords]
        /\ \A r \in RoomIds : r = current \/ room'[r] = room[r]
        /\ current # 0 =>
                \A c \in Clients : room'[current].members[c] =
                    IF c = ClientOf[s] /\ room[current].members[c] = s THEN NoSocket
                    ELSE room[current].members[c]
        /\ PlanSame /\ OpeningSame /\ ClosingSame /\ HoldsSame
    BY LeaveFacts
  <1>2. /\ UNCHANGED made /\ UNCHANGED current /\ UNCHANGED lock /\ UNCHANGED live
        /\ UNCHANGED taken /\ UNCHANGED trans /\ UNCHANGED deleting /\ UNCHANGED ask /\ UNCHANGED shown
    BY DEF Leave, plans, chan
  <1>3. Stale'
    BY <1>1, <1>2, StaleKept DEF Ind
  <1>4. made' \in Nat /\ made' >= made
    BY <1>2, RoomsBound DEF Ind
  <1>5. Held'
    BY <1>1, <1>2, HeldSame DEF Ind, ClosingSame
  <1>6. QueueInv'
    BY <1>1, <1>2, <1>4, QueueSame DEF Ind, ClosingSame, StillAwaited
  <1>7. PlanInv'
    BY <1>1, <1>2, HeadUnchanged, OwnersKept DEF Ind, OpeningSame, HoldsSame
  <1>8. TransInv'
    <2>1. trans.kind = "work" /\ trans.at \in {"opened", "locked"}
               => room'[current].plan = room[current].plan
      BY <1>1, RoomsBound DEF Ind, TransInv, PlanSame
    <2>2. ASSUME trans.kind = "delete", trans.room \notin {0, current'}
          PROVE  room'[trans.room].plan = 0 /\ ~room'[trans.room].opening
      <3>1. trans.room \in RoomIds
        BY <2>2, RoomsBound DEF Ind, TransInv
      <3>2. room[trans.room].plan = 0 /\ ~room[trans.room].opening
        BY <2>2, <1>2 DEF Ind, TransInv
      <3> QED
        BY <3>1, <3>2, <1>1 DEF PlanSame, OpeningSame
    <2> QED
      BY <1>2, <1>4, <2>1, <2>2, TransKept DEF Ind
  <1>9. ASSUME NEW r \in RoomIds, NEW c \in Clients, room'[r].members[c] # NoSocket
        PROVE  /\ room'[r].members[c] = room[r].members[c]
               /\ room[r].members[c] \in Sockets
               /\ room[r].members[c] = s => r \in taken.rooms
    <2>1. room'[r].members[c] = room[r].members[c]
      <3>1. CASE r = current
        <4>1. current # 0
          BY <3>1, RoomsBound DEF Ind
        <4> QED
          BY <3>1, <4>1, <1>1, <1>9
      <3>2. CASE r # current
        BY <3>2, <1>1
      <3> QED
        BY <3>1, <3>2
    <2>2. room[r].members[c] \in Sockets
      BY <1>9, <2>1, RoomFields DEF Ind, TypeOK
    <2>3. ASSUME room[r].members[c] = s, r \notin taken.rooms PROVE FALSE
      <3>1. c = ClientOf[s]
        BY <2>3, <1>9, <2>1 DEF Ind, MemberInv
      <3>2. r # current
        BY <2>3, <3>1, <1>1, <1>9, RoomsBound DEF Ind
      <3>3. Members(room[r]) = {}
        BY <2>3, <3>2 DEF Ind, Stale, StaleInv
      <3> QED
        BY <3>3, <2>1, <1>9 DEF Members
    <2> QED
      BY <2>1, <2>2, <2>3
  <1>10. MemberInv'
    <2>1. ASSUME NEW r \in RoomIds, NEW c \in Clients, room'[r].members[c] # NoSocket
          PROVE  /\ ClientOf[room'[r].members[c]] = c /\ sock'[room'[r].members[c]] # "new"
                 /\ sock'[room'[r].members[c]] = "in" \/ r \in taken'.rooms
      <3>1. PICK t : t = room[r].members[c]
        OBVIOUS
      <3>2. t \in Sockets /\ room'[r].members[c] = t /\ (t = s => r \in taken.rooms)
        BY <2>1, <3>1, <1>9
      <3>3. ClientOf[t] = c /\ sock[t] # "new" /\ (sock[t] = "in" \/ r \in taken.rooms)
        BY <2>1, <3>1, <3>2 DEF Ind, MemberInv
      <3>4. sock'[t] = IF t = s THEN "gone" ELSE sock[t]
        BY <3>2, <1>1 DEF Ind, TypeOK
      <3> QED
        BY <3>2, <3>3, <3>4, <1>2
    <2>2. ASSUME NEW t \in Sockets
          PROVE  /\ sock'[t] = "new" => shown'[t] = 0
                 /\ ask'[t].at \in {"closing", "opening", "opened"} => ask'[t].room \in 1 .. made'
      <3>1. sock'[t] = "new" => sock[t] = "new"
        BY <1>1 DEF Ind, TypeOK
      <3> QED
        BY <1>2, <3>1 DEF Ind, MemberInv
    <2> QED
      BY <2>1, <2>2 DEF MemberInv
  <1>11. Given'
    <2> SUFFICES ASSUME NEW t \in Sockets, current # 0, sock'[t] = "in",
                        room'[current].members[ClientOf[t]] = t,
                        shown[t] # 0, shown[t] \notin taken.plans
                 PROVE  room'[current].plan = shown[t]
      BY <1>1, <1>2 DEF Given
    <2>1. ClientOf[t] \in Clients /\ t # NoSocket /\ current \in RoomIds
      BY SocketAssumption, RoomsBound DEF Ind
    <2>2. room[current].members[ClientOf[t]] = t
      BY <2>1, <1>9
    <2>3. sock[t] = "in"
      BY <1>1 DEF Ind, TypeOK
    <2>4. room[current].plan = shown[t]
      BY <2>2, <2>3 DEF Ind, Given
    <2> QED
      BY <1>1, <2>1, <2>4 DEF PlanSame
  <1>12. TypeOK'
    <2>1. sock' \in [Sockets -> {"new", "in", "gone"}]
      BY <1>1 DEF Ind, TypeOK
    <2> QED
      BY <1>1, <1>2, <2>1 DEF Ind, TypeOK, Leave, plans, chan, chat
  <1> QED
    BY <1>3, <1>5, <1>6, <1>7, <1>8, <1>10, <1>11, <1>12 DEF Ind

LEMMA FireKeeps == ASSUME Ind, NEW r \in RoomIds, Fire(r) PROVE Ind'
  <1>1. PICK x : x = [room[r] EXCEPT !.timer = "none"]
    OBVIOUS
  <1>2. PICK closes : closes = (~Used(x) /\ ~x.closing)
    OBVIOUS
  <1>3. PICK y : y = [x EXCEPT !.closing = x.closing \/ closes]
    OBVIOUS
  <1>4. /\ room' = [room EXCEPT ![r] = y]
        /\ lock' = IF closes THEN Append(lock, Task("close", r)) ELSE lock
        /\ room[r].timer = "armed"
    BY <1>1, <1>2, <1>3 DEF Fire
  <1>5. /\ UNCHANGED made /\ UNCHANGED current /\ UNCHANGED live /\ UNCHANGED taken
        /\ UNCHANGED sock /\ UNCHANGED ask /\ UNCHANGED shown /\ UNCHANGED trans
        /\ UNCHANGED deleting
    BY DEF Fire, plans, people, chan
  <1>6. room[r] \in RoomRecords /\ closes \in BOOLEAN
    BY <1>2 DEF Ind, TypeOK
  <1>7. /\ x \in RoomRecords /\ x.members = room[r].members /\ x.plan = room[r].plan
        /\ x.opening = room[r].opening /\ x.holds = room[r].holds /\ x.closing = room[r].closing
    BY <1>1, <1>6 DEF RoomRecords
  <1>8. /\ y \in RoomRecords /\ y.members = x.members /\ y.plan = x.plan
        /\ y.opening = x.opening /\ y.holds = x.holds /\ y.closing = (x.closing \/ closes)
    BY <1>3, <1>6, <1>7 DEF RoomRecords
  <1>9. /\ room' \in [RoomIds -> RoomRecords] /\ room'[r] = y
        /\ \A q \in RoomIds : q # r => room'[q] = room[q]
    BY <1>4, <1>8, RoomSet DEF Ind
  <1>10. PlanSame /\ OpeningSame /\ HoldsSame /\ MembersSame
    BY <1>7, <1>8, <1>9 DEF PlanSame, OpeningSame, HoldsSame, MembersSame
  <1>11. closes => room[r].holds = 0 /\ ~room[r].closing
    <2>1. closes => ~(x.holds > 0) /\ ~x.closing
      BY <1>2 DEF Used
    <2>2. x.holds \in Nat
      BY <1>7, RoomFields
    <2> QED
      BY <2>1, <2>2, <1>7
  <1>12. r = current
    BY <1>4 DEF Ind, Stale, StaleInv
  <1>13. Stale'
    BY <1>5, <1>9, <1>12, StaleKept DEF Ind
  <1>14. made' \in Nat /\ made' >= made
    BY <1>5, RoomsBound DEF Ind
  <1>15. Held'
    <2>1. \A q \in RoomIds : room[q].holds > 0 /\ room'[q].closing => room[q].closing
      <3> TAKE q \in RoomIds
      <3>1. CASE q # r
        BY <3>1, <1>9
      <3>2. CASE q = r
        <4>1. closes => room[q].holds = 0
          BY <3>2, <1>11
        <4>2. ~closes => y.closing = room[q].closing
          BY <3>2, <1>7, <1>8, RoomFields, <1>6
        <4> QED
          BY <3>2, <4>1, <4>2, <1>9
      <3> QED
        BY <3>1, <3>2
    <2> QED
      BY <1>5, <1>10, <2>1, HeldSame DEF Ind
  <1>16. StillAwaited
    BY <1>5 DEF StillAwaited
  <1>17. ASSUME ~closes PROVE QueueInv' /\ HeadSame /\ lock' \in Seq(LockTasks)
    <2>1. UNCHANGED lock /\ ClosingSame
      BY <1>4, <1>7, <1>8, <1>9, <1>17, RoomFields DEF ClosingSame
    <2>2. QueueInv'
      BY <1>10, <1>14, <1>16, <2>1, QueueSame DEF Ind, ClosingSame
    <2>3. HeadSame /\ lock' \in Seq(LockTasks)
      BY <2>1, HeadUnchanged DEF Ind, TypeOK
    <2> QED
      BY <2>2, <2>3
  <1>18. ASSUME closes PROVE QueueInv' /\ HeadSame /\ lock' \in Seq(LockTasks)
    <2>1. PICK t \in LockTasks : /\ lock' = Append(lock, t) /\ t.kind = "close" /\ t.room = r
                                 /\ t.run = FALSE
      <3>1. "close" \in Kinds /\ r \in 0 .. MaxRooms
        BY RoomsBound DEF Ind, Kinds
      <3>2. /\ Task("close", r) \in LockTasks /\ Task("close", r).kind = "close"
            /\ Task("close", r).room = r /\ Task("close", r).run = FALSE
        BY <3>1, TaskType
      <3> QED
        BY <1>4, <1>18, <3>2
    <2>2. \A q \in RoomIds :
            /\ room'[q].opening = (room[q].opening \/ (t.kind = "open" /\ t.room = q))
            /\ room'[q].closing = (room[q].closing \/ (t.kind = "close" /\ t.room = q))
      <3> TAKE q \in RoomIds
      <3>1. room[q].opening \in BOOLEAN /\ room[q].closing \in BOOLEAN
        BY RoomFields DEF Ind, TypeOK
      <3> QED
        BY <3>1, <2>1, <1>7, <1>8, <1>9, <1>18
    <2>3. t.room \in 1 .. made' /\ t.room \in RoomIds /\ ~room[t.room].closing
      BY <2>1, <1>5, <1>11, <1>12, <1>18, RoomsBound DEF Ind
    <2>4. t.kind \notin Transitions /\ t.kind # "open"
      BY <2>1 DEF Transitions
    <2>5. QueueInv'
      BY <1>14, <1>16, <2>1, <2>2, <2>3, <2>4, QueueAppend DEF Ind
    <2>6. HeadSame
      BY <2>1, HeadAppend DEF Ind
    <2>7. lock' \in Seq(LockTasks)
      BY <2>1, AppendType DEF Ind
    <2> QED
      BY <2>5, <2>6, <2>7
  <1>19. QueueInv' /\ HeadSame /\ lock' \in Seq(LockTasks)
    BY <1>17, <1>18
  <1>20. PlanInv'
    BY <1>5, <1>10, <1>19, OwnersKept DEF Ind, OpeningSame, HoldsSame
  <1>21. TransInv'
    <2>1. trans.kind = "work" /\ trans.at \in {"opened", "locked"}
               => room'[current].plan = room[current].plan
      BY <1>10, RoomsBound DEF Ind, TransInv, PlanSame
    <2>2. ASSUME trans.kind = "delete", trans.room \notin {0, current'}
          PROVE  room'[trans.room].plan = 0 /\ ~room'[trans.room].opening
      <3>1. trans.room \in RoomIds
        BY <2>2, RoomsBound DEF Ind, TransInv
      <3>2. room[trans.room].plan = 0 /\ ~room[trans.room].opening
        BY <2>2, <1>5 DEF Ind, TransInv
      <3> QED
        BY <3>1, <3>2, <1>10 DEF PlanSame, OpeningSame
    <2> QED
      BY <1>5, <1>14, <2>1, <2>2, TransKept DEF Ind
  <1>22. MemberInv'
    BY <1>5, <1>10, <1>14, MemberKept DEF Ind
  <1>23. Given'
    BY <1>5, <1>10, GivenKept DEF Ind, PlanSame
  <1>24. TypeOK'
    BY <1>9, <1>19 DEF Ind, TypeOK, Fire, plans, people, chan, chat
  <1> QED
    BY <1>13, <1>15, <1>19, <1>20, <1>21, <1>22, <1>23, <1>24 DEF Ind

-----------------------------------------------------------------------------
(* Openings asked for.                                                     *)

\* An opening of room r is queued.
LEMMA OpenQueued ==
    ASSUME Ind, NEW r \in RoomIds, r \in 1 .. made', made' \in Nat, made' >= made, StillAwaited,
           ~room[r].opening, ~room[r].closing, lock' = Append(lock, Task("open", r)),
           \A q \in RoomIds : room'[q].opening = (room[q].opening \/ q = r),
           ClosingSame
    PROVE  QueueInv' /\ HeadSame /\ lock' \in Seq(LockTasks)
  <1>1. PICK t \in LockTasks : /\ lock' = Append(lock, t) /\ t.kind = "open" /\ t.room = r
                               /\ t.run = FALSE
    <2>1. "open" \in Kinds /\ r \in 0 .. MaxRooms
      BY RoomsBound DEF Ind, Kinds
    <2>2. /\ Task("open", r) \in LockTasks /\ Task("open", r).kind = "open"
          /\ Task("open", r).room = r /\ Task("open", r).run = FALSE
      BY <2>1, TaskType
    <2> QED
      BY <2>2
  <1>2. \A q \in RoomIds :
            /\ room'[q].opening = (room[q].opening \/ (t.kind = "open" /\ t.room = q))
            /\ room'[q].closing = (room[q].closing \/ (t.kind = "close" /\ t.room = q))
    <2> TAKE q \in RoomIds
    <2>1. room[q].opening \in BOOLEAN /\ room[q].closing \in BOOLEAN
      BY RoomFields DEF Ind, TypeOK
    <2> QED
      BY <2>1, <1>1 DEF ClosingSame
  <1>3. t.kind \notin Transitions
    BY <1>1 DEF Transitions
  <1>4. QueueInv'
    BY <1>1, <1>2, <1>3, QueueAppend DEF Ind
  <1>5. HeadSame
    BY <1>1, HeadAppend DEF Ind
  <1>6. lock' \in Seq(LockTasks)
    BY <1>1, AppendType DEF Ind
  <1> QED
    BY <1>4, <1>5, <1>6

\* What plan() does to the room it is asked for.
LEMMA PlanForFacts ==
    ASSUME Ind, NEW r \in 1 .. made, ~room[r].closing, NEW to, PlanFor(r, to),
           UNCHANGED <<made, current, plans>>, StillAwaited
    PROVE  /\ QueueInv' /\ PlanInv' /\ Stale'
           /\ room' \in [RoomIds -> RoomRecords] /\ lock' \in Seq(LockTasks)
           /\ MembersSame /\ PlanSame /\ ClosingSame /\ HoldsSame
           /\ deleting => OpeningSame /\ to.at = "failed"
           /\ ~deleting => to.at # "failed"
  <1>1. r \in RoomIds /\ made' \in Nat /\ made' >= made /\ r \in 1 .. made' /\ made \in Nat
    BY RoomsBound DEF Ind
  <1>2. /\ UNCHANGED made /\ UNCHANGED current /\ UNCHANGED live /\ UNCHANGED taken
    BY DEF plans
  <1>3. ASSUME UNCHANGED <<room, lock>>, deleting => to.at = "failed", ~deleting => to.at # "failed"
        PROVE  /\ QueueInv' /\ PlanInv' /\ Stale'
               /\ room' \in [RoomIds -> RoomRecords] /\ lock' \in Seq(LockTasks)
               /\ MembersSame /\ PlanSame /\ ClosingSame /\ HoldsSame
               /\ deleting => OpeningSame /\ to.at = "failed"
               /\ ~deleting => to.at # "failed"
    <2>1. UNCHANGED room /\ UNCHANGED lock
      BY <1>3
    <2>2. MembersSame /\ PlanSame /\ OpeningSame /\ ClosingSame /\ HoldsSame
      BY <2>1, RoomUnchanged
    <2>3. QueueInv'
      BY <1>1, <2>1, <2>2, QueueSame DEF Ind, ClosingSame
    <2>4. PlanInv'
      BY <1>2, <2>1, <2>2, HeadUnchanged, OwnersKept DEF Ind, OpeningSame, HoldsSame
    <2>5. Stale'
      BY <1>2, <2>1, StaleKept DEF Ind
    <2>6. room' \in [RoomIds -> RoomRecords] /\ lock' \in Seq(LockTasks)
      BY <2>1 DEF Ind, TypeOK
    <2> QED
      BY <1>3, <2>2, <2>3, <2>4, <2>5, <2>6
  <1>4. ASSUME ~deleting, ~room[r].opening, room[r].plan = 0, to.at = "opening",
               room' = [room EXCEPT ![r].opening = TRUE], lock' = Append(lock, Task("open", r))
        PROVE  /\ QueueInv' /\ PlanInv' /\ Stale'
               /\ room' \in [RoomIds -> RoomRecords] /\ lock' \in Seq(LockTasks)
               /\ MembersSame /\ PlanSame /\ ClosingSame /\ HoldsSame
               /\ deleting => OpeningSame /\ to.at = "failed"
               /\ ~deleting => to.at # "failed"
    <2>1. PICK x : x = [room[r] EXCEPT !.opening = TRUE]
      OBVIOUS
    <2>2. room[r] \in RoomRecords
      BY <1>1 DEF Ind, TypeOK
    <2>3. /\ x \in RoomRecords /\ x.members = room[r].members /\ x.plan = room[r].plan
          /\ x.opening = TRUE /\ x.holds = room[r].holds /\ x.closing = room[r].closing
          /\ x.timer = room[r].timer
      BY <2>1, <2>2 DEF RoomRecords
    <2>4. room' = [room EXCEPT ![r] = x]
      BY <1>4, <2>1
    <2>5. /\ room' \in [RoomIds -> RoomRecords] /\ room'[r] = x
          /\ \A q \in RoomIds : q # r => room'[q] = room[q]
      BY <1>1, <2>3, <2>4, RoomSet DEF Ind
    <2>6. MembersSame /\ PlanSame /\ ClosingSame /\ HoldsSame
      BY <2>3, <2>5 DEF MembersSame, PlanSame, ClosingSame, HoldsSame
    <2>7. \A q \in RoomIds : room'[q].opening = (room[q].opening \/ q = r)
      <3> TAKE q \in RoomIds
      <3>1. room[q].opening \in BOOLEAN
        BY RoomFields DEF Ind, TypeOK
      <3> QED
        BY <3>1, <2>3, <2>5
    <2>8. QueueInv' /\ HeadSame /\ lock' \in Seq(LockTasks)
      BY <1>1, <1>4, <2>6, <2>7, OpenQueued
    <2>9. PlanInv'
      <3>1. \A q \in RoomIds : room'[q].opening => room[q].opening \/ room[q].plan = 0
        BY <2>7, <1>4
      <3>2. \A q \in RoomIds : room[q].closing => (room'[q].opening => room[q].opening)
        BY <2>7
      <3> QED
        BY <1>2, <2>6, <2>8, <3>1, <3>2, OwnersKept DEF Ind, HoldsSame
    <2>10. Stale'
      <3>1. r # current => (room'[r].closing => room[r].closing /\ room'[r].plan = 0)
        BY <1>1, <1>4, <2>6 DEF PlanSame, ClosingSame
      <3> QED
        BY <1>2, <2>3, <2>5, <3>1, StaleTask DEF Ind
    <2> QED
      BY <1>4, <2>5, <2>6, <2>8, <2>9, <2>10
  <1>5. \/ UNCHANGED <<room, lock>> /\ (deleting => to.at = "failed") /\ (~deleting => to.at # "failed")
        \/ /\ ~deleting /\ ~room[r].opening /\ room[r].plan = 0 /\ to.at = "opening"
           /\ room' = [room EXCEPT ![r].opening = TRUE] /\ lock' = Append(lock, Task("open", r))
    BY DEF PlanFor
  <1> QED
    BY <1>3, <1>4, <1>5

\* A plan:open that waits, or ends.
LEMMA WaitType ==
    ASSUME NEW r \in 0 .. MaxRooms, NEW at \in Waits, NEW p \in Nat
    PROVE  /\ Wait(r, [at |-> at, plan |-> p]) \in Asks
           /\ \/ Wait(r, [at |-> at, plan |-> p]).at = "done"
              \/ Wait(r, [at |-> at, plan |-> p]).room = r
  <1>1. CASE at = "failed"
    <2>1. Wait(r, [at |-> at, plan |-> p]) = [NoAsk EXCEPT !.at = "done"]
      BY <1>1 DEF Wait
    <2>2. NoAsk \in Asks
      BY LoadAssumption DEF NoAsk, Asks
    <2> QED
      BY <2>1, <2>2 DEF NoAsk, Asks
  <1>2. CASE at # "failed"
    <2>1. Wait(r, [at |-> at, plan |-> p]) = [at |-> at, room |-> r, plan |-> p]
      BY <1>2 DEF Wait
    <2> QED
      BY <1>2, <2>1 DEF Asks, Waits
  <1> QED
    BY <1>1, <1>2

LEMMA AskedKeeps ==
    ASSUME Ind, NEW s \in Sockets, NEW r \in 1 .. made, ~room[r].closing,
           NEW at \in Waits, NEW p \in {0, room[r].plan},
           PlanFor(r, [at |-> at, plan |-> p]),
           ask' = [ask EXCEPT ![s] = Wait(r, [at |-> at, plan |-> p])],
           UNCHANGED <<made, current, plans, sock, shown, chan, chat, load>>
    PROVE  Ind'
  <1>1. /\ UNCHANGED made /\ UNCHANGED current /\ UNCHANGED live /\ UNCHANGED taken
        /\ UNCHANGED trans /\ UNCHANGED deleting /\ UNCHANGED sock /\ UNCHANGED shown
        /\ UNCHANGED plans
    BY DEF plans, chan
  <1>2. StillAwaited
    BY <1>1 DEF StillAwaited
  <1>3. PICK to : to = [at |-> at, plan |-> p]
    OBVIOUS
  <1>4. PlanFor(r, to)
    BY <1>3
  <1>5. /\ QueueInv' /\ PlanInv' /\ Stale'
        /\ room' \in [RoomIds -> RoomRecords] /\ lock' \in Seq(LockTasks)
        /\ MembersSame /\ PlanSame /\ ClosingSame /\ HoldsSame
        /\ deleting => OpeningSame
    BY <1>1, <1>2, <1>4, PlanForFacts
  <1>6. made' \in Nat /\ made' >= made /\ r \in 0 .. MaxRooms /\ r \in RoomIds /\ made \in Nat
    BY <1>1, RoomsBound DEF Ind
  <1>7. Held'
    BY <1>1, <1>5, HeldSame DEF Ind, ClosingSame
  <1>8. TransInv'
    <2>1. trans.kind = "work" /\ trans.at \in {"opened", "locked"}
               => room'[current].plan = room[current].plan
      BY <1>5, RoomsBound DEF Ind, TransInv, PlanSame
    <2>2. ASSUME trans.kind = "delete", trans.room \notin {0, current'}
          PROVE  room'[trans.room].plan = 0 /\ ~room'[trans.room].opening
      <3>1. trans.room \in RoomIds
        BY <2>2, RoomsBound DEF Ind, TransInv
      <3>2. room[trans.room].plan = 0 /\ ~room[trans.room].opening
        BY <2>2, <1>1 DEF Ind, TransInv
      <3>3. deleting
        BY <2>2 DEF Ind, TransInv
      <3> QED
        BY <3>1, <3>2, <3>3, <1>5 DEF PlanSame, OpeningSame
    <2> QED
      BY <1>1, <1>6, <2>1, <2>2, TransKept DEF Ind
  <1>9. p \in Nat
    BY <1>6, RoomFields DEF Ind, TypeOK
  <1>10. PICK w \in Asks : /\ w = Wait(r, [at |-> at, plan |-> p])
                           /\ w.at = "done" \/ w.room = r
    BY <1>6, <1>9, WaitType
  <1>11. ask' = [ask EXCEPT ![s] = w] /\ ask \in [Sockets -> Asks]
    BY <1>10 DEF Ind, TypeOK
  <1>12. ask' \in [Sockets -> Asks]
    BY <1>11
  <1>13. MemberInv'
    <2>1. \A t \in Sockets : ask'[t] = ask[t] \/ ask'[t].at \in {"none", "done"}
                             \/ ask'[t].room \in 1 .. made'
      BY <1>1, <1>10, <1>11
    <2> QED
      BY <1>1, <1>5, <1>6, <2>1, MemberKept DEF Ind
  <1>14. Given'
    BY <1>1, <1>5, GivenKept DEF Ind, PlanSame
  <1>15. TypeOK'
    BY <1>5, <1>12 DEF Ind, TypeOK, plans, chan, chat
  <1> QED
    BY <1>5, <1>7, <1>8, <1>13, <1>14, <1>15 DEF Ind

\* A plan:open changes nothing else.
LEMMA AskMoves ==
    ASSUME Ind, UNCHANGED <<map, lock, plans, sock, chan, chat, load>>,
           ask' \in [Sockets -> Asks],
           \A s \in Sockets : ask'[s] = ask[s] \/ ask'[s].at \in {"none", "done"}
                              \/ ask'[s].room \in 1 .. made,
           shown' \in [Sockets -> Nat], \A s \in Sockets : sock[s] = "new" => shown'[s] = shown[s],
           Given'
    PROVE  Ind'
  <1>1. /\ UNCHANGED room /\ UNCHANGED made /\ UNCHANGED current /\ UNCHANGED live /\ UNCHANGED taken
        /\ UNCHANGED trans /\ UNCHANGED deleting /\ UNCHANGED sock /\ UNCHANGED lock
    BY DEF map, plans, chan
  <1>2. MembersSame /\ PlanSame /\ OpeningSame /\ ClosingSame /\ HoldsSame
    BY <1>1, RoomUnchanged
  <1>3. made' \in Nat /\ made' >= made
    BY <1>1, RoomsBound DEF Ind
  <1>4. StillAwaited
    BY <1>1 DEF StillAwaited
  <1>5. QueueInv'
    BY <1>1, <1>2, <1>3, <1>4, QueueSame DEF Ind, ClosingSame
  <1>6. PlanInv'
    BY <1>1, <1>2, HeadUnchanged, OwnersKept DEF Ind, OpeningSame, HoldsSame
  <1>7. Stale'
    BY <1>1, StaleKept DEF Ind
  <1>8. Held'
    BY <1>1, <1>2, HeldSame DEF Ind
  <1>9. TransInv'
    <2>1. trans.kind = "delete" /\ trans.room \notin {0, current}
               => room[trans.room].plan = 0 /\ ~room[trans.room].opening
      BY DEF Ind, TransInv
    <2> QED
      BY <1>1, <1>3, <2>1, TransKept DEF Ind
  <1>10. MemberInv'
    BY <1>1, <1>2, <1>3, MemberKept DEF Ind
  <1>11. TypeOK'
    BY DEF Ind, TypeOK, map, plans, chan, chat
  <1> QED
    BY <1>5, <1>6, <1>7, <1>8, <1>9, <1>10, <1>11 DEF Ind

LEMMA AskKeeps == ASSUME Ind, NEW s \in Sockets, Ask(s) PROVE Ind'
  <1>1. current # 0 /\ current \in RoomIds /\ current \in 1 .. made /\ current \in 0 .. MaxRooms
    BY RoomsBound DEF Ind, Ask
  <1>2. CASE room[current].closing
    <2>1. /\ ask' = [ask EXCEPT ![s] = [at |-> "closing", room |-> current, plan |-> 0]]
          /\ UNCHANGED <<map, lock, plans, sock, shown, chan, chat, load>>
      BY <1>2 DEF Ask, map
    <2>2. PICK w : w = [at |-> "closing", room |-> current, plan |-> 0]
      OBVIOUS
    <2>3. w \in Asks /\ w.room = current
      BY <1>1, <2>2 DEF Asks
    <2>4. ask' = [ask EXCEPT ![s] = w] /\ ask \in [Sockets -> Asks]
      BY <2>1, <2>2 DEF Ind, TypeOK
    <2>5. /\ ask' \in [Sockets -> Asks]
          /\ \A t \in Sockets : ask'[t] = ask[t] \/ ask'[t].room \in 1 .. made
      BY <1>1, <2>3, <2>4
    <2>6. shown' \in [Sockets -> Nat] /\ \A t \in Sockets : sock[t] = "new" => shown'[t] = shown[t]
      BY <2>1 DEF Ind, TypeOK
    <2>7. Given'
      BY <2>1 DEF Ind, Given, map, plans
    <2> QED
      BY <2>1, <2>5, <2>6, <2>7, AskMoves
  <1>3. CASE ~room[current].closing
    <2>1. PICK at \in Waits, p \in {0, room[current].plan} :
             /\ PlanFor(current, [at |-> at, plan |-> p])
             /\ ask' = [ask EXCEPT ![s] = Wait(current, [at |-> at, plan |-> p])]
      BY <1>3 DEF Ask
    <2>2. UNCHANGED <<made, current, plans, sock, shown, chan, chat, load>>
      BY DEF Ask
    <2> QED
      BY <1>1, <1>3, <2>1, <2>2, AskedKeeps
  <1> QED
    BY <1>2, <1>3

LEMMA AskAgainKeeps == ASSUME Ind, NEW s \in Sockets, AskAgain(s) PROVE Ind'
  <1>1. PICK r : r = ask[s].room
    OBVIOUS
  <1>2. ask[s].at = "closing" /\ ~room[r].closing
    BY <1>1 DEF AskAgain
  <1>3. r \in 1 .. made
    BY <1>1, <1>2 DEF Ind, MemberInv
  <1>4. PICK at \in Waits, p \in {0, room[r].plan} :
           /\ PlanFor(r, [at |-> at, plan |-> p])
           /\ ask' = [ask EXCEPT ![s] = Wait(r, [at |-> at, plan |-> p])]
    BY <1>1 DEF AskAgain
  <1>5. UNCHANGED <<made, current, plans, sock, shown, chan, chat, load>>
    BY DEF AskAgain
  <1> QED
    BY <1>2, <1>3, <1>4, <1>5, AskedKeeps

LEMMA GreetKeeps == ASSUME Ind, NEW s \in Sockets, Greet(s) PROVE Ind'
  <1>1. PICK r : r = ask[s].room
    OBVIOUS
  <1>2. PICK w : w = [NoAsk EXCEPT !.at = "done"]
    OBVIOUS
  <1>3. w \in Asks /\ w.at = "done"
    <2>1. NoAsk \in Asks
      BY RoomsBound DEF Ind, NoAsk, Asks
    <2> QED
      BY <1>2, <2>1 DEF NoAsk, Asks
  <1>4. ask' = [ask EXCEPT ![s] = w] /\ ask \in [Sockets -> Asks]
    BY <1>2 DEF Greet, Ind, TypeOK
  <1>5. /\ ask' \in [Sockets -> Asks]
        /\ \A t \in Sockets : ask'[t] = ask[t] \/ ask'[t].at \in {"none", "done"}
    BY <1>3, <1>4
  <1>6. \/ UNCHANGED shown
        \/ /\ current = r /\ room[r].plan = ask[s].plan /\ sock[s] = "in"
           /\ shown' = [shown EXCEPT ![s] = ask[s].plan]
    BY <1>1 DEF Greet
  <1>7. ask[s].plan \in Nat
    BY <1>4 DEF Asks
  <1>8. shown' \in [Sockets -> Nat] /\ \A t \in Sockets : sock[t] = "new" => shown'[t] = shown[t]
    BY <1>6, <1>7 DEF Ind, TypeOK
  <1>9. UNCHANGED <<map, lock, plans, sock, chan, chat, load>>
    BY DEF Greet
  <1>10. Given'
    <2>1. \A t \in Sockets : shown'[t] = shown[t] \/ (t = s /\ shown'[t] = room[current].plan)
      BY <1>6, <1>7 DEF Ind, TypeOK
    <2>2. /\ UNCHANGED current /\ UNCHANGED room /\ UNCHANGED sock /\ UNCHANGED taken
      BY <1>9 DEF map, plans
    <2> QED
      BY <2>1, <2>2 DEF Ind, Given
  <1> QED
    BY <1>5, <1>8, <1>9, <1>10, AskMoves

LEMMA ReopenPlanKeeps == ASSUME Ind, ReopenPlan PROVE Ind'
  <1>1. PICK r : r = trans.room
    OBVIOUS
  <1>2. trans.kind = "reopen" /\ trans.at = "closing" /\ ~room[r].closing
    BY <1>1 DEF ReopenPlan
  <1>3. r \in 1 .. made /\ deleting = FALSE
    BY <1>1, <1>2 DEF Ind, TransInv
  <1>4. PICK at \in Waits, p \in {0, room[r].plan} :
           /\ PlanFor(r, [at |-> at, plan |-> p])
           /\ trans' = [trans EXCEPT !.at = at, !.plan = p]
    BY <1>1 DEF ReopenPlan
  <1>5. PICK to : to = [at |-> at, plan |-> p]
    OBVIOUS
  <1>6. /\ UNCHANGED made /\ UNCHANGED current /\ UNCHANGED live /\ UNCHANGED taken
        /\ UNCHANGED deleting /\ UNCHANGED sock /\ UNCHANGED shown /\ UNCHANGED ask
        /\ UNCHANGED plans
    BY DEF ReopenPlan, plans, people
  <1>7. r \in RoomIds /\ made' \in Nat /\ made' >= made
    BY <1>3, <1>6, RoomsBound DEF Ind
  <1>8. p \in Nat
    BY <1>7, RoomFields DEF Ind, TypeOK
  <1>9. StillAwaited
    BY <1>2 DEF StillAwaited, Transitions
  <1>10. /\ QueueInv' /\ PlanInv' /\ Stale'
         /\ room' \in [RoomIds -> RoomRecords] /\ lock' \in Seq(LockTasks)
         /\ MembersSame /\ PlanSame /\ ClosingSame /\ HoldsSame
         /\ to.at # "failed"
    <2>1. PlanFor(r, to)
      BY <1>4, <1>5
    <2>2. UNCHANGED <<made, current, plans>> /\ ~deleting
      BY <1>3, <1>6
    <2> QED
      BY <1>2, <1>3, <1>9, <2>1, <2>2, PlanForFacts
  <1>11. at \in {"opening", "opened"}
    BY <1>5, <1>10 DEF Waits
  <1>12. trans \in Transits
    BY DEF Ind, TypeOK
  <1>13. /\ trans' \in Transits /\ trans'.kind = "reopen" /\ trans'.at = at /\ trans'.room = r
    BY <1>1, <1>2, <1>4, <1>8, <1>11, <1>12 DEF Transits
  <1>14. TransInv'
    BY <1>3, <1>6, <1>11, <1>13 DEF TransInv
  <1>15. Held'
    <2>1. \A q \in RoomIds : Holding(q)' <=> Holding(q)
      BY <1>2, <1>13 DEF Holding
    <2> QED
      BY <1>10, <2>1, HeldKept DEF Ind, ClosingSame
  <1>16. MemberInv'
    BY <1>6, <1>7, <1>10, MemberKept DEF Ind
  <1>17. Given'
    BY <1>6, <1>10, GivenKept DEF Ind, PlanSame
  <1>18. TypeOK'
    BY <1>10, <1>13 DEF Ind, TypeOK, ReopenPlan, plans, people, chat
  <1> QED
    BY <1>10, <1>14, <1>15, <1>16, <1>17, <1>18 DEF Ind

-----------------------------------------------------------------------------
(* Work holds its room.                                                    *)

LEMMA HoldFacts ==
    ASSUME Ind, HoldPlan
    PROVE  /\ Opened \in RoomIds
           /\ made' = (IF current = 0 THEN made + 1 ELSE made) /\ current' = Opened
           /\ room' \in [RoomIds -> RoomRecords]
           /\ \A q \in RoomIds : q # Opened => room'[q] = room[q]
           /\ room'[Opened].holds = room[Opened].holds + 1
           /\ MembersSame /\ PlanSame /\ ClosingSame
           /\ \/ OpeningSame /\ UNCHANGED lock
              \/ /\ ~room[Opened].opening /\ room[Opened].plan = 0
                 /\ \A q \in RoomIds : room'[q].opening = (room[q].opening \/ q = Opened)
                 /\ lock' = Append(lock, Task("open", Opened))
           /\ trans'.kind = "work" /\ trans'.room = Opened /\ trans' \in Transits
           /\ \/ trans'.at = "opening"
              \/ trans'.at = "opened" /\ trans'.plan # 0 /\ trans'.plan = room[Opened].plan
  <1>1. PICK r : r = Opened
    OBVIOUS
  <1>2. PICK x : x = [room[r] EXCEPT !.timer = "none", !.holds = @ + 1]
    OBVIOUS
  <1>3. PICK opens : opens = (~x.opening /\ x.plan = 0)
    OBVIOUS
  <1>4. PICK y : y = [x EXCEPT !.opening = x.opening \/ opens]
    OBVIOUS
  <1>5. /\ r \in RoomIds
        /\ room' = [room EXCEPT ![r] = y]
        /\ lock' = IF opens THEN Append(lock, Task("open", r)) ELSE lock
        /\ made' = (IF current = 0 THEN made + 1 ELSE made) /\ current' = r
        /\ trans' = [kind |-> "work", room |-> r, plan |-> IF x.opening THEN 0 ELSE x.plan,
                     at |-> IF x.opening \/ opens THEN "opening" ELSE "opened"]
    <2>1. r \in RoomIds /\ made' = (IF current = 0 THEN made + 1 ELSE made) /\ current' = r
      BY <1>1 DEF HoldPlan
    <2>2. room' = [room EXCEPT ![r] = y]
      BY <1>1, <1>2, <1>3, <1>4 DEF HoldPlan
    <2>3. lock' = IF opens THEN Append(lock, Task("open", r)) ELSE lock
      BY <1>1, <1>2, <1>3 DEF HoldPlan
    <2>4. trans' = [kind |-> "work", room |-> r, plan |-> IF x.opening THEN 0 ELSE x.plan,
                    at |-> IF x.opening \/ opens THEN "opening" ELSE "opened"]
      <3>1. trans' = [kind |-> "work", room |-> r, plan |-> IF x.opening THEN 0 ELSE x.plan,
                      at |-> IF x.opening \/ (~x.opening /\ x.plan = 0) THEN "opening" ELSE "opened"]
        BY <1>1, <1>2 DEF HoldPlan
      <3> QED
        BY <3>1, <1>3
    <2> QED
      BY <2>1, <2>2, <2>3, <2>4
  <1>6. room[r] \in RoomRecords
    BY <1>5 DEF Ind, TypeOK
  <1>7. /\ x \in RoomRecords /\ x.members = room[r].members /\ x.plan = room[r].plan
        /\ x.opening = room[r].opening /\ x.closing = room[r].closing
        /\ x.holds = room[r].holds + 1
    <2>1. PICK n \in Nat : n = room[r].holds + 1
      BY <1>6, RoomFields
    <2>2. x = [room[r] EXCEPT !.timer = "none", !.holds = n]
      BY <1>2, <2>1
    <2> QED
      BY <1>6, <2>1, <2>2 DEF RoomRecords
  <1>8. opens \in BOOLEAN /\ x.opening \in BOOLEAN /\ x.plan \in Nat
    BY <1>3, <1>7, RoomFields
  <1>9. /\ y \in RoomRecords /\ y.members = x.members /\ y.plan = x.plan
        /\ y.opening = (x.opening \/ opens) /\ y.closing = x.closing /\ y.holds = x.holds
    BY <1>4, <1>7, <1>8 DEF RoomRecords
  <1>10. /\ room' \in [RoomIds -> RoomRecords] /\ room'[r] = y
         /\ \A q \in RoomIds : q # r => room'[q] = room[q]
    BY <1>5, <1>9, RoomSet DEF Ind
  <1>11. MembersSame /\ PlanSame /\ ClosingSame
    BY <1>7, <1>9, <1>10 DEF MembersSame, PlanSame, ClosingSame
  <1>12. \/ OpeningSame /\ UNCHANGED lock
         \/ /\ ~room[r].opening /\ room[r].plan = 0
            /\ \A q \in RoomIds : room'[q].opening = (room[q].opening \/ q = r)
            /\ lock' = Append(lock, Task("open", r))
    <2>1. CASE ~opens
      <3>1. y.opening = room[r].opening
        BY <2>1, <1>7, <1>8, <1>9
      <3> QED
        BY <2>1, <3>1, <1>5, <1>10 DEF OpeningSame
    <2>2. CASE opens
      <3>1. y.opening = TRUE /\ ~room[r].opening /\ room[r].plan = 0
        BY <2>2, <1>3, <1>7, <1>9
      <3>2. \A q \in RoomIds : room'[q].opening = (room[q].opening \/ q = r)
        <4> TAKE q \in RoomIds
        <4>1. room[q].opening \in BOOLEAN
          BY RoomFields DEF Ind, TypeOK
        <4> QED
          BY <4>1, <3>1, <1>10
      <3> QED
        BY <2>2, <3>1, <3>2, <1>5
    <2> QED
      BY <2>1, <2>2
  <1>13. /\ trans'.kind = "work" /\ trans'.room = r /\ trans' \in Transits
    <2>1. r \in 0 .. MaxRooms
      BY <1>5, RoomsBound DEF Ind
    <2> QED
      BY <1>5, <1>8, <2>1 DEF Transits
  <1>14. \/ trans'.at = "opening"
         \/ trans'.at = "opened" /\ trans'.plan # 0 /\ trans'.plan = room[r].plan
    <2>1. CASE x.opening \/ opens
      BY <2>1, <1>5
    <2>2. CASE ~(x.opening \/ opens)
      BY <2>2, <1>3, <1>5, <1>7
    <2> QED
      BY <2>1, <2>2
  <1>15. room'[r].holds = room[r].holds + 1
    BY <1>7, <1>9, <1>10
  <1> QED
    BY <1>1, <1>5, <1>10, <1>11, <1>12, <1>13, <1>14, <1>15

LEMMA HoldKeeps ==
    ASSUME Ind, HoldPlan, trans.kind \in {"none", "work"}, trans.at \in {"none", "closing"},
           current # 0 => ~room[current].closing,
           load' \in LoadRecords, UNCHANGED <<plans, people, archiving, deleting, row, chat>>
    PROVE  Ind'
  <1>1. /\ Opened \in RoomIds
        /\ made' = (IF current = 0 THEN made + 1 ELSE made) /\ current' = Opened
        /\ room' \in [RoomIds -> RoomRecords]
        /\ \A q \in RoomIds : q # Opened => room'[q] = room[q]
        /\ room'[Opened].holds = room[Opened].holds + 1
        /\ MembersSame /\ PlanSame /\ ClosingSame
        /\ \/ OpeningSame /\ UNCHANGED lock
           \/ /\ ~room[Opened].opening /\ room[Opened].plan = 0
              /\ \A q \in RoomIds : room'[q].opening = (room[q].opening \/ q = Opened)
              /\ lock' = Append(lock, Task("open", Opened))
        /\ trans'.kind = "work" /\ trans'.room = Opened /\ trans' \in Transits
        /\ \/ trans'.at = "opening"
           \/ trans'.at = "opened" /\ trans'.plan # 0 /\ trans'.plan = room[Opened].plan
    BY HoldFacts
  <1>2. /\ UNCHANGED live /\ UNCHANGED taken /\ UNCHANGED deleting /\ UNCHANGED sock
        /\ UNCHANGED ask /\ UNCHANGED shown
    BY DEF plans, people
  <1>3. /\ Opened \notin taken.rooms /\ (current = 0 => room[Opened] = Empty)
        /\ current # 0 => Opened = current
    BY <1>1, OpenedFacts DEF Ind
  <1>4. Stale' /\ made' \in Nat /\ made' >= made /\ Opened \in 1 .. made'
    BY <1>1, <1>2, StaleOpened DEF Ind
  <1>5. ~room[Opened].closing
    BY <1>3, EmptyFields
  <1>6. StillAwaited
    BY DEF StillAwaited
  <1>7. QueueInv' /\ HeadSame /\ lock' \in Seq(LockTasks)
    <2>1. ASSUME OpeningSame, UNCHANGED lock PROVE QueueInv' /\ HeadSame /\ lock' \in Seq(LockTasks)
      <3>1. QueueInv'
        BY <2>1, <1>1, <1>4, <1>6, QueueSame DEF Ind, ClosingSame
      <3>2. HeadSame /\ lock' \in Seq(LockTasks)
        BY <2>1, HeadUnchanged DEF Ind, TypeOK
      <3> QED
        BY <3>1, <3>2
    <2>2. ASSUME ~room[Opened].opening,
                 \A q \in RoomIds : room'[q].opening = (room[q].opening \/ q = Opened),
                 lock' = Append(lock, Task("open", Opened))
          PROVE  QueueInv' /\ HeadSame /\ lock' \in Seq(LockTasks)
      BY <2>2, <1>1, <1>4, <1>5, <1>6, OpenQueued
    <2> QED
      BY <1>1, <2>1, <2>2
  <1>8. \A q \in RoomIds : Holding(q)' <=> q = Opened
    BY <1>1 DEF Holding
  <1>9. \A q \in RoomIds : room[q].holds = 0
    BY DEF Ind, Held, HoldInv
  <1>10. Held'
    <2> SUFFICES ASSUME NEW q \in RoomIds PROVE HoldInv(q)'
      BY DEF Held
    <2>1. room'[q].holds = IF q = Opened THEN 1 ELSE 0
      BY <1>1, <1>9
    <2>2. q = Opened => ~room'[q].closing
      BY <1>1, <1>5 DEF ClosingSame
    <2>3. Holding(q)' <=> q = Opened
      BY <1>8
    <2>4. room'[q].holds = IF Holding(q)' THEN 1 ELSE 0
      BY <2>1, <2>3
    <2>5. room'[q].holds > 0 => ~room'[q].closing
      BY <2>1, <2>2
    <2> QED
      BY <2>4, <2>5 DEF HoldInv, Holding
  <1>11. PlanInv'
    <2>1. current' = current \/ CurrentPlan' = 0
      BY <1>1, CurrentOpened DEF Ind, PlanSame
    <2>2. \A q \in RoomIds : room'[q].opening => room[q].opening \/ room[q].plan = 0
      BY <1>1 DEF OpeningSame
    <2>3. \A q \in RoomIds : room[q].closing => /\ room'[q].opening => room[q].opening
                                                /\ room[q].holds = 0 => room'[q].holds = 0
      BY <1>1, <1>5 DEF OpeningSame
    <2> QED
      BY <1>1, <1>2, <1>7, <2>1, <2>2, <2>3, OwnersKept DEF Ind
  <1>12. TransInv'
    <2>1. deleting = FALSE
      BY DEF Ind, TransInv
    <2>2. trans'.at = "opened" => trans'.plan # 0 /\ trans'.plan = room'[current'].plan
      BY <1>1 DEF PlanSame
    <2> QED
      BY <1>1, <1>2, <1>4, <2>1, <2>2 DEF TransInv
  <1>13. MemberInv'
    BY <1>1, <1>2, <1>4, MemberKept DEF Ind
  <1>14. Given'
    <2> SUFFICES ASSUME NEW t \in Sockets, sock[t] = "in", room'[Opened].members[ClientOf[t]] = t,
                        shown[t] # 0, shown[t] \notin taken.plans
                 PROVE  room'[Opened].plan = shown[t]
      BY <1>1, <1>2 DEF Given
    <2>1. room[Opened].members[ClientOf[t]] = t
      BY <1>1 DEF MembersSame
    <2>2. ClientOf[t] \in Clients /\ t # NoSocket
      BY SocketAssumption
    <2>3. current # 0 /\ Opened = current
      BY <1>3, <2>1, <2>2, EmptyFields
    <2>4. room[current].plan = shown[t]
      BY <2>1, <2>3 DEF Ind, Given
    <2> QED
      BY <1>1, <2>3, <2>4 DEF PlanSame
  <1>15. TypeOK'
    <2>1. current' \in 0 .. made' /\ made' \in 0 .. MaxRooms
      BY <1>1, <1>3, <1>4, OpenedFacts, RoomsBound DEF Ind
    <2> QED
      BY <1>1, <1>7, <2>1 DEF Ind, TypeOK, plans, people, chat
  <1> QED
    BY <1>4, <1>7, <1>10, <1>11, <1>12, <1>13, <1>14, <1>15 DEF Ind

LEMMA WorkKeeps == ASSUME Ind, Work PROVE Ind'
  <1>1. MayBegin /\ UNCHANGED <<plans, people, archiving, deleting, row, chat>>
    BY DEF Work
  <1>2. trans.kind = "none" /\ trans.at = "none" /\ load' \in LoadRecords
    BY <1>1, NoTransFields, SpendType DEF Ind, MayBegin
  <1>3. CASE CurrentCloses
    BY <1>1, <1>3, WorkWaits DEF Work
  <1>4. CASE ~CurrentCloses
    <2>1. HoldPlan
      BY <1>4 DEF Work
    <2>2. current # 0 => ~room[current].closing
      BY <1>4 DEF CurrentCloses
    <2> QED
      BY <1>1, <1>2, <2>1, <2>2, HoldKeeps
  <1> QED
    BY <1>3, <1>4

LEMMA WorkHeldKeeps == ASSUME Ind, WorkHeld PROVE Ind'
  <1>1. /\ trans.kind = "work" /\ trans.at = "closing" /\ ~room[trans.room].closing
        /\ HoldPlan /\ UNCHANGED <<plans, people, archiving, deleting, row, chat>>
        /\ UNCHANGED load
    BY DEF WorkHeld
  <1>2. current # 0 => ~room[current].closing
    BY <1>1 DEF Ind, TransInv
  <1>3. load' \in LoadRecords
    BY <1>1 DEF Ind, TypeOK
  <1> QED
    BY <1>1, <1>2, <1>3, HoldKeeps

LEMMA WorkEndsKeeps ==
    ASSUME Ind, WorkDone PROVE Ind'
  <1>1. /\ trans.kind = "work" /\ trans.at \in {"opened", "release"} /\ trans' = NoTrans
    BY DEF WorkDone
  <1>2. /\ UNCHANGED made /\ UNCHANGED current /\ UNCHANGED lock /\ UNCHANGED live
        /\ UNCHANGED taken /\ UNCHANGED deleting /\ UNCHANGED sock /\ UNCHANGED ask
        /\ UNCHANGED shown
    BY DEF WorkDone, plans, people
  <1>3. trans.room = current /\ current \in RoomIds /\ current \in 1 .. made
    BY <1>1, RoomsBound DEF Ind, TransInv
  <1>4. PICK z \in RoomRecords : z = room[current]
    BY <1>3 DEF Ind, TypeOK
  <1>5. z.holds = 1 /\ ~z.closing
    BY <1>1, <1>3, <1>4 DEF Ind, Held, HoldInv
  <1>6. PICK y : y = [z EXCEPT !.holds = @ - 1]
    OBVIOUS
  <1>7. /\ y \in RoomRecords /\ y.members = z.members /\ y.plan = z.plan /\ y.holds = 0
        /\ y.opening = z.opening /\ y.closing = z.closing
    <2>1. y = [z EXCEPT !.holds = 0]
      BY <1>5, <1>6
    <2> QED
      BY <1>4, <2>1 DEF RoomRecords
  <1>8. PICK x : x = Evict(y)
    OBVIOUS
  <1>9. /\ x \in RoomRecords /\ x.members = z.members /\ x.plan = z.plan /\ x.holds = 0
        /\ x.opening = z.opening /\ x.closing = z.closing
    BY <1>7, <1>8, EvictFields
  <1>10. room' = [room EXCEPT ![current] = x]
    <2>1. y = [room[trans.room] EXCEPT !.holds = @ - 1]
      BY <1>3, <1>4, <1>6
    <2> QED
      BY <1>3, <1>8, <2>1 DEF WorkDone
  <1>11. /\ room' \in [RoomIds -> RoomRecords] /\ room'[current] = x
         /\ \A q \in RoomIds : q # current => room'[q] = room[q]
    BY <1>3, <1>9, <1>10, RoomSet DEF Ind
  <1>12. PlanSame /\ OpeningSame /\ ClosingSame /\ MembersSame
    BY <1>4, <1>9, <1>11 DEF PlanSame, OpeningSame, ClosingSame, MembersSame
  <1>13. made' \in Nat /\ made' >= made
    BY <1>2, RoomsBound DEF Ind
  <1>14. Stale'
    BY <1>2, <1>11, StaleKept DEF Ind
  <1>15. StillAwaited
    BY <1>1 DEF StillAwaited
  <1>16. QueueInv'
    BY <1>2, <1>12, <1>13, <1>15, QueueSame DEF Ind, ClosingSame
  <1>17. PlanInv'
    <2>1. \A q \in RoomIds : room[q].holds = 0 => room'[q].holds = 0
      BY <1>9, <1>11
    <2> QED
      BY <1>2, <1>12, <2>1, HeadUnchanged, OwnersKept DEF Ind, OpeningSame
  <1>18. deleting' = FALSE
    BY <1>1, <1>2 DEF Ind, TransInv
  <1>19. TransInv' /\ \A r : ~Holding(r)'
    BY <1>1, <1>18, TransOver
  <1>20. Held'
    <2> SUFFICES ASSUME NEW q \in RoomIds PROVE HoldInv(q)'
      BY DEF Held
    <2>1. room'[q].holds = 0
      BY <1>1, <1>3, <1>9, <1>11 DEF Ind, Held, HoldInv
    <2>2. ~Holding(q)'
      BY <1>19
    <2> QED
      BY <2>1, <2>2 DEF HoldInv, Holding
  <1>21. MemberInv'
    BY <1>2, <1>12, <1>13, MemberKept DEF Ind
  <1>22. Given'
    BY <1>2, <1>12, GivenKept DEF Ind, PlanSame
  <1>23. trans' \in Transits
    BY <1>1, RoomsBound, NoTransFields DEF Ind
  <1>24. TypeOK'
    BY <1>11, <1>23 DEF Ind, TypeOK, WorkDone, plans, people, chat
  <1> QED
    BY <1>14, <1>16, <1>17, <1>19, <1>20, <1>21, <1>22, <1>24 DEF Ind

-----------------------------------------------------------------------------
(* The tasks that open a document.                                         *)

LEMMA SettleFacts ==
    ASSUME Ind, NEW r \in 1 .. made, NEW p \in Nat, SettleOpening(r, p)
    PROVE  /\ ask' \in [Sockets -> Asks]
           /\ \A s \in Sockets : ask'[s] = ask[s] \/ ask'[s].at \in {"none", "done"}
                                 \/ ask'[s].room \in 1 .. made
           /\ trans' \in Transits /\ StillAwaited
           /\ \A q \in RoomIds : Holding(q)' <=> Holding(q)
           /\ UNCHANGED sock /\ UNCHANGED shown /\ UNCHANGED archiving /\ UNCHANGED deleting
           /\ UNCHANGED row
           /\ \/ trans' = trans
              \/ /\ trans.at = "opening" /\ trans.room = r /\ trans'.kind = trans.kind
                 /\ trans'.room = r /\ trans'.plan = p
                 /\ \/ p = 0 /\ trans'.at = "release"
                    \/ p # 0 /\ trans'.at = "opened"
  <1>1. PICK at : at = IF p = 0 THEN "failed" ELSE "opened"
    OBVIOUS
  <1>2. PICK w : w = Wait(r, [at |-> at, plan |-> p])
    OBVIOUS
  <1>3. r \in 0 .. MaxRooms /\ at \in Waits
    BY <1>1, RoomsBound DEF Ind, Waits
  <1>4. w \in Asks /\ (w.at = "done" \/ w.room = r)
    BY <1>2, <1>3, WaitType
  <1>5. ask' = [s \in Sockets |-> IF ask[s].at = "opening" /\ ask[s].room = r THEN w ELSE ask[s]]
    BY <1>1, <1>2 DEF SettleOpening
  <1>6. ask \in [Sockets -> Asks] /\ trans \in Transits
    BY DEF Ind, TypeOK
  <1>7. ask' \in [Sockets -> Asks]
    BY <1>4, <1>5, <1>6
  <1>8. \A s \in Sockets : ask'[s] = ask[s] \/ ask'[s].at \in {"none", "done"}
                           \/ ask'[s].room \in 1 .. made
    BY <1>4, <1>5
  <1>9. UNCHANGED sock /\ UNCHANGED shown /\ UNCHANGED archiving /\ UNCHANGED deleting /\ UNCHANGED row
    BY DEF SettleOpening
  <1>10. \/ trans' = trans
         \/ /\ trans.at = "opening" /\ trans.room = r
            /\ trans' = [trans EXCEPT !.at = IF p = 0 THEN "release" ELSE "opened", !.plan = p]
    BY DEF SettleOpening
  <1>11. ASSUME trans' = trans
         PROVE  trans' \in Transits /\ StillAwaited /\ \A q \in RoomIds : Holding(q)' <=> Holding(q)
    BY <1>6, <1>11 DEF StillAwaited, Holding
  <1>12. ASSUME trans.at = "opening", trans.room = r,
                trans' = [trans EXCEPT !.at = IF p = 0 THEN "release" ELSE "opened", !.plan = p]
         PROVE  /\ trans' \in Transits /\ StillAwaited
                /\ \A q \in RoomIds : Holding(q)' <=> Holding(q)
                /\ trans'.kind = trans.kind /\ trans'.room = r /\ trans'.plan = p
                /\ \/ p = 0 /\ trans'.at = "release"
                   \/ p # 0 /\ trans'.at = "opened"
    <2>1. /\ trans' \in Transits /\ trans'.kind = trans.kind /\ trans'.room = r /\ trans'.plan = p
          /\ trans'.at = IF p = 0 THEN "release" ELSE "opened"
      BY <1>6, <1>12 DEF Transits
    <2>2. StillAwaited
      BY <1>12 DEF StillAwaited
    <2>3. \A q \in RoomIds : Holding(q)' <=> Holding(q)
      BY <1>12, <2>1 DEF Holding
    <2> QED
      BY <2>1, <2>2, <2>3
  <1> QED
    BY <1>7, <1>8, <1>9, <1>10, <1>11, <1>12

LEMMA TransSettled ==
    ASSUME Ind, NEW r \in 1 .. made, NEW p \in Nat, SettleOpening(r, p),
           UNCHANGED <<made, current, taken>>,
           p # 0 => room'[r].plan = p,
           current # 0 /\ room[current].plan # 0 => room'[current].plan = room[current].plan,
           trans.kind = "delete" /\ trans.room \notin {0, current}
               => room'[trans.room].plan = 0 /\ ~room'[trans.room].opening
    PROVE  TransInv'
  <1>1. /\ UNCHANGED made /\ UNCHANGED current /\ UNCHANGED taken
        /\ UNCHANGED deleting
        /\ \/ trans' = trans
           \/ /\ trans.at = "opening" /\ trans.room = r /\ trans'.kind = trans.kind
              /\ trans'.room = r /\ trans'.plan = p
              /\ \/ p = 0 /\ trans'.at = "release"
                 \/ p # 0 /\ trans'.at = "opened"
    BY SettleFacts
  <1>2. made' \in Nat /\ made' >= made
    BY <1>1, RoomsBound DEF Ind
  <1>3. CASE trans' = trans
    <2>1. trans.kind = "work" /\ trans.at \in {"opened", "locked"}
               => room'[current].plan = room[current].plan
      BY RoomsBound DEF Ind, TransInv
    <2> QED
      BY <1>1, <1>2, <1>3, <2>1, TransKept DEF Ind
  <1>4. ASSUME trans.at = "opening", trans.room = r, trans'.kind = trans.kind,
               trans'.room = r, trans'.plan = p,
               \/ p = 0 /\ trans'.at = "release"
               \/ p # 0 /\ trans'.at = "opened"
        PROVE  TransInv'
    <2>1. trans.kind \in {"work", "reopen"}
      BY <1>4 DEF Ind, TransInv, NoTrans, TypeOK, Transits
    <2>2. trans.kind = "work" => r = current
      BY <1>4 DEF Ind, TransInv
    <2>3. deleting = FALSE
      BY <2>1 DEF Ind, TransInv
    <2> QED
      BY <1>1, <1>4, <2>1, <2>2, <2>3 DEF TransInv
  <1> QED
    BY <1>1, <1>3, <1>4

LEMMA OpenGone ==
    ASSUME Ind, First("open"), Done, SettleOpening(lock[1].room, 0),
           room' = [room EXCEPT ![lock[1].room].opening = FALSE],
           UNCHANGED <<made, current, opened, taken, chat>>, load' \in LoadRecords,
           \/ ~lock[1].run /\ UNCHANGED live
           \/ lock[1].run /\ live' = live \ {lock[1].plan}
    PROVE  Ind'
  <1>1. /\ lock # <<>> /\ lock[1].kind = "open"
        /\ UNCHANGED made /\ UNCHANGED current /\ UNCHANGED taken /\ UNCHANGED opened
    BY DEF First
  <1>2. PICK r : r = lock[1].room
    OBVIOUS
  <1>3. r \in RoomIds /\ r \in 1 .. made
    BY <1>1, <1>2, HeadRoom DEF Ind
  <1>4. SettleOpening(r, 0) /\ room' = [room EXCEPT ![r].opening = FALSE]
    BY <1>2
  <1>5. /\ ask' \in [Sockets -> Asks]
        /\ \A s \in Sockets : ask'[s] = ask[s] \/ ask'[s].at \in {"none", "done"}
                              \/ ask'[s].room \in 1 .. made
        /\ trans' \in Transits /\ StillAwaited
        /\ \A q \in RoomIds : Holding(q)' <=> Holding(q)
        /\ UNCHANGED sock /\ UNCHANGED shown /\ UNCHANGED archiving /\ UNCHANGED deleting
        /\ UNCHANGED row
    BY <1>3, <1>4, SettleFacts
  <1>6. PICK x : x = [room[r] EXCEPT !.opening = FALSE]
    OBVIOUS
  <1>7. room[r] \in RoomRecords
    BY <1>3 DEF Ind, TypeOK
  <1>8. /\ x \in RoomRecords /\ x.members = room[r].members /\ x.plan = room[r].plan
        /\ x.opening = FALSE /\ x.holds = room[r].holds /\ x.closing = room[r].closing
        /\ x.timer = room[r].timer
    BY <1>6, <1>7 DEF RoomRecords
  <1>9. /\ room' \in [RoomIds -> RoomRecords] /\ room'[r] = x
        /\ \A q \in RoomIds : q # r => room'[q] = room[q]
    <2>1. room' = [room EXCEPT ![r] = x]
      BY <1>4, <1>6
    <2> QED
      BY <1>3, <1>8, <2>1, RoomSet DEF Ind
  <1>10. MembersSame /\ PlanSame /\ ClosingSame /\ HoldsSame
    BY <1>8, <1>9 DEF MembersSame, PlanSame, ClosingSame, HoldsSame
  <1>11. \A q \in RoomIds :
            /\ room'[q].opening = (room[q].opening /\ ~(lock[1].kind = "open" /\ lock[1].room = q))
            /\ room'[q].closing = (room[q].closing /\ ~(lock[1].kind = "close" /\ lock[1].room = q))
    <2> TAKE q \in RoomIds
    <2>1. room[q].opening \in BOOLEAN /\ room[q].closing \in BOOLEAN
      BY RoomFields DEF Ind, TypeOK
    <2>2. room'[q].closing = room[q].closing
      BY <1>10 DEF ClosingSame
    <2>3. q = r => room'[q].opening = FALSE
      BY <1>8, <1>9
    <2>4. q # r => room'[q].opening = room[q].opening
      BY <1>9
    <2> QED
      BY <2>1, <2>2, <2>3, <2>4, <1>1, <1>2
  <1>12. made' \in Nat /\ made' >= made
    BY <1>1, RoomsBound DEF Ind
  <1>13. QueueInv' /\ NoneRuns'
    BY <1>1, <1>5, <1>11, <1>12, QueuePop DEF Ind, Done
  <1>14. \A q \in RoomIds : room'[q].opening => room[q].opening
    BY <1>11
  <1>15. PlanInv'
    <2>1. CASE ~lock[1].run /\ UNCHANGED live
      <3>1. HeadSame
        BY <1>13, <2>1 DEF HeadSame, NoneRuns, Runs
      <3> QED
        BY <1>1, <1>10, <1>14, <2>1, <3>1, OwnersKept DEF Ind, HoldsSame
    <2>2. CASE lock[1].run /\ live' = live \ {lock[1].plan}
      BY <1>1, <1>10, <1>13, <1>14, <2>2, OwnersPopped DEF Ind, Runs
    <2> QED
      BY <2>1, <2>2
  <1>16. Stale'
    <2>1. r # current => (x.closing => room[r].closing /\ x.plan = 0)
      BY <1>3, <1>8 DEF Ind, Stale, StaleInv
    <2> QED
      BY <1>1, <1>3, <1>8, <1>9, <2>1, StaleTask DEF Ind
  <1>17. Held'
    BY <1>5, <1>10, HeldKept DEF Ind, ClosingSame
  <1>18. TransInv'
    <2>1. current # 0 => room'[current].plan = room[current].plan
      BY <1>10, RoomsBound DEF Ind, PlanSame
    <2>2. ASSUME trans.kind = "delete", trans.room \notin {0, current}
          PROVE  room'[trans.room].plan = 0 /\ ~room'[trans.room].opening
      <3>1. trans.room \in RoomIds
        BY <2>2, RoomsBound DEF Ind, TransInv
      <3>2. room[trans.room].plan = 0 /\ ~room[trans.room].opening
        BY <2>2, <1>1 DEF Ind, TransInv
      <3> QED
        BY <3>1, <3>2, <1>10, <1>14 DEF PlanSame
    <2> QED
      BY <1>1, <1>3, <1>4, <2>1, <2>2, TransSettled
  <1>19. MemberInv'
    BY <1>1, <1>5, <1>10, <1>12, MemberKept DEF Ind
  <1>20. Given'
    BY <1>1, <1>5, <1>10, GivenKept DEF Ind, PlanSame
  <1>21. TypeOK'
    <2>1. lock' \in Seq(LockTasks)
      BY <1>1, DoneType DEF Ind
    <2>2. live' \subseteq 1 .. opened'
      BY <1>1 DEF Ind, TypeOK
    <2> QED
      BY <1>1, <1>5, <1>9, <2>1, <2>2 DEF Ind, TypeOK, chat
  <1> QED
    BY <1>13, <1>15, <1>16, <1>17, <1>18, <1>19, <1>20, <1>21 DEF Ind

LEMMA OpenAttached ==
    ASSUME Ind, First("open"), lock[1].run, Done, MayAttach(lock[1].room),
           NEW p, p = lock[1].plan, NEW q \in {0, p}, SettleOpening(lock[1].room, q),
           room' = [room EXCEPT ![lock[1].room].opening = FALSE, ![lock[1].room].plan = p],
           UNCHANGED <<made, current, plans, chat>>, load' \in LoadRecords
    PROVE  Ind'
  <1>1. /\ lock # <<>> /\ lock[1].kind = "open" /\ Runs
        /\ UNCHANGED made /\ UNCHANGED current /\ UNCHANGED taken /\ UNCHANGED live
        /\ UNCHANGED opened
    BY DEF First, Runs, plans
  <1>2. PICK r : r = lock[1].room
    OBVIOUS
  <1>3. /\ r \in RoomIds /\ r \in 1 .. made /\ room[r].opening /\ p \in Nat /\ ~room[r].closing
    <2>1. r \in RoomIds /\ r \in 1 .. made /\ room[r].opening /\ lock[1] \in LockTasks
      BY <1>1, <1>2, HeadRoom DEF Ind
    <2>2. p \in Nat
      BY <2>1 DEF LockTasks
    <2> QED
      BY <2>1, <2>2, <1>2 DEF MayAttach
  <1>z. p # 0 /\ room[r].plan = 0
    BY <1>1, <1>3 DEF Ind, PlanInv
  <1>4. SettleOpening(r, q) /\ room' = [room EXCEPT ![r].opening = FALSE, ![r].plan = p] /\ q \in Nat
    BY <1>2, <1>3
  <1>5. /\ ask' \in [Sockets -> Asks]
        /\ \A s \in Sockets : ask'[s] = ask[s] \/ ask'[s].at \in {"none", "done"}
                              \/ ask'[s].room \in 1 .. made
        /\ trans' \in Transits /\ StillAwaited
        /\ \A k \in RoomIds : Holding(k)' <=> Holding(k)
        /\ UNCHANGED sock /\ UNCHANGED shown /\ UNCHANGED archiving /\ UNCHANGED deleting
        /\ UNCHANGED row
    BY <1>3, <1>4, SettleFacts
  <1>6. PICK x : x = [room[r] EXCEPT !.opening = FALSE, !.plan = p]
    OBVIOUS
  <1>7. room[r] \in RoomRecords
    BY <1>3 DEF Ind, TypeOK
  <1>8. /\ x \in RoomRecords /\ x.members = room[r].members /\ x.plan = p
        /\ x.opening = FALSE /\ x.holds = room[r].holds /\ x.closing = room[r].closing
        /\ x.timer = room[r].timer
    BY <1>3, <1>6, <1>7 DEF RoomRecords
  <1>9. /\ room' \in [RoomIds -> RoomRecords] /\ room'[r] = x
        /\ \A k \in RoomIds : k # r => room'[k] = room[k]
    <2>1. room' = [room EXCEPT ![r] = x]
      BY <1>3, <1>4, <1>6 DEF Ind, TypeOK
    <2> QED
      BY <1>3, <1>8, <2>1, RoomSet DEF Ind
  <1>10. MembersSame /\ ClosingSame /\ HoldsSame
    BY <1>8, <1>9 DEF MembersSame, ClosingSame, HoldsSame
  <1>11. \A k \in RoomIds :
            /\ room'[k].opening = (room[k].opening /\ ~(lock[1].kind = "open" /\ lock[1].room = k))
            /\ room'[k].closing = (room[k].closing /\ ~(lock[1].kind = "close" /\ lock[1].room = k))
    <2> TAKE k \in RoomIds
    <2>1. room[k].opening \in BOOLEAN /\ room[k].closing \in BOOLEAN
      BY RoomFields DEF Ind, TypeOK
    <2>2. room'[k].closing = room[k].closing
      BY <1>10 DEF ClosingSame
    <2>3. k = r => room'[k].opening = FALSE
      BY <1>8, <1>9
    <2>4. k # r => room'[k].opening = room[k].opening
      BY <1>9
    <2> QED
      BY <2>1, <2>2, <2>3, <2>4, <1>1, <1>2
  <1>12. made' \in Nat /\ made' >= made
    BY <1>1, RoomsBound DEF Ind
  <1>13. QueueInv' /\ NoneRuns'
    BY <1>1, <1>5, <1>11, <1>12, QueuePop DEF Ind, Done
  <1>14. PlanInv'
    <2>1. room'[lock[1].room].plan = lock[1].plan /\ ~room'[lock[1].room].opening
      BY <1>2, <1>8, <1>9
    <2>2. \A k \in RoomIds \ {lock[1].room} : room'[k].plan = room[k].plan
                                              /\ (room'[k].opening => room[k].opening)
      BY <1>2, <1>9
    <2> QED
      BY <1>1, <1>13, <2>1, <2>2, OwnersAttached DEF Ind
  <1>15. Stale'
    BY <1>1, <1>3, <1>8, <1>9, StaleTask DEF Ind
  <1>16. Held'
    BY <1>5, <1>10, HeldKept DEF Ind, ClosingSame
  <1>17. TransInv'
    <2>1. current # 0 /\ room[current].plan # 0 => room'[current].plan = room[current].plan
      BY <1>z, <1>9, RoomsBound DEF Ind
    <2>2. ASSUME trans.kind = "delete", trans.room \notin {0, current}
          PROVE  room'[trans.room].plan = 0 /\ ~room'[trans.room].opening
      <3>1. trans.room \in RoomIds
        BY <2>2, RoomsBound DEF Ind, TransInv
      <3>2. room[trans.room].plan = 0 /\ ~room[trans.room].opening
        BY <2>2, <1>1 DEF Ind, TransInv
      <3>3. trans.room # r
        BY <3>2, <1>3
      <3> QED
        BY <3>1, <3>2, <3>3, <1>9
    <2>3. q # 0 => room'[r].plan = q
      BY <1>8, <1>9
    <2> QED
      BY <1>1, <1>3, <1>4, <2>1, <2>2, <2>3, TransSettled
  <1>18. MemberInv'
    BY <1>1, <1>5, <1>10, <1>12, MemberKept DEF Ind
  <1>19. Given'
    <2>1. \A k \in RoomIds : room'[k].plan = room[k].plan \/ room[k].plan = 0
      BY <1>z, <1>9
    <2> QED
      BY <1>1, <1>5, <1>10, <2>1, GivenKept DEF Ind
  <1>20. TypeOK'
    <2>1. lock' \in Seq(LockTasks)
      BY <1>1, DoneType DEF Ind
    <2> QED
      BY <1>1, <1>5, <1>9, <2>1 DEF Ind, TypeOK, chat
  <1> QED
    BY <1>13, <1>14, <1>15, <1>16, <1>17, <1>18, <1>19, <1>20 DEF Ind

LEMMA OpenEndKeeps == ASSUME Ind, OpenEnd PROVE Ind'
  <1>1. PICK r : r = lock[1].room
    OBVIOUS
  <1>2. PICK p : p = lock[1].plan
    OBVIOUS
  <1>3. First("open") /\ lock[1].run /\ Done /\ UNCHANGED <<made, current, chat>>
    BY DEF OpenEnd, Ends
  <1>4. \/ /\ MayAttach(r) /\ SettleOpening(r, p)
           /\ room' = [room EXCEPT ![r].opening = FALSE, ![r].plan = p] /\ UNCHANGED <<plans, load>>
        \/ /\ MayAttach(r) /\ Failure /\ SettleOpening(r, 0)
           /\ room' = [room EXCEPT ![r].opening = FALSE, ![r].plan = p] /\ UNCHANGED plans
        \/ /\ room' = [room EXCEPT ![r].opening = FALSE] /\ SettleOpening(r, 0)
           /\ ClosePlan(p) /\ UNCHANGED taken /\ UNCHANGED load
    BY <1>1, <1>2 DEF OpenEnd
  <1>5. load \in LoadRecords
    BY DEF Ind, TypeOK
  <1>6. CASE /\ MayAttach(r) /\ SettleOpening(r, p)
             /\ room' = [room EXCEPT ![r].opening = FALSE, ![r].plan = p] /\ UNCHANGED <<plans, load>>
    BY <1>1, <1>2, <1>3, <1>5, <1>6, OpenAttached
  <1>7. CASE /\ MayAttach(r) /\ Failure /\ SettleOpening(r, 0)
             /\ room' = [room EXCEPT ![r].opening = FALSE, ![r].plan = p] /\ UNCHANGED plans
    <2>1. load' \in LoadRecords
      BY <1>7, FailureType DEF Ind
    <2> QED
      BY <1>1, <1>2, <1>3, <1>7, <2>1, OpenAttached
  <1>8. CASE /\ room' = [room EXCEPT ![r].opening = FALSE] /\ SettleOpening(r, 0)
             /\ ClosePlan(p) /\ UNCHANGED taken /\ UNCHANGED load
    <2>1. live' = live \ {lock[1].plan} /\ UNCHANGED opened
      BY <1>2, <1>8 DEF ClosePlan
    <2> QED
      BY <1>1, <1>3, <1>5, <1>8, <2>1, OpenGone
  <1> QED
    BY <1>4, <1>6, <1>7, <1>8

LEMMA OpenStarts ==
    ASSUME Ind, Starts("open"), OpenPlan, Run(opened + 1),
           UNCHANGED <<room, people, chan, load>>, UNCHANGED <<made, current, chat>>
    PROVE  Ind'
  <1>1. /\ UNCHANGED room /\ UNCHANGED made /\ UNCHANGED current /\ UNCHANGED taken
        /\ UNCHANGED sock /\ UNCHANGED shown /\ UNCHANGED ask /\ UNCHANGED trans
        /\ UNCHANGED deleting
    BY DEF people, chan, OpenPlan
  <1>2. /\ MemberInv' /\ Stale' /\ Given' /\ made' \in Nat /\ made' >= made
        /\ PlanSame /\ OpeningSame /\ ClosingSame /\ HoldsSame /\ CurrentPlan' = CurrentPlan
    BY <1>1, RoomsStill
  <1>3. TransInv' /\ Held' /\ StillAwaited
    BY <1>1, TransStill
  <1>4. lock # <<>> /\ lock[1].kind = "open" /\ ~lock[1].run /\ opened + 1 \in Nat
    BY DEF Starts, First, Ind, TypeOK
  <1>5. QueueInv' /\ Runs' /\ lock'[1] = [lock[1] EXCEPT !.run = TRUE, !.plan = opened + 1]
    BY <1>1, <1>2, <1>3, <1>4, QueueRun DEF Ind
  <1>6. lock'[1].kind = "open" /\ lock'[1].plan = opened + 1 /\ lock'[1].room = lock[1].room
    BY <1>4, <1>5, RunFields DEF Ind
  <1>7. lock[1].room \in RoomIds /\ room[lock[1].room].plan = 0
    BY <1>4, HeadRoom DEF Ind, PlanInv
  <1>8. lock'[1].room # current' \/ CurrentPlan' = 0
    BY <1>1, <1>2, <1>6, <1>7 DEF CurrentPlan
  <1>9. PlanInv'
    BY <1>2, <1>4, <1>5, <1>6, <1>8, OwnersOpened DEF Ind, NoneRuns, Runs, OpenPlan
  <1>10. lock' \in Seq(LockTasks)
    BY <1>4, RunType DEF Ind
  <1>11. live' \subseteq 1 .. opened' /\ opened' \in Nat
    BY DEF Ind, TypeOK, OpenPlan
  <1>12. TypeOK'
    BY <1>1, <1>10, <1>11 DEF Ind, TypeOK, people, chan, chat
  <1> QED
    BY <1>2, <1>3, <1>5, <1>9, <1>12 DEF Ind

LEMMA OpenStartKeeps == ASSUME Ind, OpenStart PROVE Ind'
  <1>1. PICK r : r = lock[1].room
    OBVIOUS
  <1>2. Starts("open") /\ First("open") /\ ~lock[1].run /\ UNCHANGED <<made, current, chat>>
    BY DEF OpenStart, Starts
  <1>3. \/ /\ Done /\ SettleOpening(r, 0) /\ room' = [room EXCEPT ![r].opening = FALSE]
           /\ UNCHANGED plans /\ (UNCHANGED load \/ Failure)
        \/ OpenPlan /\ Run(opened + 1) /\ UNCHANGED <<room, people, chan, load>>
    BY <1>1 DEF OpenStart
  <1>4. CASE /\ Done /\ SettleOpening(r, 0) /\ room' = [room EXCEPT ![r].opening = FALSE]
             /\ UNCHANGED plans /\ (UNCHANGED load \/ Failure)
    <2>1. load' \in LoadRecords
      BY <1>4, FailureType DEF Ind, TypeOK
    <2>2. UNCHANGED <<made, current, opened, taken, chat>> /\ UNCHANGED live
      BY <1>2, <1>4 DEF plans
    <2> QED
      BY <1>1, <1>2, <1>4, <2>1, <2>2, OpenGone
  <1>5. CASE OpenPlan /\ Run(opened + 1) /\ UNCHANGED <<room, people, chan, load>>
    BY <1>2, <1>5, OpenStarts
  <1> QED
    BY <1>3, <1>4, <1>5

-----------------------------------------------------------------------------
(* The tasks that close a room.                                            *)

\* Somebody came back: the closing gives up.
LEMMA CloseGivesUp ==
    ASSUME Ind, Starts("close"), Done, room' = [room EXCEPT ![lock[1].room].closing = FALSE],
           UNCHANGED <<made, current, plans, people, chan, chat, load>>
    PROVE  Ind'
  <1>1. /\ lock # <<>> /\ lock[1].kind = "close" /\ ~lock[1].run
        /\ UNCHANGED made /\ UNCHANGED current /\ UNCHANGED taken /\ UNCHANGED live
        /\ UNCHANGED sock /\ UNCHANGED shown /\ UNCHANGED ask /\ UNCHANGED trans
        /\ UNCHANGED deleting
    BY DEF Starts, First, plans, people, chan
  <1>2. PICK r : r = lock[1].room
    OBVIOUS
  <1>3. r \in RoomIds /\ r \in 1 .. made
    BY <1>1, <1>2, HeadRoom DEF Ind
  <1>4. PICK x : x = [room[r] EXCEPT !.closing = FALSE]
    OBVIOUS
  <1>5. room[r] \in RoomRecords
    BY <1>3 DEF Ind, TypeOK
  <1>6. /\ x \in RoomRecords /\ x.members = room[r].members /\ x.plan = room[r].plan
        /\ x.opening = room[r].opening /\ x.holds = room[r].holds /\ x.closing = FALSE
        /\ x.timer = room[r].timer
    BY <1>4, <1>5 DEF RoomRecords
  <1>7. /\ room' \in [RoomIds -> RoomRecords] /\ room'[r] = x
        /\ \A q \in RoomIds : q # r => room'[q] = room[q]
    <2>1. room' = [room EXCEPT ![r] = x]
      BY <1>2, <1>4
    <2> QED
      BY <1>3, <1>6, <2>1, RoomSet DEF Ind
  <1>8. MembersSame /\ PlanSame /\ OpeningSame /\ HoldsSame
    BY <1>6, <1>7 DEF MembersSame, PlanSame, OpeningSame, HoldsSame
  <1>9. \A q \in RoomIds : room'[q].closing => room[q].closing
    BY <1>6, <1>7
  <1>10. \A q \in RoomIds :
            /\ room'[q].opening = (room[q].opening /\ ~(lock[1].kind = "open" /\ lock[1].room = q))
            /\ room'[q].closing = (room[q].closing /\ ~(lock[1].kind = "close" /\ lock[1].room = q))
    <2> TAKE q \in RoomIds
    <2>1. room[q].opening \in BOOLEAN /\ room[q].closing \in BOOLEAN
      BY RoomFields DEF Ind, TypeOK
    <2>2. room'[q].opening = room[q].opening
      BY <1>8 DEF OpeningSame
    <2>3. q = r => room'[q].closing = FALSE
      BY <1>6, <1>7
    <2>4. q # r => room'[q].closing = room[q].closing
      BY <1>7
    <2> QED
      BY <2>1, <2>2, <2>3, <2>4, <1>1, <1>2
  <1>11. made' \in Nat /\ made' >= made
    BY <1>1, RoomsBound DEF Ind
  <1>12. StillAwaited
    BY <1>1 DEF StillAwaited
  <1>13. QueueInv' /\ NoneRuns'
    BY <1>1, <1>10, <1>11, <1>12, QueuePop DEF Ind, Done
  <1>14. PlanInv'
    <2>1. HeadSame
      BY <1>1, <1>13 DEF HeadSame, NoneRuns, Runs
    <2> QED
      BY <1>1, <1>8, <2>1, OwnersKept DEF Ind, OpeningSame, HoldsSame
  <1>15. Stale'
    <2>1. r # current => (x.closing => room[r].closing /\ x.plan = 0)
      BY <1>6
    <2> QED
      BY <1>1, <1>3, <1>6, <1>7, <2>1, StaleTask DEF Ind
  <1>16. Held'
    BY <1>1, <1>8, <1>9, HeldSame DEF Ind
  <1>17. TransInv'
    <2>1. trans.kind = "work" /\ trans.at \in {"opened", "locked"}
               => room'[current].plan = room[current].plan
      BY <1>8, RoomsBound DEF Ind, TransInv, PlanSame
    <2>2. ASSUME trans.kind = "delete", trans.room \notin {0, current'}
          PROVE  room'[trans.room].plan = 0 /\ ~room'[trans.room].opening
      <3>1. trans.room \in RoomIds
        BY <2>2, RoomsBound DEF Ind, TransInv
      <3>2. room[trans.room].plan = 0 /\ ~room[trans.room].opening
        BY <2>2, <1>1 DEF Ind, TransInv
      <3> QED
        BY <3>1, <3>2, <1>8 DEF PlanSame, OpeningSame
    <2> QED
      BY <1>1, <1>11, <2>1, <2>2, TransKept DEF Ind
  <1>18. MemberInv'
    BY <1>1, <1>8, <1>11, MemberKept DEF Ind
  <1>19. Given'
    BY <1>1, <1>8, GivenKept DEF Ind, PlanSame
  <1>20. TypeOK'
    <2>1. lock' \in Seq(LockTasks)
      BY <1>1, DoneType DEF Ind
    <2> QED
      BY <1>1, <1>7, <2>1 DEF Ind, TypeOK, plans, people, chan, chat
  <1> QED
    BY <1>13, <1>14, <1>15, <1>16, <1>17, <1>18, <1>19, <1>20 DEF Ind

\* The document of an unused room is taken from it, to be closed.
LEMMA CloseBegins ==
    ASSUME Ind, Starts("close"), NEW r, r = lock[1].room, MayClose(room[r]), Run(room[r].plan),
           room' = [room EXCEPT ![r].plan = 0], aborted' \in BOOLEAN,
           UNCHANGED <<made, current, plans, people, chan, turn, tool, load>>
    PROVE  Ind'
  <1>1. /\ lock # <<>> /\ lock[1].kind = "close" /\ ~lock[1].run
        /\ UNCHANGED made /\ UNCHANGED current /\ UNCHANGED taken /\ UNCHANGED live
        /\ UNCHANGED sock /\ UNCHANGED shown /\ UNCHANGED ask /\ UNCHANGED trans
        /\ UNCHANGED deleting
    BY DEF Starts, First, plans, people, chan
  <1>3. r \in RoomIds /\ r \in 1 .. made /\ room[r].closing /\ ~room[r].opening
    BY <1>1, HeadRoom DEF Ind
  <1>4. PICK x : x = [room[r] EXCEPT !.plan = 0]
    OBVIOUS
  <1>5. room[r] \in RoomRecords
    BY <1>3 DEF Ind, TypeOK
  <1>6. /\ x \in RoomRecords /\ x.members = room[r].members /\ x.plan = 0
        /\ x.opening = room[r].opening /\ x.holds = room[r].holds /\ x.closing = room[r].closing
        /\ x.timer = room[r].timer
    BY <1>4, <1>5 DEF RoomRecords
  <1>7. /\ room' \in [RoomIds -> RoomRecords] /\ room'[r] = x
        /\ \A q \in RoomIds : q # r => room'[q] = room[q]
    <2>1. room' = [room EXCEPT ![r] = x]
      BY <1>4
    <2>2. TypeOK /\ r \in RoomIds /\ x \in RoomRecords
      BY <1>3, <1>6 DEF Ind
    <2> QED
      BY <2>1, <2>2, RoomSet
  <1>8. MembersSame /\ OpeningSame /\ ClosingSame /\ HoldsSame
    BY <1>6, <1>7 DEF MembersSame, OpeningSame, ClosingSame, HoldsSame
  <1>9. Members(room[r]) = {} /\ room[r].holds = 0
    <2>1. Members(room[r]) = {} /\ ~(room[r].holds > 0)
      BY DEF MayClose, Used
    <2>2. room[r].holds \in Nat
      BY <1>5, RoomFields
    <2> QED
      BY <2>1, <2>2
  <1>10. PICK p : p = room[r].plan
    OBVIOUS
  <1>11. p \in Nat /\ p \in live \cup {0}
    BY <1>3, <1>5, <1>10, RoomFields DEF Ind, PlanInv
  <1>12. made' \in Nat /\ made' >= made
    BY <1>1, RoomsBound DEF Ind
  <1>13. StillAwaited
    BY <1>1 DEF StillAwaited
  <1>14. QueueInv' /\ Runs' /\ lock'[1] = [lock[1] EXCEPT !.run = TRUE, !.plan = p]
    BY <1>1, <1>8, <1>10, <1>11, <1>13, QueueRun DEF Ind
  <1>15. lock'[1].kind = "close" /\ lock'[1].plan = p /\ lock'[1].room = r
    BY <1>1, <1>11, <1>14, RunFields DEF Ind
  <1>16. p # 0 => r = current
    BY <1>3, <1>10 DEF Ind, Stale, StaleInv
  <1>17. PlanInv'
    <2>1. \A q \in RoomIds : /\ room'[q].plan = IF room[q].plan = p THEN 0 ELSE room[q].plan
                             /\ room'[q].opening = room[q].opening
      <3> TAKE q \in RoomIds
      <3>1. q # r /\ room[q].plan = p => p = 0
        BY <1>3, <1>10 DEF Ind, PlanInv
      <3>2. room'[q].opening = room[q].opening
        BY <1>8 DEF OpeningSame
      <3>3. room'[q].plan = IF q = r THEN 0 ELSE room[q].plan
        BY <1>6, <1>7
      <3> QED
        BY <3>1, <3>2, <3>3, <1>10
    <2>2. p # 0 => CurrentPlan' = 0
      BY <1>1, <1>6, <1>7, <1>16 DEF CurrentPlan
    <2>3. room'[r].plan = 0 /\ ~room'[r].opening /\ room'[r].holds = 0
      BY <1>3, <1>6, <1>7, <1>9
    <2> QED
      BY <1>1, <1>11, <1>14, <1>15, <2>1, <2>2, <2>3, OwnersTaken DEF Ind, NoneRuns, Runs
  <1>18. Stale'
    <2>1. TypeOK /\ Stale /\ UNCHANGED <<made, current, taken>>
      BY <1>1 DEF Ind
    <2>2. /\ room'[r].holds = room[r].holds /\ room'[r].timer = room[r].timer
          /\ room'[r].members = room[r].members /\ room'[r].plan = 0
          /\ room'[r].closing => room[r].closing
      BY <1>6, <1>7
    <2> QED
      BY <2>1, <2>2, <1>3, <1>7, StaleTask
  <1>19. Held'
    BY <1>1, <1>8, HeldSame DEF Ind, ClosingSame
  <1>20. TransInv'
    <2>1. ASSUME trans.kind = "work", trans.at \in {"opened", "locked"}
          PROVE  room'[current].plan = room[current].plan
      <3>1. trans.room = current /\ current \in RoomIds
        BY <2>1, RoomsBound DEF Ind, TransInv
      <3>2. room[current].holds = 1
        BY <2>1, <3>1 DEF Ind, Held, HoldInv
      <3>3. current # r
        BY <3>2, <1>9
      <3> QED
        BY <3>1, <3>3, <1>7
    <2>2. ASSUME trans.kind = "delete", trans.room \notin {0, current'}
          PROVE  room'[trans.room].plan = 0 /\ ~room'[trans.room].opening
      <3>1. trans.room \in RoomIds
        BY <2>2, RoomsBound DEF Ind, TransInv
      <3>2. room[trans.room].plan = 0 /\ ~room[trans.room].opening
        BY <2>2, <1>1 DEF Ind, TransInv
      <3> QED
        BY <3>1, <3>2, <1>6, <1>7
    <2> QED
      BY <1>1, <1>12, <2>1, <2>2, TransKept DEF Ind
  <1>21. MemberInv'
    BY <1>1, <1>8, <1>12, MemberKept DEF Ind
  <1>22. Given'
    <2>1. \A q \in RoomIds : room'[q].plan = room[q].plan \/ Members(room[q]) = {}
      BY <1>7, <1>9
    <2> QED
      BY <1>1, <1>8, <2>1, GivenKept DEF Ind
  <1>23. TypeOK'
    <2>1. lock' \in Seq(LockTasks)
      BY <1>1, <1>10, <1>11, RunType DEF Ind
    <2> QED
      BY <1>1, <1>7, <2>1 DEF Ind, TypeOK, plans, people, chan
  <1> QED
    BY <1>14, <1>17, <1>18, <1>19, <1>20, <1>21, <1>22, <1>23 DEF Ind

LEMMA CloseStartKeeps == ASSUME Ind, CloseStart PROVE Ind'
  <1>1. PICK r : r = lock[1].room
    OBVIOUS
  <1>2. Starts("close") /\ UNCHANGED <<made, current, plans, people, chan, turn, tool, load>>
    BY DEF CloseStart
  <1>3. \/ Done /\ room' = [room EXCEPT ![r].closing = FALSE] /\ UNCHANGED aborted
        \/ /\ MayClose(room[r]) /\ Run(room[r].plan) /\ room' = [room EXCEPT ![r].plan = 0]
           /\ aborted' = (aborted \/ turn # 0)
    BY <1>1 DEF CloseStart
  <1>4. CASE Done /\ room' = [room EXCEPT ![r].closing = FALSE] /\ UNCHANGED aborted
    BY <1>1, <1>2, <1>4, CloseGivesUp DEF chat
  <1>5. CASE /\ MayClose(room[r]) /\ Run(room[r].plan) /\ room' = [room EXCEPT ![r].plan = 0]
             /\ aborted' = (aborted \/ turn # 0)
    <2>1. aborted' \in BOOLEAN
      BY <1>5 DEF Ind, TypeOK
    <2> QED
      BY <1>1, <1>2, <1>5, <2>1, CloseBegins
  <1> QED
    BY <1>3, <1>4, <1>5

\* How a closing ends: its room stays, or is forgotten.
LEMMA CloseEndFacts ==
    ASSUME Ind, CloseEnd
    PROVE  LET r == lock[1].room IN
           /\ lock # <<>> /\ lock[1].kind = "close" /\ lock[1].run /\ Done
           /\ live' = live \ {lock[1].plan} /\ UNCHANGED opened /\ UNCHANGED taken /\ UNCHANGED made
           /\ r \in RoomIds /\ r \in 1 .. made
           /\ room' \in [RoomIds -> RoomRecords] /\ \A q \in RoomIds : q # r => room'[q] = room[q]
           /\ room'[r].members = room[r].members /\ room'[r].plan = room[r].plan
           /\ room'[r].opening = room[r].opening /\ room'[r].holds = room[r].holds
           /\ room'[r].closing = FALSE
           /\ \/ UNCHANGED current /\ (room'[r].timer = room[r].timer \/ room'[r].timer # "armed")
              \/ current = r /\ current' = 0 /\ Members(room[r]) = {} /\ room'[r].timer # "armed"
           /\ load' \in LoadRecords
  <1>1. PICK r : r = lock[1].room
    OBVIOUS
  <1>2. lock # <<>> /\ lock[1].kind = "close" /\ lock[1].run /\ Done
    BY DEF CloseEnd, Ends, First
  <1>3. live' = live \ {lock[1].plan} /\ UNCHANGED opened /\ UNCHANGED taken
    BY DEF CloseEnd, ClosePlan
  <1>4. r \in RoomIds /\ r \in 1 .. made
    BY <1>1, <1>2, HeadRoom DEF Ind
  <1>5. PICK x : x = [room[r] EXCEPT !.closing = FALSE]
    OBVIOUS
  <1>6. room[r] \in RoomRecords
    BY <1>4 DEF Ind, TypeOK
  <1>7. /\ x \in RoomRecords /\ x.members = room[r].members /\ x.plan = room[r].plan
        /\ x.opening = room[r].opening /\ x.holds = room[r].holds /\ x.closing = FALSE
        /\ x.timer = room[r].timer
    BY <1>5, <1>6 DEF RoomRecords
  <1>8. PICK f : f = Forgotten(x)
    OBVIOUS
  <1>9. /\ f \in RoomRecords /\ f.members = x.members /\ f.plan = x.plan
        /\ f.opening = x.opening /\ f.holds = x.holds /\ f.closing = FALSE
        /\ f.timer # "armed"
    BY <1>7, <1>8, ForgottenFields
  <1>10. \/ MayForget(x) /\ Forget(r) /\ room' = [room EXCEPT ![r] = f] /\ UNCHANGED load
         \/ ~MayForget(x) /\ UNCHANGED <<made, current>> /\ room' = [room EXCEPT ![r] = x] /\ UNCHANGED load
         \/ Failure /\ UNCHANGED <<made, current>> /\ room' = [room EXCEPT ![r] = x]
    BY <1>1, <1>5, <1>8 DEF CloseEnd
  <1>11. load' \in LoadRecords
    BY <1>10, FailureType DEF Ind, TypeOK
  <1>12. PICK y \in {x, f} : room' = [room EXCEPT ![r] = y]
    BY <1>10
  <1>13. /\ y \in RoomRecords /\ y.members = room[r].members /\ y.plan = room[r].plan
         /\ y.opening = room[r].opening /\ y.holds = room[r].holds /\ y.closing = FALSE
         /\ y.timer = room[r].timer \/ y.timer # "armed"
    BY <1>7, <1>9
  <1>14. /\ room' \in [RoomIds -> RoomRecords] /\ room'[r] = y
         /\ \A q \in RoomIds : q # r => room'[q] = room[q]
    BY <1>4, <1>12, <1>13, RoomSet DEF Ind
  <1>15. UNCHANGED made
    BY <1>10 DEF Forget
  <1>16. \/ UNCHANGED current
         \/ current = r /\ current' = 0 /\ Members(room[r]) = {} /\ room'[r].timer # "armed"
    <2>1. CASE MayForget(x) /\ Forget(r) /\ room' = [room EXCEPT ![r] = f] /\ UNCHANGED load
      <3>1. Members(room[r]) = {}
        BY <2>1, <1>7, MembersEmpty DEF MayForget
      <3>2. room'[r] = f
        BY <2>1, <1>4, <1>9, RoomSet DEF Ind
      <3> QED
        BY <2>1, <3>1, <3>2, <1>9 DEF Forget
    <2>2. CASE UNCHANGED <<made, current>>
      BY <2>2
    <2> QED
      BY <1>10, <2>1, <2>2
  <1>17. \/ UNCHANGED current /\ (room'[r].timer = room[r].timer \/ room'[r].timer # "armed")
         \/ current = r /\ current' = 0 /\ Members(room[r]) = {} /\ room'[r].timer # "armed"
    BY <1>13, <1>14, <1>16
  <1> QED
    BY <1>1, <1>2, <1>3, <1>4, <1>11, <1>13, <1>14, <1>15, <1>17

LEMMA CloseEndKeeps == ASSUME Ind, CloseEnd PROVE Ind'
  <1>r. PICK r : r = lock[1].room
    OBVIOUS
  <1>1. /\ lock # <<>> /\ lock[1].kind = "close" /\ lock[1].run /\ Done
        /\ live' = live \ {lock[1].plan} /\ UNCHANGED opened /\ UNCHANGED taken /\ UNCHANGED made
        /\ r \in RoomIds /\ r \in 1 .. made
        /\ room' \in [RoomIds -> RoomRecords] /\ \A q \in RoomIds : q # r => room'[q] = room[q]
        /\ room'[r].members = room[r].members /\ room'[r].plan = room[r].plan
        /\ room'[r].opening = room[r].opening /\ room'[r].holds = room[r].holds
        /\ room'[r].closing = FALSE
        /\ \/ UNCHANGED current /\ (room'[r].timer = room[r].timer \/ room'[r].timer # "armed")
           \/ current = r /\ current' = 0 /\ Members(room[r]) = {} /\ room'[r].timer # "armed"
        /\ load' \in LoadRecords
    BY <1>r, CloseEndFacts
  <1>2. /\ UNCHANGED sock /\ UNCHANGED shown /\ UNCHANGED ask /\ UNCHANGED trans
        /\ UNCHANGED deleting
    BY DEF CloseEnd, people, chan
  <1>3. room[r].plan = 0 /\ ~room[r].opening /\ room[r].holds = 0
    BY <1>1, <1>r DEF Ind, PlanInv
  <1>4. MembersSame /\ PlanSame /\ OpeningSame /\ HoldsSame
    BY <1>1 DEF MembersSame, PlanSame, OpeningSame, HoldsSame
  <1>5. \A q \in RoomIds : room'[q].closing => room[q].closing
    BY <1>1
  <1>6. \A q \in RoomIds :
            /\ room'[q].opening = (room[q].opening /\ ~(lock[1].kind = "open" /\ lock[1].room = q))
            /\ room'[q].closing = (room[q].closing /\ ~(lock[1].kind = "close" /\ lock[1].room = q))
    <2> TAKE q \in RoomIds
    <2>1. room[q].opening \in BOOLEAN /\ room[q].closing \in BOOLEAN
      BY RoomFields DEF Ind, TypeOK
    <2>2. room'[q].opening = room[q].opening
      BY <1>4 DEF OpeningSame
    <2>3. q = r => room'[q].closing = FALSE
      BY <1>1
    <2>4. q # r => room'[q].closing = room[q].closing
      BY <1>1
    <2> QED
      BY <2>1, <2>2, <2>3, <2>4, <1>1, <1>r
  <1>7. made' \in Nat /\ made' >= made /\ made \in Nat
    BY <1>1, RoomsBound DEF Ind
  <1>8. StillAwaited
    BY <1>2 DEF StillAwaited
  <1>9. QueueInv' /\ NoneRuns'
    BY <1>1, <1>6, <1>7, <1>8, QueuePop DEF Ind, Done
  <1>10. PlanInv'
    BY <1>1, <1>4, <1>9, OwnersPopped DEF Ind, Runs, OpeningSame
  <1>11. current' = current \/ (current' = 0 /\ current = r)
    BY <1>1
  <1>12. Stale'
    <2> SUFFICES ASSUME NEW q \in RoomIds PROVE StaleInv(q)'
      BY DEF Stale
    <2>1. StaleInv(q) /\ q \in Nat /\ q > 0
      BY RoomsBound DEF Ind, Stale
    <2>2. Members(room'[q]) = Members(room[q])
      BY <1>4, MembersEmpty DEF MembersSame
    <2>3. CASE q = r
      <3>1. /\ q <= made /\ room'[q].holds = 0 /\ room'[q].closing = FALSE
            /\ made' = made /\ taken' = taken
        BY <1>1, <1>3, <2>3
      <3>2. CASE UNCHANGED current /\ (room'[r].timer = room[r].timer \/ room'[r].timer # "armed")
        <4>1. q # current => room'[q].timer # "armed"
          BY <2>1, <2>3, <3>2 DEF StaleInv
        <4> QED
          BY <2>1, <2>2, <3>1, <3>2, <4>1, <1>7 DEF StaleInv
      <3>3. CASE current = r /\ current' = 0 /\ Members(room[r]) = {} /\ room'[r].timer # "armed"
        <4>1. Members(room'[q]) = {} /\ room'[q].timer # "armed" /\ q # current'
          BY <2>1, <2>2, <2>3, <3>3
        <4> QED
          BY <2>1, <3>1, <4>1, <1>7 DEF StaleInv
      <3> QED
        BY <1>1, <3>2, <3>3
    <2>4. CASE q # r
      <3>1. room'[q] = room[q]
        BY <1>1, <2>4
      <3>2. q # current' => q # current
        BY <1>11, <2>4
      <3>3. q \in taken'.rooms => q # current'
        BY <1>1, <1>11, <2>1 DEF StaleInv
      <3> QED
        BY <1>1, <2>1, <2>2, <3>1, <3>2, <3>3 DEF StaleInv
    <2> QED
      BY <2>3, <2>4
  <1>13. Held'
    BY <1>2, <1>4, <1>5, HeldSame DEF Ind
  <1>14. TransInv'
    <2>1. trans.kind = "work" => current' = current \/ (current' = 0 /\ trans.at = "closing")
      <3> SUFFICES ASSUME trans.kind = "work", current' = 0, current = r PROVE trans.at = "closing"
        BY <1>11
      <3>1. HoldInv(r)
        BY <1>1 DEF Ind, Held
      <3>2. trans.at \in {"closing", "opening", "opened", "locked", "release"}
        BY DEF Ind, TransInv
      <3>3. trans.at # "closing" => trans.room = r
        BY DEF Ind, TransInv
      <3> QED
        BY <1>3, <3>1, <3>2, <3>3 DEF HoldInv
    <2>2. trans.kind = "work" /\ trans.at \in {"opened", "locked"}
               => room'[current].plan = room[current].plan
      BY <1>4, RoomsBound DEF Ind, TransInv, PlanSame
    <2>3. ASSUME trans.kind = "delete", trans.room \notin {0, current'}
          PROVE  room'[trans.room].plan = 0 /\ ~room'[trans.room].opening
      <3>1. trans.room \in RoomIds
        BY <2>3, RoomsBound DEF Ind, TransInv
      <3>2. room[trans.room].plan = 0 /\ ~room[trans.room].opening
        <4>1. CASE trans.room = current
          BY <2>3, <4>1, <1>3, <1>11
        <4>2. CASE trans.room # current
          BY <2>3, <4>2 DEF Ind, TransInv
        <4> QED
          BY <4>1, <4>2
      <3> QED
        BY <3>1, <3>2, <1>4 DEF PlanSame, OpeningSame
    <2> QED
      BY <1>1, <1>2, <1>7, <2>1, <2>2, <2>3, TransKept DEF Ind
  <1>15. MemberInv'
    BY <1>1, <1>2, <1>4, <1>7, MemberKept DEF Ind
  <1>16. Given'
    BY <1>1, <1>2, <1>4, <1>11, GivenKept DEF Ind, PlanSame
  <1>17. TypeOK'
    <2>1. lock' \in Seq(LockTasks)
      BY <1>1, DoneType DEF Ind
    <2>2. current' \in 0 .. made'
      BY <1>1, <1>7, <1>11, RoomsBound DEF Ind
    <2>3. live' \subseteq 1 .. opened'
      BY <1>1 DEF Ind, TypeOK
    <2> QED
      BY <1>1, <2>1, <2>2, <2>3 DEF Ind, TypeOK, CloseEnd, people, chan, chat
  <1> QED
    BY <1>9, <1>10, <1>12, <1>13, <1>14, <1>15, <1>16, <1>17 DEF Ind

-----------------------------------------------------------------------------
(* The deletion.                                                           *)

LEMMA DeleteStartKeeps == ASSUME Ind, DeleteStart PROVE Ind'
  <1>1. PICK p : p = CurrentPlan
    OBVIOUS
  <1>2. /\ lock # <<>> /\ lock[1].kind = "delete" /\ ~lock[1].run /\ Run(p)
        /\ taken' = [taken EXCEPT !.plans = @ \cup ({p} \ {0})]
        /\ room' = IF current = 0 THEN room ELSE [room EXCEPT ![current].plan = 0]
        /\ aborted' = (aborted \/ turn # 0)
    BY <1>1 DEF DeleteStart, Starts, First
  <1>3. /\ UNCHANGED made /\ UNCHANGED current /\ UNCHANGED live /\ UNCHANGED opened
        /\ UNCHANGED sock /\ UNCHANGED shown /\ UNCHANGED ask /\ UNCHANGED trans
        /\ UNCHANGED deleting
    BY DEF DeleteStart, people, chan
  <1>4. p \in Nat /\ p \in live \cup {0}
    <2>1. CASE current = 0
      BY <2>1, <1>1 DEF CurrentPlan
    <2>2. CASE current # 0
      <3>1. current \in RoomIds /\ room[current].plan \in Nat
        BY <2>2, RoomsBound, RoomFields DEF Ind, TypeOK
      <3> QED
        BY <2>2, <3>1, <1>1 DEF CurrentPlan, Ind, PlanInv
    <2> QED
      BY <2>1, <2>2
  <1>5. taken' \in [plans: SUBSET Nat, rooms: SUBSET RoomIds]
        /\ taken'.rooms = taken.rooms /\ taken'.plans = taken.plans \cup ({p} \ {0})
    BY <1>2, <1>4 DEF Ind, TypeOK
  <1>6. /\ room' \in [RoomIds -> RoomRecords]
        /\ \A q \in RoomIds : q = current \/ room'[q] = room[q]
        /\ MembersSame /\ OpeningSame /\ ClosingSame /\ HoldsSame
        /\ current # 0 => room'[current].plan = 0
    <2>1. CASE current = 0
      <3>1. UNCHANGED room
        BY <2>1, <1>2
      <3> QED
        BY <2>1, <3>1, RoomUnchanged DEF Ind, TypeOK
    <2>2. CASE current # 0
      <3>1. current \in RoomIds /\ room[current] \in RoomRecords
        BY <2>2, RoomsBound DEF Ind, TypeOK
      <3>2. PICK x : x = [room[current] EXCEPT !.plan = 0]
        OBVIOUS
      <3>3. /\ x \in RoomRecords /\ x.members = room[current].members /\ x.plan = 0
            /\ x.opening = room[current].opening /\ x.holds = room[current].holds
            /\ x.closing = room[current].closing
        BY <3>1, <3>2 DEF RoomRecords
      <3>4. room' = [room EXCEPT ![current] = x]
        BY <2>2, <1>2, <3>2
      <3>5. /\ room' \in [RoomIds -> RoomRecords] /\ room'[current] = x
            /\ \A q \in RoomIds : q # current => room'[q] = room[q]
        BY <3>1, <3>3, <3>4, RoomSet DEF Ind
      <3> QED
        BY <3>3, <3>5 DEF MembersSame, OpeningSame, ClosingSame, HoldsSame
    <2> QED
      BY <2>1, <2>2
  <1>7. made' \in Nat /\ made' >= made
    BY <1>3, RoomsBound DEF Ind
  <1>8. StillAwaited
    BY <1>3 DEF StillAwaited
  <1>9. QueueInv' /\ Runs' /\ lock'[1] = [lock[1] EXCEPT !.run = TRUE, !.plan = p]
    BY <1>2, <1>3, <1>4, <1>6, <1>8, QueueRun DEF Ind
  <1>10. lock'[1].kind = "delete" /\ lock'[1].plan = p
    BY <1>2, <1>4, <1>9, RunFields DEF Ind
  <1>11. CurrentPlan' = 0
    BY <1>3, <1>6 DEF CurrentPlan
  <1>12. \A q \in RoomIds : room'[q].plan = IF room[q].plan = p THEN 0 ELSE room[q].plan
    <2> TAKE q \in RoomIds
    <2>1. CASE q = current
      <3>1. q # 0
        BY RoomsBound DEF Ind
      <3> QED
        BY <2>1, <3>1, <1>1, <1>6 DEF CurrentPlan
    <2>2. CASE q # current
      <3>1. room'[q].plan = room[q].plan
        BY <2>2, <1>6
      <3>2. room[q].plan = p => p = 0
        <4> SUFFICES ASSUME room[q].plan = p, p # 0 PROVE FALSE
          OBVIOUS
        <4>1. current # 0 /\ current \in RoomIds /\ room[current].plan = p
          BY <1>1, RoomsBound DEF Ind, CurrentPlan
        <4> QED
          BY <2>2, <4>1 DEF Ind, PlanInv
      <3> QED
        BY <3>1, <3>2
    <2> QED
      BY <2>1, <2>2
  <1>13. PlanInv'
    BY <1>2, <1>3, <1>4, <1>6, <1>9, <1>10, <1>11, <1>12, OwnersTaken
       DEF Ind, NoneRuns, Runs, OpeningSame
  <1>14. Stale'
    BY <1>3, <1>5, <1>6, StaleKept DEF Ind
  <1>15. Held'
    BY <1>3, <1>6, HeldSame DEF Ind, ClosingSame
  <1>16. trans.kind = "delete"
    BY <1>2, HeadRoom DEF Ind, Transitions
  <1>17. TransInv'
    <2>1. ASSUME trans.room \notin {0, current'}
          PROVE  room'[trans.room].plan = 0 /\ ~room'[trans.room].opening
      <3>1. trans.room \in RoomIds
        BY <2>1, <1>16, RoomsBound DEF Ind, TransInv
      <3>2. room[trans.room].plan = 0 /\ ~room[trans.room].opening
        BY <2>1, <1>3, <1>16 DEF Ind, TransInv
      <3> QED
        BY <2>1, <3>1, <3>2, <1>3, <1>6
    <2> QED
      BY <1>3, <1>5, <1>7, <1>16, <2>1, TransKept DEF Ind
  <1>18. MemberInv'
    BY <1>3, <1>5, <1>6, <1>7, MemberKept DEF Ind
  <1>19. Given'
    <2>1. \A q \in RoomIds : \/ room'[q].plan = room[q].plan \/ room[q].plan = 0
                             \/ room[q].plan \in taken'.plans
      <3> TAKE q \in RoomIds
      <3>1. room[q].plan = p => p = 0 \/ p \in taken'.plans
        BY <1>5
      <3> QED
        BY <3>1, <1>12
    <2> QED
      BY <1>3, <1>5, <1>6, <2>1, GivenKept DEF Ind
  <1>20. TypeOK'
    <2>1. lock' \in Seq(LockTasks)
      BY <1>2, <1>4, RunType DEF Ind
    <2>2. aborted' \in BOOLEAN
      BY <1>2 DEF Ind, TypeOK
    <2> QED
      BY <1>3, <1>5, <1>6, <2>1, <2>2 DEF Ind, TypeOK, DeleteStart, people, chan
  <1> QED
    BY <1>9, <1>13, <1>14, <1>15, <1>17, <1>18, <1>19, <1>20 DEF Ind

\* How a deletion ends: the room it began with is forgotten, or nothing is.
LEMMA DeleteEndFacts ==
    ASSUME Ind, DeleteEnd
    PROVE  LET r == trans.room IN
           /\ lock # <<>> /\ lock[1].kind = "delete" /\ lock[1].run /\ Done
           /\ live' = live \ {lock[1].plan} /\ UNCHANGED opened /\ UNCHANGED made
           /\ deleting' = FALSE /\ load' \in LoadRecords /\ row' \in {"active", "archived", "gone"}
           /\ MembersSame /\ PlanSame /\ OpeningSame /\ ClosingSame /\ HoldsSame
           /\ room' \in [RoomIds -> RoomRecords] /\ \A q \in RoomIds : q # r => room'[q] = room[q]
           /\ \/ /\ UNCHANGED room /\ UNCHANGED current /\ UNCHANGED taken
                 /\ \/ trans' = NoTrans
                    \/ current # 0 /\ trans' = [kind |-> "reopen", at |-> "closing",
                                                room |-> current, plan |-> 0]
              \/ /\ r \in RoomIds /\ trans' = NoTrans /\ room'[r].timer # "armed"
                 /\ current' = (IF current = r THEN 0 ELSE current)
                 /\ taken' = [taken EXCEPT !.rooms = @ \cup {r}]
  <1>1. PICK r : r = trans.room
    OBVIOUS
  <1>2. lock # <<>> /\ lock[1].kind = "delete" /\ lock[1].run /\ Done
    BY DEF DeleteEnd, Ends, First
  <1>3. live' = live \ {lock[1].plan} /\ UNCHANGED opened /\ deleting' = FALSE
    BY DEF DeleteEnd, ClosePlan
  <1>4. trans.kind = "delete"
    BY <1>2, HeadRoom DEF Ind, Transitions
  <1>5. r \in 0 .. made /\ (r # 0 => r \in RoomIds)
    BY <1>1, <1>4, RoomsBound DEF Ind, TransInv
  <1>6. \/ /\ UNCHANGED <<map, taken>> /\ load' \in LoadRecords /\ row' \in {"active", "archived", "gone"}
           /\ \/ trans' = NoTrans
              \/ current # 0 /\ trans' = [kind |-> "reopen", at |-> "closing",
                                          room |-> current, plan |-> 0]
        \/ /\ r # 0 /\ trans' = NoTrans /\ load' \in LoadRecords /\ row' \in {"active", "archived", "gone"}
           /\ Forget(r) /\ room' = [room EXCEPT ![r] = Forgotten(@)]
           /\ taken' = [taken EXCEPT !.rooms = @ \cup {r}]
    BY <1>1, FailureType DEF Ind, TypeOK, DeleteEnd
  <1>7. CASE /\ UNCHANGED <<map, taken>> /\ load' \in LoadRecords /\ row' \in {"active", "archived", "gone"}
             /\ \/ trans' = NoTrans
                \/ current # 0 /\ trans' = [kind |-> "reopen", at |-> "closing",
                                            room |-> current, plan |-> 0]
    <2>1. UNCHANGED room /\ UNCHANGED current /\ UNCHANGED made /\ UNCHANGED taken
      BY <1>7 DEF map
    <2>2. MembersSame /\ PlanSame /\ OpeningSame /\ ClosingSame /\ HoldsSame
      BY <2>1, RoomUnchanged
    <2>3. room' \in [RoomIds -> RoomRecords] /\ \A q \in RoomIds : room'[q] = room[q]
      BY <2>1 DEF Ind, TypeOK
    <2> QED
      BY <1>2, <1>3, <1>7, <2>1, <2>2, <2>3
  <1>8. CASE /\ r # 0 /\ trans' = NoTrans /\ load' \in LoadRecords /\ row' \in {"active", "archived", "gone"}
             /\ Forget(r) /\ room' = [room EXCEPT ![r] = Forgotten(@)]
             /\ taken' = [taken EXCEPT !.rooms = @ \cup {r}]
    <2>1. r \in RoomIds /\ room[r] \in RoomRecords
      BY <1>5, <1>8 DEF Ind, TypeOK
    <2>2. PICK f : f = Forgotten(room[r])
      OBVIOUS
    <2>3. /\ f \in RoomRecords /\ f.members = room[r].members /\ f.plan = room[r].plan
          /\ f.opening = room[r].opening /\ f.holds = room[r].holds /\ f.closing = room[r].closing
          /\ f.timer # "armed"
      BY <2>1, <2>2, ForgottenFields
    <2>4. room' = [room EXCEPT ![r] = f]
      BY <1>8, <2>2
    <2>5. /\ room' \in [RoomIds -> RoomRecords] /\ room'[r] = f
          /\ \A q \in RoomIds : q # r => room'[q] = room[q]
      BY <2>1, <2>3, <2>4, RoomSet DEF Ind
    <2>6. MembersSame /\ PlanSame /\ OpeningSame /\ ClosingSame /\ HoldsSame
      BY <2>3, <2>5 DEF MembersSame, PlanSame, OpeningSame, ClosingSame, HoldsSame
    <2>7. UNCHANGED made /\ current' = (IF current = r THEN 0 ELSE current)
      BY <1>8 DEF Forget
    <2> QED
      BY <1>1, <1>2, <1>3, <1>8, <2>1, <2>3, <2>5, <2>6, <2>7
  <1> QED
    BY <1>6, <1>7, <1>8

LEMMA DeleteEndKeeps == ASSUME Ind, DeleteEnd PROVE Ind'
  <1>r. PICK r : r = trans.room
    OBVIOUS
  <1>1. /\ lock # <<>> /\ lock[1].kind = "delete" /\ lock[1].run /\ Done
        /\ live' = live \ {lock[1].plan} /\ UNCHANGED opened /\ UNCHANGED made
        /\ deleting' = FALSE /\ load' \in LoadRecords /\ row' \in {"active", "archived", "gone"}
        /\ MembersSame /\ PlanSame /\ OpeningSame /\ ClosingSame /\ HoldsSame
        /\ room' \in [RoomIds -> RoomRecords] /\ \A q \in RoomIds : q # r => room'[q] = room[q]
    BY <1>r, DeleteEndFacts
  <1>2. \/ /\ UNCHANGED room /\ UNCHANGED current /\ UNCHANGED taken
           /\ \/ trans' = NoTrans
              \/ current # 0 /\ trans' = [kind |-> "reopen", at |-> "closing",
                                          room |-> current, plan |-> 0]
        \/ /\ r \in RoomIds /\ trans' = NoTrans /\ room'[r].timer # "armed"
           /\ current' = (IF current = r THEN 0 ELSE current)
           /\ taken' = [taken EXCEPT !.rooms = @ \cup {r}]
    BY <1>r, DeleteEndFacts
  <1>3. UNCHANGED sock /\ UNCHANGED shown /\ UNCHANGED ask
    BY DEF DeleteEnd, people
  <1>4. trans.kind = "delete"
    BY <1>1, HeadRoom DEF Ind, Transitions
  <1>5. made' \in Nat /\ made' >= made /\ made \in Nat
    BY <1>1, RoomsBound DEF Ind
  <1>6. current' = current \/ current' = 0
    BY <1>2
  <1>7. /\ taken' \in [plans: SUBSET Nat, rooms: SUBSET RoomIds]
        /\ taken'.plans = taken.plans
        /\ taken'.rooms = taken.rooms \/ (r \in RoomIds /\ taken'.rooms = taken.rooms \cup {r})
    <2>1. taken \in [plans: SUBSET Nat, rooms: SUBSET RoomIds]
      BY DEF Ind, TypeOK
    <2>2. CASE taken' = taken
      BY <2>1, <2>2
    <2>3. CASE r \in RoomIds /\ taken' = [taken EXCEPT !.rooms = @ \cup {r}]
      BY <2>1, <2>3
    <2> QED
      BY <1>2, <2>2, <2>3
  <1>8. \A q \in RoomIds :
            /\ room'[q].opening = (room[q].opening /\ ~(lock[1].kind = "open" /\ lock[1].room = q))
            /\ room'[q].closing = (room[q].closing /\ ~(lock[1].kind = "close" /\ lock[1].room = q))
    <2> TAKE q \in RoomIds
    <2>1. room[q].opening \in BOOLEAN /\ room[q].closing \in BOOLEAN
      BY RoomFields DEF Ind, TypeOK
    <2>2. room'[q].opening = room[q].opening /\ room'[q].closing = room[q].closing
      BY <1>1 DEF OpeningSame, ClosingSame
    <2> QED
      BY <2>1, <2>2, <1>1
  <1>9. QueueInv' /\ NoneRuns'
    BY <1>1, <1>5, <1>8, QueuePop DEF Ind, Done, Transitions
  <1>10. PlanInv'
    BY <1>1, <1>9, OwnersPopped DEF Ind, Runs, OpeningSame
  <1>11. \A q \in RoomIds : ~Holding(q) /\ ~Holding(q)'
    <2>1. trans'.kind \in {"none", "reopen"}
      BY <1>2, NoTransFields
    <2> QED
      BY <1>4, <2>1 DEF Holding
  <1>12. \A q \in RoomIds : room[q].holds = 0
    BY <1>4 DEF Ind, Held, HoldInv
  <1>13. Held'
    BY <1>1, <1>11, HeldKept DEF Ind, ClosingSame
  <1>14. Stale'
    <2> SUFFICES ASSUME NEW q \in RoomIds PROVE StaleInv(q)'
      BY DEF Stale
    <2>1. StaleInv(q) /\ q \in Nat /\ q > 0
      BY RoomsBound DEF Ind, Stale
    <2>2. /\ Members(room'[q]) = Members(room[q]) /\ room'[q].holds = 0
          /\ room'[q].closing = room[q].closing /\ room'[q].plan = room[q].plan
      BY <1>1, <1>12, MembersEmpty DEF MembersSame, HoldsSame, ClosingSame, PlanSame
    <2>3. CASE /\ UNCHANGED room /\ UNCHANGED current /\ UNCHANGED taken
      BY <1>1, <2>1, <2>2, <2>3 DEF StaleInv
    <2>4. CASE /\ r \in RoomIds /\ trans' = NoTrans /\ room'[r].timer # "armed"
               /\ current' = (IF current = r THEN 0 ELSE current)
               /\ taken' = [taken EXCEPT !.rooms = @ \cup {r}]
      <3>1. taken'.rooms = taken.rooms \cup {r}
        BY <2>4 DEF Ind, TypeOK
      <3>2. CASE q = r
        <4>1. q <= made /\ q # current'
          BY <1>r, <1>4, <2>1, <2>4, <3>2, <1>5 DEF Ind, TransInv
        <4>2. room[q].plan = 0
          <5>1. CASE q = current
            <6>1. CurrentPlan = 0
              BY <1>1 DEF Ind, PlanInv
            <6> QED
              BY <5>1, <6>1, <2>1 DEF CurrentPlan
          <5>2. CASE q # current
            BY <1>r, <1>4, <2>1, <3>2, <5>2 DEF Ind, TransInv
          <5> QED
            BY <5>1, <5>2
        <4> QED
          BY <1>1, <1>5, <2>1, <2>2, <2>4, <3>1, <3>2, <4>1, <4>2 DEF StaleInv
      <3>3. CASE q # r
        <4>1. room'[q] = room[q] /\ (q # current' => q # current)
          BY <1>1, <2>4, <3>3
        <4>2. q \in taken'.rooms => q # current' /\ q <= made
          BY <2>1, <2>4, <3>1, <3>3 DEF StaleInv
        <4> QED
          BY <1>1, <2>1, <2>2, <3>1, <3>3, <4>1, <4>2 DEF StaleInv
      <3> QED
        BY <3>2, <3>3
    <2> QED
      BY <1>2, <2>3, <2>4
  <1>15. TransInv' /\ trans' \in Transits
    <2>1. CASE trans' = NoTrans
      BY <1>1, <2>1, TransOver, NoTransFields, RoomsBound DEF Ind
    <2>2. CASE /\ UNCHANGED current /\ UNCHANGED taken
               /\ current # 0 /\ trans' = [kind |-> "reopen", at |-> "closing",
                                           room |-> current, plan |-> 0]
      <3>1. /\ trans'.kind = "reopen" /\ trans'.at = "closing" /\ trans'.room = current
            /\ trans'.plan = 0
        BY <2>2
      <3>2. current \in 1 .. made /\ current \in RoomIds /\ current \in 0 .. MaxRooms
        BY <2>2, RoomsBound DEF Ind
      <3>3. current \notin taken.rooms
        BY <3>2 DEF Ind, Stale, StaleInv
      <3>4. TransInv'
        BY <1>1, <2>2, <3>1, <3>2, <3>3 DEF TransInv
      <3>5. trans' \in Transits
        BY <2>2, <3>2 DEF Transits
      <3> QED
        BY <3>4, <3>5
    <2> QED
      BY <1>2, <2>1, <2>2
  <1>16. MemberInv'
    BY <1>1, <1>3, <1>5, <1>7, MemberKept DEF Ind
  <1>17. Given'
    BY <1>1, <1>3, <1>6, <1>7, GivenKept DEF Ind, PlanSame
  <1>18. TypeOK'
    <2>1. lock' \in Seq(LockTasks)
      BY <1>1, DoneType DEF Ind
    <2>2. current' \in 0 .. made'
      BY <1>1, <1>5, <1>6, RoomsBound DEF Ind
    <2>3. live' \subseteq 1 .. opened'
      BY <1>1 DEF Ind, TypeOK
    <2> QED
      BY <1>1, <1>7, <1>15, <2>1, <2>2, <2>3 DEF Ind, TypeOK, DeleteEnd, people, chat
  <1> QED
    BY <1>9, <1>10, <1>13, <1>14, <1>15, <1>16, <1>17, <1>18 DEF Ind

-----------------------------------------------------------------------------
(* Every state.                                                            *)

LEMMA InitInd == ASSUME Init PROVE Ind
  <1>1. \A r \in RoomIds : room[r] = Empty
    BY DEF Init
  <1>2. \A r \in RoomIds :
          /\ room[r].plan = 0 /\ ~room[r].opening /\ ~room[r].closing
          /\ room[r].timer = "none" /\ room[r].holds = 0 /\ Members(room[r]) = {}
          /\ \A c \in Clients : room[r].members[c] = NoSocket
    BY <1>1, EmptyFields
  <1>3. NoAsk.at = "none" /\ NoAsk \in Asks
    BY LoadAssumption DEF NoAsk, Asks
  <1>4. /\ made = 0 /\ current = 0 /\ lock = <<>> /\ live = {} /\ opened = 0 /\ trans = NoTrans
        /\ taken.plans = {} /\ taken.rooms = {} /\ deleting = FALSE
    BY DEF Init
  <1>5. \A s \in Sockets : sock[s] = "new" /\ ask[s].at = "none" /\ shown[s] = 0
    BY <1>3 DEF Init
  <1>6. MaxRooms \in Nat /\ RoomIds = 1 .. MaxRooms
    BY LoadAssumption DEF RoomIds
  <1>7. TypeOK
    <2>1. room \in [RoomIds -> RoomRecords]
      BY EmptyFields DEF Init
    <2>2. made \in 0 .. MaxRooms /\ current \in 0 .. made /\ live \subseteq 1 .. opened /\ opened \in Nat
      BY <1>4, <1>6
    <2>3. lock \in Seq(LockTasks)
      BY <1>4
    <2>4. taken \in [plans: SUBSET Nat, rooms: SUBSET RoomIds]
      BY DEF Init
    <2>5. /\ sock \in [Sockets -> {"new", "in", "gone"}] /\ shown \in [Sockets -> Nat]
          /\ ask \in [Sockets -> Asks]
      BY <1>3 DEF Init
    <2>6. trans \in Transits
      BY <1>4, <1>6, NoTransFields
    <2>7. /\ archiving \in BOOLEAN /\ deleting \in BOOLEAN
          /\ row \in {"active", "archived", "gone"}
          /\ turn \in Nat /\ aborted \in BOOLEAN /\ tool \in BOOLEAN
      BY DEF Init
    <2>8. load \in LoadRecords
      BY LoadAssumption DEF Init
    <2> QED
      BY <2>1, <2>2, <2>3, <2>4, <2>5, <2>6, <2>7, <2>8 DEF TypeOK
  <1>8. QueueInv
    <2>1. Indices = {}
      BY <1>4 DEF Indices
    <2> QED
      BY <1>2, <2>1 DEF QueueInv
  <1>9. PlanInv
    BY <1>2, <1>4 DEF PlanInv
  <1>10. TransInv
    BY <1>4, NoTransFields DEF TransInv
  <1>11. MemberInv
    BY <1>2, <1>5 DEF MemberInv
  <1>12. Stale
    <2> SUFFICES ASSUME NEW r \in RoomIds PROVE StaleInv(r)
      BY DEF Stale
    <2> QED
      BY <1>1, <1>2, <1>4 DEF StaleInv
  <1>13. Held
    BY <1>2, <1>4, NoTransFields DEF Held, HoldInv
  <1>14. Given
    BY <1>4 DEF Given
  <1> QED
    BY <1>7, <1>8, <1>9, <1>10, <1>11, <1>12, <1>13, <1>14 DEF Ind

LEMMA StepKeeps == ASSUME Ind, Step PROVE Ind'
  <1>1. CASE OpenStart
    BY <1>1, OpenStartKeeps
  <1>2. CASE OpenEnd
    BY <1>2, OpenEndKeeps
  <1>3. CASE CloseStart
    BY <1>3, CloseStartKeeps
  <1>4. CASE CloseEnd
    BY <1>4, CloseEndKeeps
  <1>5. CASE DetachedStart
    BY <1>5, DetachedStartKeeps
  <1>6. CASE DetachedEnd
    BY <1>6, DetachedEndKeeps
  <1>7. CASE ToolRun
    BY <1>7, ToolRunKeeps
  <1>8. CASE TurnEnd
    BY <1>8, TurnEndKeeps
  <1>9. CASE WorkRun
    BY <1>9, WorkRunKeeps
  <1>10. CASE WorkDone
    BY <1>10, WorkEndsKeeps
  <1>11. CASE Suspended
    BY <1>11, SuspendedKeeps
  <1>12. CASE ArchiveStart
    BY <1>12, ArchiveStartKeeps
  <1>13. CASE ArchiveEnd
    BY <1>13, ArchiveEndKeeps
  <1>14. CASE RestoreRun
    BY <1>14, RestoreRunKeeps
  <1>15. CASE DeleteStart
    BY <1>15, DeleteStartKeeps
  <1>16. CASE DeleteEnd
    BY <1>16, DeleteEndKeeps
  <1>17. CASE Reopened
    BY <1>17, ReopenedKeeps
  <1>18. CASE \E r \in RoomIds : Fire(r)
    BY <1>18, FireKeeps
  <1>19. CASE \E s \in Sockets : Greet(s)
    BY <1>19, GreetKeeps
  <1> QED
    BY <1>1, <1>2, <1>3, <1>4, <1>5, <1>6, <1>7, <1>8, <1>9, <1>10, <1>11, <1>12, <1>13,
       <1>14, <1>15, <1>16, <1>17, <1>18, <1>19 DEF Step

LEMMA NextKeeps == ASSUME Ind, [Next]_vars PROVE Ind'
  <1>1. CASE UNCHANGED vars
    BY <1>1, StutterKeeps
  <1>2. CASE WorkHeld
    BY <1>2, WorkHeldKeeps
  <1>3. CASE ReopenPlan
    BY <1>3, ReopenPlanKeeps
  <1>4. CASE \E s \in Sockets : AskAgain(s)
    BY <1>4, AskAgainKeeps
  <1>5. CASE Step
    BY <1>5, StepKeeps
  <1>6. CASE Detach
    BY <1>6, DetachKeeps
  <1>7. CASE TurnStart
    BY <1>7, TurnStartKeeps
  <1>8. CASE ToolCall
    BY <1>8, ToolCallKeeps
  <1>9. CASE Work
    BY <1>9, WorkKeeps
  <1>10. CASE WorkLock
    BY <1>10, WorkLockKeeps
  <1>11. CASE \E kind \in {"archive", "restore", "delete"} : Begin(kind)
    BY <1>11, BeginKeeps
  <1>12. CASE ~Pending /\ \E s \in Sockets : Join(s)
    BY <1>12, JoinKeeps
  <1>13. CASE \E s \in Sockets : Leave(s)
    BY <1>13, LeaveKeeps
  <1>14. CASE \E s \in Sockets : Ask(s)
    BY <1>14, AskKeeps
  <1> QED
    BY <1>1, <1>2, <1>3, <1>4, <1>5, <1>6, <1>7, <1>8, <1>9, <1>10, <1>11, <1>12, <1>13,
       <1>14 DEF Next, Resume

\* What every state of the rooms satisfies.
LEMMA Always == Spec => []Ind
  <1> QED
    BY InitInd, NextKeeps, PTL DEF Spec

-----------------------------------------------------------------------------
(* What follows of a state.                                                *)

\* The owners of a document are one room, or one task.
LEMMA OwnedOnce == ASSUME Ind PROVE PlansOwned
  <1>1. ASSUME NEW p \in live
        PROVE  Cardinality({r \in RoomIds : room[r].plan = p})
                 + (IF lock # <<>> /\ lock[1].run /\ lock[1].plan = p THEN 1 ELSE 0) = 1
    <2>0. p # 0
      BY DEF Ind, TypeOK
    <2>1. CASE Running(p)
      <3>1. {r \in RoomIds : room[r].plan = p} = {}
        BY <2>0, <2>1 DEF Ind, PlanInv
      <3>2. Cardinality({r \in RoomIds : room[r].plan = p}) = 0
        BY <3>1, FS_EmptySet
      <3> QED
        BY <2>1, <3>2 DEF Running
    <2>2. CASE ~Running(p)
      <3>1. PICK q \in RoomIds : room[q].plan = p
        BY <2>2 DEF Ind, PlanInv
      <3>2. \A r \in RoomIds : room[r].plan = p => r = q
        BY <2>0, <3>1 DEF Ind, PlanInv
      <3>3. {r \in RoomIds : room[r].plan = p} = {q}
        BY <3>1, <3>2
      <3>4. Cardinality({r \in RoomIds : room[r].plan = p}) = 1
        BY <3>3, FS_Singleton
      <3> QED
        BY <2>2, <3>4 DEF Running
    <2> QED
      BY <2>1, <2>2
  <1> QED
    BY <1>1 DEF PlansOwned, Ind, PlanInv

\* Two documents of rooms that are in the map, or of tasks of the document, are the same.
LEMMA OneOwner ==
    ASSUME Ind, NEW p \in live, ~Stray(p)
    PROVE  IF Runs /\ lock[1].plan # 0 /\ ~(lock[1].kind = "open" /\ lock[1].room # current)
           THEN p = lock[1].plan ELSE p = CurrentPlan
  <1>0. p # 0
    BY DEF Ind, TypeOK
  <1>1. CASE Running(p)
    <2>1. Runs /\ lock[1].plan = p /\ lock # <<>>
      BY <1>1 DEF Running, Runs
    <2>2. ~(lock[1].kind = "open" /\ lock[1].room # current)
      <3> SUFFICES ASSUME lock[1].kind = "open", lock[1].room # current PROVE FALSE
        OBVIOUS
      <3>1. lock[1].room \in RoomIds
        BY <2>1, HeadRoom DEF Ind
      <3> QED
        BY <2>1, <3>1 DEF Stray, Ends, First, Runs
    <2> QED
      BY <1>0, <2>1, <2>2
  <1>2. CASE ~Running(p)
    <2>1. PICK q \in RoomIds : room[q].plan = p
      BY <1>2 DEF Ind, PlanInv
    <2>2. q = current
      BY <2>1 DEF Stray
    <2>3. current # 0 /\ CurrentPlan = p
      BY <2>1, <2>2, RoomsBound DEF Ind, CurrentPlan
    <2>4. ~(Runs /\ lock[1].plan # 0 /\ ~(lock[1].kind = "open" /\ lock[1].room # current))
      BY <1>0, <2>3 DEF Ind, PlanInv, Runs
    <2> QED
      BY <2>3, <2>4
  <1> QED
    BY <1>1, <1>2

LEMMA AtMostOne == ASSUME Ind PROVE OneDocument
  <1>1. PICK p : p = IF Runs /\ lock[1].plan # 0 /\ ~(lock[1].kind = "open" /\ lock[1].room # current)
                     THEN lock[1].plan ELSE CurrentPlan
    OBVIOUS
  <1>2. {q \in live : ~Stray(q)} \in SUBSET {p}
    BY <1>1, OneOwner
  <1>3. IsFiniteSet({p}) /\ Cardinality({p}) = 1
    BY FS_Singleton
  <1> QED
    BY <1>2, <1>3, FS_Subset DEF OneDocument

LEMMA InReach == ASSUME Ind PROVE MembersReachable
  <1> SUFFICES ASSUME NEW r \in RoomIds, NEW c \in Clients, room[r].members[c] # NoSocket
               PROVE  /\ r = current \/ r \in taken.rooms
                      /\ sock[room[r].members[c]] = "in" \/ r \in taken.rooms
    BY DEF MembersReachable
  <1>1. c \in Members(room[r])
    BY DEF Members
  <1>2. r = current \/ r \in taken.rooms
    BY <1>1 DEF Ind, Stale, StaleInv
  <1> QED
    BY <1>2 DEF Ind, MemberInv

LEMMA GivenHolds == ASSUME Ind PROVE GivenPlanStays
  <1>1. ASSUME trans.kind = "work", trans.at \in {"opened", "locked"}
        PROVE  /\ trans.room = current /\ room[current].plan = trans.plan
               /\ trans.plan \in live
    <2>1. trans.room = current /\ room[current].plan = trans.plan /\ trans.plan # 0
          /\ current \in 1 .. made
      BY <1>1 DEF Ind, TransInv
    <2>2. current \in RoomIds
      BY <2>1, RoomsBound DEF Ind
    <2> QED
      BY <2>1, <2>2 DEF Ind, PlanInv
  <1> QED
    BY <1>1 DEF GivenPlanStays, Ind, Given

-----------------------------------------------------------------------------
(* Who leaves a room.                                                      *)

LEMMA MembersPut ==
    ASSUME TypeOK, NEW r, NEW x, r \in RoomIds => x.members = room[r].members,
           room' = [room EXCEPT ![r] = x]
    PROVE  MembersSame
  <1> SUFFICES ASSUME NEW q \in RoomIds PROVE room'[q].members = room[q].members
    BY DEF MembersSame
  <1>1. room'[q] = IF q = r THEN x ELSE room[q]
    BY DEF TypeOK
  <1> QED
    BY <1>1

LEMMA FieldPut ==
    ASSUME NEW z \in RoomRecords, NEW b
    PROVE  /\ [z EXCEPT !.opening = b].members = z.members
           /\ [z EXCEPT !.closing = b].members = z.members
           /\ [z EXCEPT !.plan = b].members = z.members
           /\ [z EXCEPT !.holds = b].members = z.members
           /\ [z EXCEPT !.timer = b].members = z.members
           /\ [z EXCEPT !.opening = FALSE, !.plan = b].members = z.members
           /\ [[z EXCEPT !.timer = "none"] EXCEPT !.closing = b].members = z.members
  BY DEF RoomRecords

\* One field of a room changes, other than its members.
LEMMA MembersField ==
    ASSUME TypeOK, NEW r, NEW b,
           \/ room' = [room EXCEPT ![r].opening = b]
           \/ room' = [room EXCEPT ![r].closing = b]
           \/ room' = [room EXCEPT ![r].plan = b]
           \/ room' = [room EXCEPT ![r].opening = FALSE, ![r].plan = b]
    PROVE  MembersSame
  <1>1. PICK z : z = room[r]
    OBVIOUS
  <1>2. r \in RoomIds => z \in RoomRecords
    BY <1>1 DEF TypeOK
  <1>3. PICK x \in {[z EXCEPT !.opening = b], [z EXCEPT !.closing = b], [z EXCEPT !.plan = b],
                    [z EXCEPT !.opening = FALSE, !.plan = b]} :
            room' = [room EXCEPT ![r] = x]
    <2>1. CASE room' = [room EXCEPT ![r].opening = b]
      BY <2>1, <1>1
    <2>2. CASE room' = [room EXCEPT ![r].closing = b]
      BY <2>2, <1>1
    <2>3. CASE room' = [room EXCEPT ![r].plan = b]
      BY <2>3, <1>1
    <2>4. CASE room' = [room EXCEPT ![r].opening = FALSE, ![r].plan = b]
      <3>1. PICK x : x = [z EXCEPT !.opening = FALSE, !.plan = b]
        OBVIOUS
      <3>2. room' = [room EXCEPT ![r] = x]
        BY <2>4, <1>1, <3>1 DEF TypeOK
      <3> QED
        BY <3>1, <3>2
    <2> QED
      BY <2>1, <2>2, <2>3, <2>4
  <1>4. ASSUME r \in RoomIds PROVE x.members = room[r].members
    <2>1. /\ [z EXCEPT !.opening = b].members = z.members
          /\ [z EXCEPT !.closing = b].members = z.members
          /\ [z EXCEPT !.plan = b].members = z.members
          /\ [z EXCEPT !.opening = FALSE, !.plan = b].members = z.members
      BY <1>2, <1>4, FieldPut
    <2> QED
      BY <1>1, <1>3, <2>1
  <1> QED
    BY <1>3, <1>4, MembersPut

LEMMA PlanForMembers ==
    ASSUME TypeOK, NEW r, NEW to, PlanFor(r, to)
    PROVE  MembersSame
  <1>1. UNCHANGED room \/ room' = [room EXCEPT ![r].opening = TRUE]
    BY DEF PlanFor
  <1> QED
    BY <1>1, RoomUnchanged, MembersField

LEMMA FireMembers ==
    ASSUME TypeOK, NEW r \in RoomIds, Fire(r)
    PROVE  MembersSame
  <1>1. PICK x : x = [room[r] EXCEPT !.timer = "none"]
    OBVIOUS
  <1>2. PICK b : room' = [room EXCEPT ![r] = [x EXCEPT !.closing = b]]
    <2>1. room' = [room EXCEPT ![r] = [x EXCEPT !.closing = x.closing \/ (~Used(x) /\ ~x.closing)]]
      BY <1>1 DEF Fire
    <2> QED
      BY <2>1
  <1>3. room[r] \in RoomRecords
    BY DEF TypeOK
  <1>4. [x EXCEPT !.closing = b].members = room[r].members
    BY <1>1, <1>3, FieldPut
  <1> QED
    BY <1>2, <1>4, MembersPut

LEMMA OpenMembers ==
    ASSUME TypeOK, OpenStart \/ OpenEnd
    PROVE  MembersSame
  <1>1. PICK r : r = lock[1].room
    OBVIOUS
  <1>2. PICK p : p = lock[1].plan
    OBVIOUS
  <1>3. \/ UNCHANGED room \/ room' = [room EXCEPT ![r].opening = FALSE]
        \/ room' = [room EXCEPT ![r].opening = FALSE, ![r].plan = p]
    BY <1>1, <1>2 DEF OpenStart, OpenEnd
  <1> QED
    BY <1>3, RoomUnchanged, MembersField

LEMMA CloseMembers ==
    ASSUME Ind, CloseStart \/ CloseEnd
    PROVE  MembersSame
  <1>1. CASE CloseStart
    <2>1. PICK r : r = lock[1].room
      OBVIOUS
    <2>2. room' = [room EXCEPT ![r].closing = FALSE] \/ room' = [room EXCEPT ![r].plan = 0]
      BY <1>1, <2>1 DEF CloseStart
    <2> QED
      BY <2>2, MembersField DEF Ind
  <1>2. CASE CloseEnd
    <2>1. PICK r : r = lock[1].room
      OBVIOUS
    <2>2. /\ \A q \in RoomIds : q # r => room'[q] = room[q]
          /\ room'[r].members = room[r].members
      BY <1>2, <2>1, CloseEndFacts
    <2> QED
      BY <2>2 DEF MembersSame
  <1> QED
    BY <1>1, <1>2

LEMMA WorkMembers ==
    ASSUME Ind, Work \/ WorkHeld \/ WorkDone
    PROVE  MembersSame
  <1>1. CASE Work \/ WorkHeld
    <2>1. HoldPlan \/ UNCHANGED room
      BY <1>1 DEF Work, WorkHeld, map
    <2> QED
      BY <2>1, HoldFacts, RoomUnchanged
  <1>2. CASE WorkDone
    <2>1. PICK r : r = trans.room
      OBVIOUS
    <2>2. PICK n : n = room[r].holds - 1
      OBVIOUS
    <2>3. PICK y : y = [room[r] EXCEPT !.holds = n]
      OBVIOUS
    <2>4. room' = [room EXCEPT ![r] = Evict(y)]
      BY <1>2, <2>1, <2>2, <2>3 DEF WorkDone
    <2>5. trans.kind = "work" /\ trans.at # "closing"
      BY <1>2 DEF WorkDone
    <2>6. r \in RoomIds /\ room[r] \in RoomRecords /\ n \in Nat
      <3>1. r \in RoomIds /\ HoldInv(r) /\ room[r] \in RoomRecords
        BY <2>1, <2>5, RoomsBound DEF Ind, TransInv, Held, TypeOK
      <3>2. room[r].holds = 1
        BY <1>2, <2>1, <3>1 DEF HoldInv, WorkDone
      <3> QED
        BY <2>2, <3>1, <3>2
    <2>7. y \in RoomRecords /\ y.members = room[r].members
      BY <2>3, <2>6 DEF RoomRecords
    <2>8. Evict(y).members = room[r].members
      BY <2>7, EvictFields
    <2> QED
      BY <2>4, <2>8, MembersPut DEF Ind
  <1> QED
    BY <1>1, <1>2

LEMMA DeleteMembers ==
    ASSUME Ind, DeleteStart \/ DeleteEnd
    PROVE  MembersSame
  <1>1. CASE DeleteStart
    <2>1. UNCHANGED room \/ room' = [room EXCEPT ![current].plan = 0]
      BY <1>1 DEF DeleteStart
    <2> QED
      BY <2>1, RoomUnchanged, MembersField DEF Ind
  <1>2. CASE DeleteEnd
    BY <1>2, DeleteEndFacts
  <1> QED
    BY <1>1, <1>2

LEMMA AskMembers ==
    ASSUME Ind, NEW s \in Sockets, Ask(s) \/ AskAgain(s) \/ Greet(s)
    PROVE  MembersSame
  <1>1. UNCHANGED room \/ \E r, to : PlanFor(r, to)
    BY DEF Ask, AskAgain, Greet, map
  <1> QED
    BY <1>1, RoomUnchanged, PlanForMembers DEF Ind

\* Nobody but a socket that comes or goes changes who is in a room.
LEMMA OthersMembers ==
    ASSUME Ind, \/ Resume \/ Step \/ Detach \/ TurnStart \/ ToolCall \/ Work \/ WorkLock
                \/ \E kind \in {"archive", "restore", "delete"} : Begin(kind)
                \/ \E s \in Sockets : Ask(s)
                \/ UNCHANGED vars
    PROVE  MembersSame
  <1>1. CASE \/ Detach \/ TurnStart \/ ToolCall \/ WorkLock \/ UNCHANGED vars
             \/ \E kind \in {"archive", "restore", "delete"} : Begin(kind)
             \/ DetachedStart \/ DetachedEnd \/ ToolRun \/ TurnEnd \/ WorkRun
             \/ Suspended \/ ArchiveStart \/ ArchiveEnd \/ RestoreRun \/ Reopened
    <2>1. UNCHANGED room
      BY <1>1 DEF Detach, TurnStart, ToolCall, WorkLock, Begin, DetachedStart, DetachedEnd, ToolRun,
                  TurnEnd, WorkRun, Suspended, ArchiveStart, ArchiveEnd, RestoreRun, Reopened,
                  map, vars
    <2> QED
      BY <2>1, RoomUnchanged
  <1>2. CASE OpenStart \/ OpenEnd
    BY <1>2, OpenMembers DEF Ind
  <1>3. CASE CloseStart \/ CloseEnd
    BY <1>3, CloseMembers
  <1>4. CASE Work \/ WorkHeld \/ WorkDone
    BY <1>4, WorkMembers
  <1>5. CASE DeleteStart \/ DeleteEnd
    BY <1>5, DeleteMembers
  <1>6. CASE \E r \in RoomIds : Fire(r)
    BY <1>6, FireMembers DEF Ind
  <1>7. CASE \E s \in Sockets : Ask(s) \/ AskAgain(s) \/ Greet(s)
    BY <1>7, AskMembers
  <1>8. CASE ReopenPlan
    <2>1. \E r, to : PlanFor(r, to)
      BY <1>8 DEF ReopenPlan
    <2> QED
      BY <2>1, PlanForMembers DEF Ind
  <1> QED
    BY <1>1, <1>2, <1>3, <1>4, <1>5, <1>6, <1>7, <1>8 DEF Resume, Step

\* Who stays in the rooms of a step.
Stays ==
    \A r \in RoomIds, c \in Clients :
        LET s == room[r].members[c] IN
        s # NoSocket /\ sock'[s] = "in" => room'[r].members[c] # NoSocket

LEMMA NextStays == ASSUME Ind, [Next]_vars PROVE Stays
  <1>1. CASE MembersSame
    BY <1>1 DEF Stays, MembersSame
  <1>2. CASE \E s \in Sockets : Join(s)
    <2> PICK s \in Sockets : Join(s)
      BY <1>2
    <2>1. /\ Opened \in RoomIds
          /\ room'[Opened].members = [room[Opened].members EXCEPT ![ClientOf[s]] = s]
          /\ \A q \in RoomIds : q # Opened => room'[q] = room[q]
      BY JoinFacts
    <2>2. room[Opened].members \in [Clients -> Sockets \cup {NoSocket}] /\ s # NoSocket
      BY <2>1, RoomFields, SocketAssumption DEF Ind, TypeOK
    <2>3. ASSUME NEW r \in RoomIds, NEW c \in Clients, room[r].members[c] # NoSocket
          PROVE  room'[r].members[c] # NoSocket
      <3>1. CASE r = Opened
        BY <2>1, <2>2, <2>3, <3>1
      <3>2. CASE r # Opened
        BY <2>1, <2>3, <3>2
      <3> QED
        BY <3>1, <3>2
    <2> QED
      BY <2>3 DEF Stays
  <1>3. CASE \E s \in Sockets : Leave(s)
    <2> PICK s \in Sockets : Leave(s)
      BY <1>3
    <2>1. /\ sock' = [sock EXCEPT ![s] = "gone"]
          /\ \A r \in RoomIds : r = current \/ room'[r] = room[r]
          /\ current # 0 =>
               \A c \in Clients : room'[current].members[c] =
                   IF c = ClientOf[s] /\ room[current].members[c] = s THEN NoSocket
                   ELSE room[current].members[c]
      BY LeaveFacts
    <2>2. sock'[s] = "gone"
      BY <2>1 DEF Ind, TypeOK
    <2>3. ASSUME NEW r \in RoomIds, NEW c \in Clients, room[r].members[c] # NoSocket,
                 sock'[room[r].members[c]] = "in"
          PROVE  room'[r].members[c] # NoSocket
      <3>1. room[r].members[c] # s
        BY <2>2, <2>3
      <3>2. CASE r = current
        <4>1. r # 0
          BY RoomsBound DEF Ind
        <4> QED
          BY <2>1, <2>3, <3>1, <3>2, <4>1
      <3>3. CASE r # current
        BY <2>1, <2>3, <3>3
      <3> QED
        BY <3>2, <3>3
    <2> QED
      BY <2>3 DEF Stays
  <1>4. MembersSame \/ (\E s \in Sockets : Join(s)) \/ (\E s \in Sockets : Leave(s))
    BY OthersMembers DEF Next
  <1> QED
    BY <1>1, <1>2, <1>3, <1>4

-----------------------------------------------------------------------------
(* The theorems.                                                           *)

LEMMA Whole == ASSUME Ind PROVE RoomsInv
  BY OwnedOnce, AtMostOne, InReach DEF Ind, Stale, Held, RoomsInv

(* An open document has one owner, and what is not stray is one document;  *)
(* members find their room; an opening or a closing that a room waits for  *)
(* has its task in the document lock, a held room does not close, and the  *)
(* room of a transition is the one in the map: for any sockets, tabs,      *)
(* numbers of room objects and loads (plan, closeRoom, prepareOpenedPlan   *)
(* and deleteChannelLocked of main.ts, and rooms.ts).                      *)
THEOREM RoomsConsistent == Spec => []RoomsInv
  <1>1. Ind => RoomsInv
    BY Whole
  <1> QED
    BY <1>1, Always, PTL

(* Whoever was greeted with a document and is still in the room keeps it,  *)
(* unless a deletion took it; work keeps the document it was given open    *)
(* and attached until it releases the room (evict, closeRoom and the holds *)
(* of main.ts).                                                            *)
THEOREM PlansStay == Spec => []GivenPlanStays
  <1>1. Ind => GivenPlanStays
    BY GivenHolds
  <1> QED
    BY <1>1, Always, PTL

(* Only a socket's own close, or a newer socket of its tab, takes a member *)
(* out of its room (closeRoomSocket and Rooms.leave).                      *)
THEOREM MembersStay == Spec => MemberStays
  <1>1. Ind /\ [Next]_vars => Stays
    BY NextStays
  <1>2. Stays => \A r \in RoomIds, c \in Clients :
                   LET s == room[r].members[c] IN
                   s # NoSocket /\ sock'[s] = "in" => room'[r].members[c] # NoSocket
    BY DEF Stays
  <1> QED
    BY <1>1, <1>2, Always, PTL DEF Spec, MemberStays
=============================================================================
