-------------------------------- MODULE Rooms --------------------------------
(***************************************************************************)
(* The room of one document in the server process: who is in it, the open  *)
(* document ("plan") attached to it, and everything that attaches, closes  *)
(* or takes it away.                                                       *)
(*                                                                         *)
(* A room object lives in the map of rooms.ts until it is forgotten; an    *)
(* operation that kept the object may still act on it afterwards, so room  *)
(* objects are numbered.  The document lock (withDocumentLock) is a queue  *)
(* of tasks, one of which runs; the transition lock (withDocumentTransition)*)
(* only excludes, so one transition is in progress at a time.  What waits  *)
(* for room.closing goes on as soon as the closing is over (`Pending'),    *)
(* before any timer, socket or database reply is handled.                  *)
(***************************************************************************)
EXTENDS Integers, Sequences, FiniteSets

CONSTANTS
    Sockets, Clients, NoSocket,
    ClientOf,           \* the tab a socket belongs to; a reload is a new socket of its tab
    MaxRooms,           \* bound on room objects
    Loads               \* the loads a behaviour may start with: the sockets that come, and
                        \* how many transitions (archive, restore, delete, server work),
                        \* Planner turns, detached openings and failures there can be
                        \* (`failed': one has happened)

ASSUME SocketAssumption == NoSocket \notin Sockets /\ ClientOf \in [Sockets -> Clients]
LoadRecords == [sockets: SUBSET Sockets, trans: Nat, turns: Nat, detached: Nat, faults: Nat,
                failed: BOOLEAN]

ASSUME LoadAssumption == MaxRooms \in Nat /\ Loads \subseteq LoadRecords

VARIABLES
    room,           \* the room objects
    made, current,  \* how many were made; the one in the map, or 0
    lock,           \* the tasks of the document lock, the first one running
    live,           \* plans that are open
    opened,         \* how many were opened
    taken,          \* plans a deletion took, rooms it dropped
    sock, ask, shown,   \* sockets; their plan:open; the plan they were greeted with
    trans,          \* the transition in progress
    archiving, deleting, row,
    turn, aborted, tool,    \* the plan whose Chat runs a turn; it waits for a tool
    load            \* what is left of the load

map    == <<room, made, current>>
plans  == <<live, opened, taken>>
people == <<sock, ask, shown>>
chan   == <<trans, archiving, deleting, row>>
chat   == <<turn, aborted, tool>>
vars   == <<map, lock, plans, people, chan, chat, load>>

RoomIds == 1 .. MaxRooms
Empty   == [members |-> [c \in Clients |-> NoSocket], plan |-> 0, opening |-> FALSE,
            closing |-> FALSE, timer |-> "none", holds |-> 0]
Task(kind, r) == [kind |-> kind, room |-> r, plan |-> 0, run |-> FALSE]
NoAsk   == [at |-> "none", room |-> 0, plan |-> 0]
NoTrans == [kind |-> "none", at |-> "none", room |-> 0, plan |-> 0]

Kinds == {"open", "close", "archive", "restore", "delete", "work", "detached", "tool"}

RoomRecords == [members: [Clients -> Sockets \cup {NoSocket}], plan: Nat, opening: BOOLEAN,
                closing: BOOLEAN, timer: {"none", "armed", "dead"}, holds: Nat]
LockTasks   == [kind: Kinds, room: 0 .. MaxRooms, plan: Nat, run: BOOLEAN]
Asks        == [at: {"none", "closing", "opening", "opened", "done"}, room: 0 .. MaxRooms, plan: Nat]
Transits    == [kind: {"none", "work", "archive", "restore", "delete", "reopen"},
                at: {"none", "closing", "opening", "opened", "suspend", "locked", "release"},
                room: 0 .. MaxRooms, plan: Nat]

TypeOK ==
    /\ room \in [RoomIds -> RoomRecords]
    /\ made \in 0 .. MaxRooms /\ current \in 0 .. made
    /\ lock \in Seq(LockTasks)
    /\ live \subseteq 1 .. opened /\ opened \in Nat
    /\ taken \in [plans: SUBSET Nat, rooms: SUBSET RoomIds]
    /\ sock \in [Sockets -> {"new", "in", "gone"}] /\ shown \in [Sockets -> Nat]
    /\ ask \in [Sockets -> Asks]
    /\ trans \in Transits
    /\ archiving \in BOOLEAN /\ deleting \in BOOLEAN
    /\ row \in {"active", "archived", "gone"}
    /\ turn \in Nat /\ aborted \in BOOLEAN /\ tool \in BOOLEAN
    /\ load \in LoadRecords

Init ==
    /\ room = [r \in RoomIds |-> Empty] /\ made = 0 /\ current = 0
    /\ lock = <<>> /\ live = {} /\ opened = 0 /\ taken = [plans |-> {}, rooms |-> {}]
    /\ sock = [s \in Sockets |-> "new"] /\ ask = [s \in Sockets |-> NoAsk]
    /\ shown = [s \in Sockets |-> 0]
    /\ trans = NoTrans /\ archiving = FALSE /\ deleting = FALSE
    /\ row \in {"active", "archived"}
    /\ turn = 0 /\ aborted = FALSE /\ tool = FALSE
    /\ load \in Loads

Spend(b) == load[b] > 0 /\ load' = [load EXCEPT ![b] = @ - 1]

-----------------------------------------------------------------------------
(* The map of rooms.                                                       *)

Members(x) == {c \in Clients : x.members[c] # NoSocket}
Used(x)    == Members(x) # {} \/ x.holds > 0

CurrentPlan   == IF current = 0 THEN 0 ELSE room[current].plan
CurrentCloses == current # 0 /\ room[current].closing

\* Rooms.open: the room in the map, or a new one.
Opened == IF current = 0 THEN made + 1 ELSE current

\* rooms' after `x' is stored as the room Rooms.open returned.
Store(x) ==
    /\ Opened \in RoomIds
    /\ room' = [room EXCEPT ![Opened] = x]
    /\ made' = IF current = 0 THEN made + 1 ELSE made
    /\ current' = Opened

\* evict: a timer, unless one is armed or somebody uses the room.
Evict(x) == IF x.timer # "none" \/ Used(x) THEN x ELSE [x EXCEPT !.timer = "armed"]

\* Rooms.forget clears the timer and leaves its handle in the room.
Forget(r) == /\ current' = IF current = r THEN 0 ELSE current
             /\ UNCHANGED made
Forgotten(x) == IF x.timer = "none" THEN x ELSE [x EXCEPT !.timer = "dead"]

Join(s) ==
    /\ s \in load.sockets /\ sock[s] = "new"
    /\ sock' = [sock EXCEPT ![s] = "in"]
    /\ Store([room[Opened] EXCEPT !.members[ClientOf[s]] = s, !.timer = "none"])
    /\ UNCHANGED <<lock, plans, ask, shown, chan, chat, load>>

\* Mutation: the socket's tab leaves, whichever socket it has now.
LeaveClient(s) ==
    /\ sock[s] = "in"
    /\ sock' = [sock EXCEPT ![s] = "gone"]
    /\ room' = IF current = 0 THEN room
               ELSE [room EXCEPT ![current] = Evict([@ EXCEPT !.members[ClientOf[s]] = NoSocket])]
    /\ UNCHANGED <<made, current, lock, plans, ask, shown, chan, chat, load>>

\* closeRoomSocket: looks the room up again, and removes only this socket.
Leave(s) ==
    /\ sock[s] = "in"
    /\ sock' = [sock EXCEPT ![s] = "gone"]
    /\ room' = IF current = 0 THEN room
               ELSE [room EXCEPT ![current] =
                        Evict(IF @.members[ClientOf[s]] # s THEN @
                              ELSE [@ EXCEPT !.members[ClientOf[s]] = NoSocket])]
    /\ UNCHANGED <<made, current, lock, plans, ask, shown, chan, chat, load>>

\* The eviction timer: closeRoom, unless a closing is in flight.
Fire(r) ==
    /\ room[r].timer = "armed"
    /\ LET x == [room[r] EXCEPT !.timer = "none"]
           closes == ~Used(x) /\ ~x.closing
       IN /\ room' = [room EXCEPT ![r] = [x EXCEPT !.closing = @ \/ closes]]
          /\ lock' = IF closes THEN Append(lock, Task("close", r)) ELSE lock
    /\ UNCHANGED <<made, current, plans, people, chan, chat, load>>

-----------------------------------------------------------------------------
(* plan(): attach the document to a room, once.                            *)

\* Mutation: an opening in flight is not shared.
PlanForTwice(r, to) ==
    \/ deleting /\ to.at = "failed" /\ UNCHANGED <<room, lock>>
    \/ /\ ~deleting /\ room[r].plan # 0
       /\ to.at = "opened" /\ to.plan = room[r].plan
       /\ UNCHANGED <<room, lock>>
    \/ /\ ~deleting /\ room[r].plan = 0 /\ to.at = "opening"
       /\ room' = [room EXCEPT ![r].opening = TRUE]
       /\ lock' = Append(lock, Task("open", r))

\* After room.closing: refused, shared with the opening in flight, already there,
\* or opened in a task of its own.  `to' is where the caller waits then.
PlanFor(r, to) ==
    \/ deleting /\ to.at = "failed" /\ UNCHANGED <<room, lock>>
    \/ ~deleting /\ room[r].opening /\ to.at = "opening" /\ UNCHANGED <<room, lock>>
    \/ /\ ~deleting /\ ~room[r].opening /\ room[r].plan # 0
       /\ to.at = "opened" /\ to.plan = room[r].plan
       /\ UNCHANGED <<room, lock>>
    \/ /\ ~deleting /\ ~room[r].opening /\ room[r].plan = 0 /\ to.at = "opening"
       /\ room' = [room EXCEPT ![r].opening = TRUE]
       /\ lock' = Append(lock, Task("open", r))

Waits == {"failed", "opening", "opened"}

\* A plan:open; a refusal or a failure ends it.
Wait(r, to) == IF to.at = "failed" THEN [NoAsk EXCEPT !.at = "done"]
               ELSE [at |-> to.at, room |-> r, plan |-> to.plan]

\* receive, "plan:open".
Ask(s) ==
    /\ sock[s] = "in" /\ ask[s] = NoAsk /\ current # 0 /\ ~deleting
    /\ \/ /\ room[current].closing
          /\ ask' = [ask EXCEPT ![s] = [at |-> "closing", room |-> current, plan |-> 0]]
          /\ UNCHANGED <<room, lock>>
       \/ /\ ~room[current].closing
          /\ \E at \in Waits, p \in {0, room[current].plan} :
               /\ PlanFor(current, [at |-> at, plan |-> p])
               /\ (p = 0) = (at # "opened")
               /\ ask' = [ask EXCEPT ![s] = Wait(current, [at |-> at, plan |-> p])]
    /\ UNCHANGED <<made, current, plans, sock, shown, chan, chat, load>>

AskAgain(s) ==
    LET r == ask[s].room IN
    /\ ask[s].at = "closing" /\ ~room[r].closing
    /\ \E at \in Waits, p \in {0, room[r].plan} :
         /\ PlanFor(r, [at |-> at, plan |-> p])
         /\ (p = 0) = (at # "opened")
         /\ ask' = [ask EXCEPT ![s] = Wait(r, [at |-> at, plan |-> p])]
    /\ UNCHANGED <<made, current, plans, sock, shown, chan, chat, load>>

\* greetJoinedPlan checks once more that socket, room and plan still belong together.
Greet(s) ==
    LET r == ask[s].room IN
    /\ ask[s].at = "opened"
    /\ ask' = [ask EXCEPT ![s] = [NoAsk EXCEPT !.at = "done"]]
    /\ shown' = IF /\ current = r /\ room[r].plan = ask[s].plan
                   /\ ~room[r].closing /\ ~deleting
                   /\ sock[s] = "in" /\ room[r].members[ClientOf[s]] = s
                THEN [shown EXCEPT ![s] = ask[s].plan] ELSE shown
    /\ UNCHANGED <<map, lock, plans, sock, chan, chat, load>>

\* room.opening settles with plan p, or 0 when it rejects: whoever waits goes on.
SettleOpening(r, p) ==
    /\ ask' = [s \in Sockets |->
                 IF ask[s].at = "opening" /\ ask[s].room = r
                 THEN Wait(r, [at |-> IF p = 0 THEN "failed" ELSE "opened", plan |-> p])
                 ELSE ask[s]]
    /\ trans' = IF trans.at = "opening" /\ trans.room = r
                THEN [trans EXCEPT !.at = IF p = 0 THEN "release" ELSE "opened", !.plan = p]
                ELSE trans
    /\ UNCHANGED <<sock, shown, archiving, deleting, row>>

-----------------------------------------------------------------------------
(* The tasks of the document lock.  A task starts when it is first in the  *)
(* queue; those that wait for storage end in a second step.                *)

First(kind) == lock # <<>> /\ lock[1].kind = kind
Starts(kind) == First(kind) /\ ~lock[1].run
Ends(kind) == First(kind) /\ lock[1].run
Run(p) == lock' = <<[lock[1] EXCEPT !.run = TRUE, !.plan = p]>> \o Tail(lock)
Done == lock' = Tail(lock)

Failure == load.faults > 0 /\ load' = [load EXCEPT !.faults = @ - 1, !.failed = TRUE]

\* Service.open builds the document from storage.
OpenPlan == /\ opened' = opened + 1
            /\ live' = live \cup {opened + 1}
            /\ UNCHANGED taken
ClosePlan(p) == live' = live \ {p} /\ UNCHANGED opened

OpenStart ==
    LET r == lock[1].room IN
    /\ Starts("open")
    /\ \/ /\ deleting \/ row = "gone"
          /\ Done /\ SettleOpening(r, 0)
          /\ room' = [room EXCEPT ![r].opening = FALSE]
          /\ UNCHANGED <<plans, load>>
       \/ /\ ~deleting /\ row # "gone" /\ Failure
          /\ Done /\ SettleOpening(r, 0)
          /\ room' = [room EXCEPT ![r].opening = FALSE]
          /\ UNCHANGED plans
       \/ /\ ~deleting /\ row # "gone"
          /\ OpenPlan /\ Run(opened + 1)
          /\ UNCHANGED <<room, people, chan, load>>
    /\ UNCHANGED <<made, current, chat>>

\* prepareOpenedPlan: a room that began to close gets no document.
MayAttach(r) == ~room[r].closing

OpenEnd ==
    LET r == lock[1].room   p == lock[1].plan IN
    /\ Ends("open") /\ Done
    /\ \/ /\ MayAttach(r)
          /\ room' = [room EXCEPT ![r].opening = FALSE, ![r].plan = p]
          /\ SettleOpening(r, p)
          /\ UNCHANGED <<plans, load>>
       \/ /\ MayAttach(r) /\ Failure      \* a step after the attachment fails
          /\ room' = [room EXCEPT ![r].opening = FALSE, ![r].plan = p]
          /\ SettleOpening(r, 0)
          /\ UNCHANGED plans
       \/ /\ ~MayAttach(r)                \* abortOpening
          /\ room' = [room EXCEPT ![r].opening = FALSE]
          /\ ClosePlan(p) /\ UNCHANGED taken
          /\ SettleOpening(r, 0)
          /\ UNCHANGED load
    /\ UNCHANGED <<made, current, chat>>

\* closeRoom, under the lock: nobody came back meanwhile.
MayClose(x) == ~Used(x)

\* Mutation: a closing that gives up leaves room.closing behind.
CloseStartStays ==
    LET r == lock[1].room IN
    /\ Starts("close")
    /\ \/ ~MayClose(room[r]) /\ Done /\ UNCHANGED <<room, aborted>>
       \/ /\ MayClose(room[r])
          /\ Run(room[r].plan)
          /\ room' = [room EXCEPT ![r].plan = 0]
          /\ aborted' = (aborted \/ turn # 0)
    /\ UNCHANGED <<made, current, plans, people, chan, turn, tool, load>>

CloseStart ==
    LET r == lock[1].room IN
    /\ Starts("close")
    /\ \/ /\ ~MayClose(room[r])
          /\ Done
          /\ room' = [room EXCEPT ![r].closing = FALSE]
          /\ UNCHANGED aborted
       \/ /\ MayClose(room[r])
          /\ Run(room[r].plan)
          /\ room' = [room EXCEPT ![r].plan = 0]
          /\ aborted' = (aborted \/ turn # 0)     \* conversationRuntime.stop, Chat.close
    /\ UNCHANGED <<made, current, plans, people, chan, turn, tool, load>>

\* Mutation: the closed room is forgotten even when somebody joined it meanwhile.
ForgetJoined(x) == TRUE

\* A room somebody joined while it closed stays, without its document.
MayForget(x) == Members(x) = {}

\* Service.close waits for Chat's turn.  When it fails the room stays as it is.
CloseEnd ==
    LET r == lock[1].room   x == [room[r] EXCEPT !.closing = FALSE]   p == lock[1].plan IN
    /\ Ends("close") /\ (p = 0 \/ turn # p) /\ Done
    /\ ClosePlan(p) /\ UNCHANGED taken
    /\ \/ /\ IF MayForget(x) THEN Forget(r) ELSE UNCHANGED <<made, current>>
          /\ room' = [room EXCEPT ![r] = IF MayForget(x) THEN Forgotten(x) ELSE x]
          /\ UNCHANGED load
       \/ /\ p # 0 /\ Failure
          /\ room' = [room EXCEPT ![r] = x]
          /\ UNCHANGED <<made, current>>
    /\ UNCHANGED <<people, chan, chat>>

\* Work on the attached document, or on one opened for it alone: notices,
\* decisions, research references.
DetachedStart ==
    /\ Starts("detached")
    /\ IF CurrentPlan # 0 \/ row = "gone"
       THEN Done /\ UNCHANGED plans
       ELSE OpenPlan /\ Run(opened + 1)
    /\ UNCHANGED <<map, people, chan, chat, load>>

DetachedEnd ==
    /\ Ends("detached") /\ Done /\ ClosePlan(lock[1].plan)
    /\ UNCHANGED <<map, taken, people, chan, chat, load>>

Detach ==
    /\ Spend("detached")
    /\ lock' = Append(lock, Task("detached", 0))
    /\ UNCHANGED <<map, plans, people, chan, chat>>

-----------------------------------------------------------------------------
(* A Planner turn of the attached document, and its host tools that wait   *)
(* for the document lock.                                                  *)

TurnStart ==
    /\ Spend("turns")
    /\ turn = 0 /\ current # 0 /\ room[current].plan # 0
    /\ ~room[current].closing /\ ~archiving /\ ~deleting /\ row = "active"
    /\ turn' = room[current].plan /\ aborted' = FALSE
    /\ UNCHANGED <<map, lock, plans, people, chan, tool>>

\* Mutation: the tool queues on the lock whether or not the room is closing.
MayQueueToolAlways == TRUE

\* placeResearchReference, placeInvestigationReference, setBuildBlocker: closing
\* waits for Chat while it holds the lock, so a tool does not wait behind it.
MayQueueTool == ~CurrentCloses

ToolCall ==
    /\ turn # 0 /\ ~aborted /\ ~tool /\ MayQueueTool
    /\ tool' = TRUE
    /\ lock' = Append(lock, Task("tool", 0))
    /\ UNCHANGED <<map, plans, people, chan, turn, aborted, load>>

ToolRun ==
    /\ Starts("tool") /\ Done
    /\ tool' = FALSE
    /\ UNCHANGED <<map, plans, people, chan, turn, aborted, load>>

TurnEnd ==
    /\ turn # 0 /\ ~tool
    /\ turn' = 0
    /\ UNCHANGED <<map, lock, plans, people, chan, aborted, tool, load>>

-----------------------------------------------------------------------------
(* Transitions of the document.                                            *)

MayBegin == trans = NoTrans /\ Spend("trans")

\* Rooms.hold, then plan() for the held room.
HoldPlan ==
    /\ Opened \in RoomIds
    /\ LET r == Opened
           x == [room[r] EXCEPT !.timer = "none", !.holds = @ + 1]
           opens == ~x.opening /\ x.plan = 0
       IN /\ room' = [room EXCEPT ![r] = [x EXCEPT !.opening = @ \/ opens]]
          /\ lock' = IF opens THEN Append(lock, Task("open", r)) ELSE lock
          /\ made' = IF current = 0 THEN made + 1 ELSE made
          /\ current' = r
          /\ trans' = [kind |-> "work", room |-> r, plan |-> IF x.opening THEN 0 ELSE x.plan,
                       at |-> IF x.opening \/ opens THEN "opening" ELSE "opened"]

\* Mutation: the room is held while it closes.
WorkAnyway ==
    /\ MayBegin /\ HoldPlan
    /\ UNCHANGED <<plans, people, archiving, deleting, row, chat>>

\* withImplementationPlan, withChildPlan, serverInstruction: wait for a closing, hold.
Work ==
    /\ MayBegin
    /\ \/ /\ CurrentCloses
          /\ trans' = [kind |-> "work", at |-> "closing", room |-> current, plan |-> 0]
          /\ UNCHANGED <<map, lock>>
       \/ /\ ~CurrentCloses
          /\ HoldPlan
    /\ UNCHANGED <<plans, people, archiving, deleting, row, chat>>

WorkHeld ==
    /\ trans.kind = "work" /\ trans.at = "closing" /\ ~room[trans.room].closing
    /\ HoldPlan
    /\ UNCHANGED <<plans, people, archiving, deleting, row, chat, load>>

\* withImplementationPlan works under the document lock, the others do not.
WorkLock ==
    /\ trans.kind = "work" /\ trans.at = "opened"
    /\ trans' = [trans EXCEPT !.at = "locked"]
    /\ lock' = Append(lock, Task("work", trans.room))
    /\ UNCHANGED <<map, plans, people, archiving, deleting, row, chat, load>>

WorkRun ==
    /\ Starts("work") /\ Done
    /\ trans' = [trans EXCEPT !.at = "release"]
    /\ UNCHANGED <<map, plans, people, archiving, deleting, row, chat, load>>

\* Mutation: nobody evicts the room once its hold is released.
WorkDoneKeeps ==
    /\ trans.kind = "work" /\ trans.at \in {"opened", "release"}
    /\ trans' = NoTrans
    /\ room' = [room EXCEPT ![trans.room].holds = @ - 1]
    /\ UNCHANGED <<made, current, lock, plans, people, archiving, deleting, row, chat, load>>

\* The hold is released and the room evicted if nobody else uses it.
WorkDone ==
    LET x == [room[trans.room] EXCEPT !.holds = @ - 1] IN
    /\ trans.kind = "work" /\ trans.at \in {"opened", "release"}
    /\ trans' = NoTrans
    /\ room' = [room EXCEPT ![trans.room] = Evict(x)]
    /\ UNCHANGED <<made, current, lock, plans, people, archiving, deleting, row, chat, load>>

\* archiveChannelLocked, restoreChannelLocked, deleteChannelLocked up to their lock.
Begin(kind) ==
    /\ MayBegin
    /\ (kind = "archive") = (row = "active") /\ row # "gone"
    /\ archiving' = (kind = "archive") /\ deleting' = (kind = "delete")
    /\ trans' = [kind |-> kind, at |-> "suspend", room |-> current, plan |-> 0]
    /\ UNCHANGED <<map, lock, plans, people, row, chat>>

Suspended ==
    /\ trans.at = "suspend"
    /\ trans' = [trans EXCEPT !.at = "locked"]
    /\ lock' = Append(lock, Task(trans.kind, 0))
    /\ UNCHANGED <<map, plans, people, archiving, deleting, row, chat, load>>

\* The Planner is reset and what it left is saved before the row changes.
ArchiveStart ==
    /\ Starts("archive") /\ Run(0)
    /\ aborted' = (aborted \/ turn # 0)
    /\ UNCHANGED <<map, plans, people, chan, turn, tool, load>>

ArchiveEnd ==
    /\ Ends("archive") /\ Done
    /\ row' = "archived" /\ archiving' = FALSE /\ trans' = NoTrans
    /\ UNCHANGED <<map, plans, people, deleting, chat, load>>

RestoreRun ==
    /\ Starts("restore") /\ Done
    /\ row' = "active" /\ trans' = NoTrans
    /\ UNCHANGED <<map, plans, people, archiving, deleting, chat, load>>

\* The deletion takes the document of the room that is in the map now.
DeleteStart ==
    LET p == CurrentPlan IN
    /\ Starts("delete") /\ Run(p)
    /\ room' = IF current = 0 THEN room ELSE [room EXCEPT ![current].plan = 0]
    /\ taken' = [taken EXCEPT !.plans = @ \cup ({p} \ {0})]
    /\ aborted' = (aborted \/ turn # 0)
    /\ UNCHANGED <<made, current, live, opened, people, chan, turn, tool, load>>

\* The row is deleted and the room it began with is forgotten; or the deletion
\* fails and the room that survives gets its document back.
DeleteEnd ==
    LET p == lock[1].plan   r == trans.room IN
    /\ Ends("delete") /\ (p = 0 \/ turn # p) /\ Done
    /\ ClosePlan(p) /\ deleting' = FALSE
    /\ \/ /\ row' = "gone" /\ trans' = NoTrans
          /\ IF r = 0 THEN UNCHANGED <<map, taken>>
             ELSE /\ Forget(r)
                  /\ room' = [room EXCEPT ![r] = Forgotten(@)]
                  /\ taken' = [taken EXCEPT !.rooms = @ \cup {r}]
          /\ UNCHANGED load
       \/ /\ Failure
          /\ trans' = IF current # 0 /\ Members(room[current]) # {}
                      THEN [kind |-> "reopen", at |-> "closing", room |-> current, plan |-> 0]
                      ELSE NoTrans
          /\ UNCHANGED <<map, taken, row>>
    /\ UNCHANGED <<people, archiving, chat>>

ReopenPlan ==
    LET r == trans.room IN
    /\ trans.kind = "reopen" /\ trans.at = "closing" /\ ~room[r].closing
    /\ \E at \in Waits, p \in {0, room[r].plan} :
         /\ PlanFor(r, [at |-> at, plan |-> p]) /\ (p = 0) = (at # "opened")
         /\ trans' = [trans EXCEPT !.at = at, !.plan = p]
    /\ UNCHANGED <<made, current, plans, people, archiving, deleting, row, chat, load>>

Reopened ==
    /\ trans.kind = "reopen" /\ trans.at \in {"opened", "release"}
    /\ trans' = NoTrans
    /\ UNCHANGED <<map, lock, plans, people, archiving, deleting, row, chat, load>>

-----------------------------------------------------------------------------
\* Somebody waited for a closing that is over.
Pending ==
    \/ \E s \in Sockets : ask[s].at = "closing" /\ ~room[ask[s].room].closing
    \/ trans.at = "closing" /\ ~room[trans.room].closing

Resume == WorkHeld \/ ReopenPlan \/ \E s \in Sockets : AskAgain(s)

\* What the process does by itself, as opposed to what people ask of it.
Step ==
    \/ OpenStart \/ OpenEnd \/ CloseStart \/ CloseEnd \/ DetachedStart \/ DetachedEnd
    \/ ToolRun \/ TurnEnd \/ WorkRun \/ WorkDone
    \/ Suspended \/ ArchiveStart \/ ArchiveEnd \/ RestoreRun \/ DeleteStart \/ DeleteEnd \/ Reopened
    \/ \E r \in RoomIds : Fire(r)
    \/ \E s \in Sockets : Greet(s)

Next ==
    \/ Resume
    \/ ~Pending /\ Step
    \/ ~Pending /\ (Detach \/ TurnStart \/ ToolCall \/ Work \/ WorkLock)
    \/ ~Pending /\ \E kind \in {"archive", "restore", "delete"} : Begin(kind)
    \/ ~Pending /\ \E s \in Sockets : Join(s) \/ Leave(s) \/ Ask(s)

Spec == Init /\ [][Next]_vars

(* Microtasks run, tasks of the lock get their database replies, timers    *)
(* fire and turns end: each is the process's own step.  Nobody has to      *)
(* join, leave or ask.                                                     *)
Fairness ==
    /\ WF_vars(Resume)
    /\ WF_vars(~Pending /\ (OpenStart \/ OpenEnd \/ CloseStart \/ CloseEnd
                            \/ DetachedStart \/ DetachedEnd \/ ToolRun \/ WorkRun
                            \/ ArchiveStart \/ ArchiveEnd \/ RestoreRun
                            \/ DeleteStart \/ DeleteEnd))
    /\ WF_vars(~Pending /\ (WorkDone \/ Suspended \/ Reopened))
    /\ WF_vars(~Pending /\ TurnEnd)
    /\ \A r \in RoomIds : WF_vars(~Pending /\ Fire(r))
    /\ \A s \in Sockets : WF_vars(~Pending /\ Greet(s))

LiveSpec == Spec /\ Fairness

-----------------------------------------------------------------------------
(* Properties.                                                             *)

\* p belongs to a room that is no longer in the map.
Stray(p) ==
    \E r \in RoomIds \ {current} :
        room[r].plan = p \/ (Ends("open") /\ lock[1].room = r /\ lock[1].plan = p)

(* closeRoom, prepareOpenedPlan and deleteChannelLocked: a document that   *)
(* is open belongs to one room, or to the task that opened or closes it,   *)
(* and a room never exposes a document that has been closed.               *)
PlansOwned ==
    /\ \A r \in RoomIds : room[r].plan # 0 => room[r].plan \in live
    /\ \A p \in live :
         Cardinality({r \in RoomIds : room[r].plan = p})
           + (IF lock # <<>> /\ lock[1].run /\ lock[1].plan = p THEN 1 ELSE 0) = 1

(* The comment on `plan': two clients opening at the same moment must not  *)
(* build two documents.  Through openings, evictions, holds, detached work *)
(* and deletions there is at most one open document, apart from those of   *)
(* rooms the map has forgotten.                                            *)
OneDocument == Cardinality({p \in live : ~Stray(p)}) <= 1

(* The same for every document the process has open, as the comment says   *)
(* it.                                                                     *)
OneDocumentEver == Cardinality(live) <= 1

(* Rooms.forget: nobody is left in a room that is no longer in the map,    *)
(* unless the document was deleted, so a message of a member finds its     *)
(* room; and a socket that closed is nowhere a member.                     *)
MembersReachable ==
    \A r \in RoomIds, c \in Clients :
        room[r].members[c] # NoSocket =>
            /\ r = current \/ r \in taken.rooms
            /\ sock[room[r].members[c]] = "in" \/ r \in taken.rooms

(* leave: a reload whose new socket joins before the old one closes stays  *)
(* a member; only its own close, or a newer socket of its tab, takes a     *)
(* member out of its room.                                                 *)
MemberStays ==
    [][\A r \in RoomIds, c \in Clients :
         LET s == room[r].members[c] IN
         s # NoSocket /\ sock'[s] = "in" => room'[r].members[c] # NoSocket]_vars

-----------------------------------------------------------------------------
(* Why they hold.                                                          *)

Transitions == {"work", "archive", "restore", "delete"}
Indices     == 1 .. Len(lock)

\* A room that opens or closes has one task that does, and opens before it closes; a
\* transition has at most one task, and waits for it.
QueueInv ==
    /\ \A i \in Indices :
          /\ lock[i].run => i = 1
          /\ lock[i].kind \in {"open", "close"} => lock[i].room \in 1 .. made
          /\ lock[i].kind = "open" => room[lock[i].room].opening
          /\ lock[i].kind = "close" => room[lock[i].room].closing
          /\ lock[i].kind \in Transitions => trans.kind = lock[i].kind /\ trans.at = "locked"
    /\ \A i, j \in Indices :
          i < j => /\ /\ lock[i].kind \in {"open", "close"} /\ lock[j].kind \in {"open", "close"}
                      /\ lock[i].room = lock[j].room
                      => lock[i].kind = "open" /\ lock[j].kind = "close"
                   /\ ~(lock[i].kind \in Transitions /\ lock[j].kind \in Transitions)
    /\ \A r \in RoomIds : room[r].opening =>
          \E i \in Indices : lock[i].kind = "open" /\ lock[i].room = r

\* The task that has its document runs.
Running(p) == lock # <<>> /\ lock[1].run /\ lock[1].plan = p

\* A document has one owner, and while a task has one the room in the map has none.
PlanInv ==
    /\ \A r \in RoomIds :
          /\ room[r].plan # 0 =>
                /\ room[r].plan \in live /\ ~Running(room[r].plan)
                /\ \A q \in RoomIds \ {r} : room[q].plan # room[r].plan
          /\ room[r].opening => room[r].plan = 0
    /\ \A p \in live : Running(p) \/ \E r \in RoomIds : room[r].plan = p
    /\ lock # <<>> /\ lock[1].run =>
          /\ lock[1].plan # 0 =>
                /\ lock[1].plan \in live
                /\ (lock[1].kind = "open" /\ lock[1].room # current) \/ CurrentPlan = 0
          /\ lock[1].kind = "open" => lock[1].plan # 0
          /\ lock[1].kind = "close" =>
                /\ room[lock[1].room].plan = 0 /\ ~room[lock[1].room].opening
                /\ room[lock[1].room].holds = 0
          /\ lock[1].kind = "delete" => CurrentPlan = 0
          /\ lock[1].kind = "archive" => lock[1].plan = 0

\* A room that is not in the map, or not yet, is held by nothing and closed by nothing; only
\* a deletion leaves people in it.
StaleInv(r) ==
    /\ r # current =>
          /\ room[r].holds = 0 /\ room[r].timer # "armed"
          /\ room[r].closing => room[r].plan = 0
          /\ r \notin taken.rooms => ~room[r].closing /\ Members(room[r]) = {}
    /\ r > made => room[r] = Empty
    /\ r \in taken.rooms => r # current /\ r <= made

\* Work holds its room, and what is held does not close.
HoldInv(r) ==
    /\ room[r].holds = IF /\ trans.kind = "work" /\ trans.room = r
                          /\ trans.at \in {"opening", "opened", "locked", "release"}
                       THEN 1 ELSE 0
    /\ room[r].holds > 0 => ~room[r].closing

\* The room of a transition is the one in the map, or was taken out of it for good.
TransInv ==
    /\ deleting = (trans.kind = "delete")
    /\ trans.kind = "none" => trans = NoTrans
    /\ trans.kind = "work" =>
          /\ trans.at \in {"closing", "opening", "opened", "locked", "release"}
          /\ trans.room \in 1 .. made
          /\ trans.at # "closing" => trans.room = current
          /\ trans.at = "closing" => trans.room = current \/ current = 0
          /\ trans.at \in {"opened", "locked"} => trans.plan # 0 /\ trans.plan = room[current].plan
    /\ trans.kind = "reopen" =>
          /\ trans.at \in {"closing", "opening", "opened", "release"}
          /\ trans.room \in 1 .. made
    /\ trans.kind \in {"archive", "restore", "delete"} => trans.at \in {"suspend", "locked"}
    /\ trans.kind = "delete" =>
          /\ trans.room \in 0 .. made
          /\ trans.room \notin {0, current} =>
                room[trans.room].plan = 0 /\ ~room[trans.room].opening
    /\ trans.at = "closing" => trans.room \notin taken.rooms

\* A member's socket has joined, and its tab is where it says.
MemberInv ==
    /\ \A r \in RoomIds, c \in Clients :
          LET s == room[r].members[c] IN
          s # NoSocket => /\ ClientOf[s] = c /\ sock[s] # "new"
                          /\ sock[s] = "in" \/ r \in taken.rooms
    /\ \A s \in Sockets :
          /\ sock[s] = "new" => shown[s] = 0
          /\ ask[s].at \in {"closing", "opening", "opened"} => ask[s].room \in 1 .. made

(* The room, its document and its members belong together.                *)
RoomsInv ==
    /\ TypeOK /\ PlansOwned /\ OneDocument /\ MembersReachable
    /\ QueueInv /\ PlanInv /\ TransInv /\ MemberInv
    /\ \A r \in RoomIds : StaleInv(r) /\ HoldInv(r)

(* evict, closeRoom and deleteChannelLocked against a socket that joins    *)
(* and against work that holds the room (the comment on MCP holds in       *)
(* rooms.ts): whoever was greeted with a document and is still in the room *)
(* keeps that document, unless a deletion took it, and work keeps the      *)
(* document it was given open and attached until it releases the room.     *)
GivenPlanStays ==
    /\ \A s \in Sockets :
         /\ current # 0 /\ sock[s] = "in" /\ room[current].members[ClientOf[s]] = s
         /\ shown[s] # 0 /\ shown[s] \notin taken.plans
         => room[current].plan = shown[s]
    /\ trans.kind = "work" /\ trans.at \in {"opened", "locked"} =>
         /\ trans.room = current /\ room[current].plan = trans.plan
         /\ trans.plan \in live

(* The comment on placeInvestigationReference: closing waits for Chat      *)
(* while it holds the lock.  Closing, opening, deleting and the tools of a *)
(* turn never wait for each other: every plan:open is answered or refused  *)
(* and every closing ends.                                                 *)
WaitsEnd ==
    /\ \A s \in Sockets : []<>(ask[s].at \in {"none", "done"})
    /\ \A r \in RoomIds : []<>~room[r].closing

(* evict: a room whose sockets have all gone and that no work holds does   *)
(* not stay in memory with its document, unless closing it failed.         *)
UnusedIsForgotten ==
    []<>(\/ current = 0 \/ Used(room[current]) \/ load.failed
         \/ \E s \in Sockets : sock[s] = "in")
=============================================================================
