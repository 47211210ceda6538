------------------------- MODULE PlannerLinkProofs -------------------------
(***************************************************************************)
(* The links of a Planner session, for any runs, questions and loads.      *)
(*                                                                         *)
(* First what a line of messages keeps when one is added or heard, and     *)
(* what each action does to the session, the lines and the client. Then    *)
(* one section for each part of the invariant, with a lemma that says what *)
(* a step must respect for that part to stand. Last, every action keeps    *)
(* all of the parts, and they imply what the runs check.                   *)
(***************************************************************************)
EXTENDS PlannerLink, FiniteSetTheorems, TLAPS

-----------------------------------------------------------------------------
(* Lines of messages.                                                      *)

LEMMA AddedOne ==
    ASSUME NEW S, NEW c \in Seq(S), NEW m \in S
    PROVE  /\ c \o <<m>> \in Seq(S) /\ Len(c \o <<m>>) = Len(c) + 1 /\ c \o <<m>> # <<>>
           /\ \A i \in 1 .. Len(c) : (c \o <<m>>)[i] = c[i]
           /\ (c \o <<m>>)[Len(c) + 1] = m
           /\ Range(c \o <<m>>) = Range(c) \cup {m}
  <1>1. /\ c \o <<m>> \in Seq(S) /\ Len(c \o <<m>>) = Len(c) + 1 /\ c \o <<m>> # <<>>
        /\ \A i \in 1 .. Len(c) : (c \o <<m>>)[i] = c[i]
        /\ (c \o <<m>>)[Len(c) + 1] = m /\ Len(c) \in Nat
    OBVIOUS
  <1> PICK d : d = c \o <<m>>
    OBVIOUS
  <1>2. DOMAIN c = 1 .. Len(c) /\ DOMAIN d = 1 .. Len(c) + 1
    BY <1>1
  <1>3. ASSUME NEW x \in Range(d)
        PROVE  x \in Range(c) \cup {m}
    BY <1>1, <1>2 DEF Range
  <1>4. ASSUME NEW x \in Range(c)
        PROVE  x \in Range(d)
    BY <1>1, <1>2 DEF Range
  <1>5. m \in Range(d)
    BY <1>1, <1>2 DEF Range
  <1> QED
    BY <1>1, <1>3, <1>4, <1>5

LEMMA HeardOne ==
    ASSUME NEW S, NEW c \in Seq(S), c # <<>>
    PROVE  /\ Tail(c) \in Seq(S) /\ Len(Tail(c)) = Len(c) - 1 /\ Len(c) > 0
           /\ \A i \in 1 .. Len(c) - 1 : Tail(c)[i] = c[i + 1]
           /\ Head(c) = c[1] /\ Head(c) \in S /\ Head(c) \in Range(c)
           /\ Range(Tail(c)) \subseteq Range(c)
           /\ Range(c) = Range(Tail(c)) \cup {Head(c)}
  <1>1. /\ Tail(c) \in Seq(S) /\ Len(Tail(c)) = Len(c) - 1 /\ Len(c) > 0 /\ Len(c) \in Nat
        /\ \A i \in 1 .. Len(c) - 1 : Tail(c)[i] = c[i + 1]
        /\ Head(c) = c[1] /\ Head(c) \in S
    OBVIOUS
  <1> PICK d : d = Tail(c)
    OBVIOUS
  <1>2. DOMAIN c = 1 .. Len(c) /\ DOMAIN d = 1 .. Len(c) - 1
    BY <1>1
  <1>3. Head(c) \in Range(c)
    BY <1>1, <1>2 DEF Range
  <1>4. ASSUME NEW x \in Range(d)
        PROVE  x \in Range(c)
    BY <1>1, <1>2 DEF Range
  <1>5. ASSUME NEW x \in Range(c), x # Head(c)
        PROVE  x \in Range(d)
    <2>1. PICK i \in 1 .. Len(c) : x = c[i]
      BY <1>2 DEF Range
    <2>2. i - 1 \in 1 .. Len(c) - 1 /\ d[i - 1] = c[i]
      BY <1>1, <1>5, <2>1
    <2> QED
      BY <1>2, <2>1, <2>2 DEF Range
  <1> QED
    BY <1>1, <1>3, <1>4, <1>5

LEMMA EmptyLine == Range(<<>>) = {} /\ \A S : <<>> \in Seq(S)
  BY DEF Range

LEMMA LineFacts ==
    ASSUME NEW S, NEW c \in Seq(S)
    PROVE  /\ Len(c) \in Nat /\ DOMAIN c = 1 .. Len(c) /\ (c = <<>> <=> Len(c) = 0)
           /\ Range(c) \subseteq S /\ \A i \in 1 .. Len(c) : c[i] \in S /\ c[i] \in Range(c)
           /\ \A m \in Range(c) : \E i \in 1 .. Len(c) : c[i] = m
           /\ Range(c) # {} <=> c # <<>>
  <1>1. /\ Len(c) \in Nat /\ DOMAIN c = 1 .. Len(c) /\ (c = <<>> <=> Len(c) = 0)
        /\ \A i \in 1 .. Len(c) : c[i] \in S
    OBVIOUS
  <1> QED
    BY <1>1 DEF Range

LEMMA Joined ==
    ASSUME NEW S, NEW c \in Seq(S), NEW d \in Seq(S)
    PROVE  /\ c \o d \in Seq(S) /\ Len(c \o d) = Len(c) + Len(d)
           /\ \A i \in 1 .. Len(c) : (c \o d)[i] = c[i]
           /\ \A i \in 1 .. Len(d) : (c \o d)[Len(c) + i] = d[i]
           /\ Range(c \o d) = Range(c) \cup Range(d)
  <1>1. /\ c \o d \in Seq(S) /\ Len(c \o d) = Len(c) + Len(d) /\ Len(c) \in Nat /\ Len(d) \in Nat
        /\ \A i \in 1 .. Len(c) : (c \o d)[i] = c[i]
        /\ \A i \in 1 .. Len(d) : (c \o d)[Len(c) + i] = d[i]
    OBVIOUS
  <1> PICK e : e = c \o d
    OBVIOUS
  <1>2. DOMAIN c = 1 .. Len(c) /\ DOMAIN d = 1 .. Len(d) /\ DOMAIN e = 1 .. Len(c) + Len(d)
    BY <1>1
  <1>3. ASSUME NEW x \in Range(e)
        PROVE  x \in Range(c) \cup Range(d)
    <2>1. PICK i \in 1 .. Len(c) + Len(d) : x = e[i]
      BY <1>2 DEF Range
    <2>2. CASE i \in 1 .. Len(c)
      BY <1>1, <1>2, <2>1, <2>2 DEF Range
    <2>3. CASE i > Len(c)
      <3>1. i - Len(c) \in 1 .. Len(d) /\ i = Len(c) + (i - Len(c))
        BY <1>1, <2>1, <2>3
      <3>2. e[i] = d[i - Len(c)]
        BY <1>1, <3>1
      <3> QED
        BY <1>2, <2>1, <3>1, <3>2 DEF Range
    <2> QED
      BY <1>1, <2>1, <2>2, <2>3
  <1>4. ASSUME NEW x \in Range(c)
        PROVE  x \in Range(e)
    BY <1>1, <1>2 DEF Range
  <1>5. ASSUME NEW x \in Range(d)
        PROVE  x \in Range(e)
    <2>1. PICK i \in 1 .. Len(d) : x = d[i]
      BY <1>2 DEF Range
    <2>2. Len(c) + i \in 1 .. Len(c) + Len(d) /\ e[Len(c) + i] = d[i]
      BY <1>1, <2>1
    <2> QED
      BY <1>2, <2>1, <2>2 DEF Range
  <1> QED
    BY <1>1, <1>3, <1>4, <1>5

\* A finite set sent one message after the other.
LEMMA SentOnce ==
    ASSUME NEW S, NEW T \in SUBSET S, IsFiniteSet(T)
    PROVE  SetToSeq(T) \in Seq(S) /\ Range(SetToSeq(T)) = T
  <1> PICK k : k = Cardinality(T)
    OBVIOUS
  <1>1. k \in Nat /\ ExistsBijection(1 .. k, T)
    BY FS_CardinalityType
  <1>2. \E f \in [1 .. k -> T] : IsInjective(f)
    BY <1>1 DEF ExistsBijection, Bijection, Injection
  <1> PICK f : f = SetToSeq(T)
    OBVIOUS
  <1>3. f \in [1 .. k -> T] /\ IsInjective(f)
    BY <1>2 DEF SetToSeq
  <1>4. IsFiniteSet(1 .. k) /\ Cardinality(1 .. k) = k
    <2>1. 1 \in Int /\ k \in Int
      BY <1>1
    <2> QED
      BY <1>1, <2>1, FS_Interval
  <1>5. f \in Injection(1 .. k, T)
    BY <1>3 DEF Injection
  <1>6. f \in Surjection(1 .. k, T)
    BY <1>4, <1>5, FS_Injection
  <1>7. Range(f) = T
    BY <1>3, <1>6 DEF Range, Surjection
  <1> QED
    BY <1>1, <1>3, <1>7

\* The image of a finite set.
LEMMA FiniteImage ==
    ASSUME NEW S, IsFiniteSet(S), NEW f, DOMAIN f = S, f \in [S -> Range(f)]
    PROVE  IsFiniteSet(Range(f))
  <1>1. f \in Surjection(S, Range(f))
    BY DEF Surjection, Range
  <1> QED
    BY <1>1, FS_Surjection

-----------------------------------------------------------------------------
(* The messages and the session's record.                                  *)

LEMMA ToClientKinds ==
    ASSUME NEW m \in ToClient
    PROVE  /\ m.t \in {"control", "result", "resumed", "destroy", "refused"}
           /\ m.t = "control" => m.w \in Requests
           /\ m.t = "result" => m.q \in Asks /\ m.st \in {"answered", "cancelled"}
           /\ m.t = "resumed" => m.has \in BOOLEAN /\ m.asks \subseteq Asks
  BY Zenon DEF ToClient

LEMMA ToServerKinds ==
    ASSUME NEW m \in ToServer
    PROVE  /\ m.t \in {"resume", "answer", "ask", "cancel", "ack", "runs"}
           /\ m.t = "resume" => m.has \in BOOLEAN /\ m.named \subseteq Asks
           /\ m.t = "answer" => m.w \in Requests /\ m.ok \in BOOLEAN
           /\ m.t \in {"ask", "cancel", "ack"} => m.q \in Asks
           /\ m.t = "runs" => m.st \in RunStates
  BY Zenon DEF ToServer

LEMMA RequestFields ==
    ASSUME NEW w \in Requests
    PROVE  w.act \in {"stop", "resume"} /\ w.run \in Targets /\ w.at \in Nat
  BY DEF Requests

LEMMA OwedFields ==
    ASSUME NEW o \in OwedStops
    PROVE  o.run \in Targets /\ o.at \in Nat /\ o.split \in BOOLEAN
  BY Zenon DEF OwedStops

LEMMA ControlSent ==
    ASSUME NEW w \in Requests, NEW m, m = [t |-> "control", w |-> w]
    PROVE  m \in ToClient /\ m.t = "control" /\ m.w = w
  BY DEF ToClient

LEMMA ResultSent ==
    ASSUME NEW q \in Asks, NEW st \in {"answered", "cancelled"}, NEW m, m = [t |-> "result", q |-> q, st |-> st]
    PROVE  m \in ToClient /\ m.t = "result" /\ m.q = q /\ m.st = st
  BY DEF ToClient

LEMMA ResumedSent ==
    ASSUME NEW h \in BOOLEAN, NEW qs \in SUBSET Asks, NEW m, m = [t |-> "resumed", has |-> h, asks |-> qs]
    PROVE  m \in ToClient /\ m.t = "resumed" /\ m.has = h /\ m.asks = qs
  BY Zenon DEF ToClient

LEMMA EndSent ==
    ASSUME NEW k \in {"destroy", "refused"}, NEW m, m = [t |-> k]
    PROVE  m \in ToClient /\ m.t = k
  BY DEF ToClient

LEMMA ResumeSaid ==
    ASSUME NEW h \in BOOLEAN, NEW qs \in SUBSET Asks, NEW m, m = [t |-> "resume", has |-> h, named |-> qs]
    PROVE  m \in ToServer /\ m.t = "resume" /\ m.has = h /\ m.named = qs
  BY Zenon DEF ToServer

LEMMA AnswerSaid ==
    ASSUME NEW w \in Requests, NEW b \in BOOLEAN, NEW m, m = [t |-> "answer", w |-> w, ok |-> b]
    PROVE  m \in ToServer /\ m.t = "answer" /\ m.w = w /\ m.ok = b
  BY Zenon DEF ToServer

LEMMA AskSaid ==
    ASSUME NEW k \in {"ask", "cancel", "ack"}, NEW q \in Asks, NEW m, m = [t |-> k, q |-> q]
    PROVE  m \in ToServer /\ m.t = k /\ m.q = q
  BY DEF ToServer

LEMMA RunsSaid ==
    ASSUME NEW c \in RunStates, NEW m, m = [t |-> "runs", st |-> c]
    PROVE  m \in ToServer /\ m.t = "runs" /\ m.st = c
  BY DEF ToServer

LEMMA SrvFields ==
    ASSUME NEW s \in Sessions
    PROVE  /\ s.home \in Nat /\ s.home # 0 /\ s.link \in {"attached", "suspended", "closed"}
           /\ s.open \in BOOLEAN /\ s.owed \subseteq OwedStops /\ s.held \subseteq Targets
           /\ s.waits \subseteq Requests /\ s.late \subseteq Requests
           /\ s.input \in [Asks -> Inputs]
  BY Zenon DEF Sessions

LEMMA EndedStates ==
    ASSUME NEW i \in Inputs
    PROVE  /\ Ended(i) \in {"none", "aborted", "done"}
           /\ i \in {"open", "answered"} => Ended(i) = "aborted"
           /\ i \in {"unacked", "outbox"} => Ended(i) = "done"
           /\ i \in {"none", "aborted", "done"} => Ended(i) = i
  BY DEF Ended, Inputs

LEMMA ClosedFacts ==
    ASSUME NEW s \in Sessions, NEW d, d = Closed(s)
    PROVE  /\ d \in Sessions /\ d.home = s.home /\ d.link = "closed" /\ d.open = FALSE
           /\ d.owed = {} /\ d.held = {} /\ d.waits = {} /\ d.late = {}
           /\ \A q \in Asks : d.input[q] = Ended(s.input[q])
  <1>0. /\ s.home \in Nat \ {0}
        /\ s.input \in [Asks -> Inputs]
    BY SrvFields
  <1>a. PICK e : e = [q \in Asks |-> Ended(s.input[q])]
    OBVIOUS
  <1>1. \A q \in Asks : e[q] \in {"none", "aborted", "done"} /\ e[q] = Ended(s.input[q])
    BY <1>0, <1>a, EndedStates
  <1>2. e \in [Asks -> Inputs]
    BY <1>1, <1>a DEF Inputs
  <1>3. d = [s EXCEPT !.link = "closed", !.open = FALSE, !.owed = {}, !.held = {}, !.waits = {},
                      !.late = {}, !.input = e]
    BY <1>a DEF Closed
  <1>4. /\ d.home = s.home /\ d.link = "closed" /\ d.open = FALSE /\ d.input = e
        /\ d.owed = {} /\ d.held = {} /\ d.waits = {} /\ d.late = {}
    BY <1>3 DEF Sessions
  <1>5. d \in Sessions
    BY <1>2, <1>3 DEF Sessions
  <1> QED
    BY <1>1, <1>4, <1>5

LEMMA ForgottenFacts ==
    ASSUME NEW s \in Sessions, NEW d, d = Forgotten(s)
    PROVE  /\ d \in Sessions /\ d.home = s.home /\ d.open = FALSE
           /\ d.link = IF s.link = "suspended" THEN "closed" ELSE s.link
           /\ d.owed = {} /\ d.held = {} /\ d.waits = {} /\ d.late = {}
           /\ \A q \in Asks : d.input[q] = Ended(s.input[q])
  <1>0. /\ s.home \in Nat \ {0} /\ s.link \in {"attached", "suspended", "closed"}
        /\ s.input \in [Asks -> Inputs]
    BY SrvFields
  <1>a. PICK e : e = [q \in Asks |-> Ended(s.input[q])]
    OBVIOUS
  <1>b. PICK l : l = IF s.link = "suspended" THEN "closed" ELSE s.link
    OBVIOUS
  <1>1. \A q \in Asks : e[q] \in {"none", "aborted", "done"} /\ e[q] = Ended(s.input[q])
    BY <1>0, <1>a, EndedStates
  <1>2. /\ e \in [Asks -> Inputs]
        /\ l \in {"attached", "suspended", "closed"}
    BY <1>0, <1>1, <1>a, <1>b DEF Inputs
  <1>3. d = [s EXCEPT !.open = FALSE, !.owed = {}, !.held = {}, !.waits = {}, !.late = {},
                      !.link = l, !.input = e]
    BY <1>a, <1>b DEF Forgotten
  <1>4. /\ d.home = s.home /\ d.link = l /\ d.open = FALSE /\ d.input = e
        /\ d.owed = {} /\ d.held = {} /\ d.waits = {} /\ d.late = {}
    BY <1>3 DEF Sessions
  <1>5. d \in Sessions
    BY <1>2, <1>3 DEF Sessions
  <1> QED
    BY <1>1, <1>4, <1>5, <1>b

LEMMA HoldFacts ==
    ASSUME NEW hs \in SUBSET Targets, NEW ts \in SUBSET Targets
    PROVE  /\ Hold(hs, ts) \subseteq Targets
           /\ \A r \in Runs : (\E t \in hs \cup ts : Covers(t, r)) => \E t \in Hold(hs, ts) : Covers(t, r)
  BY DEF Hold, Covers, Targets

LEMMA SuspendedFacts ==
    ASSUME NEW s \in Sessions, NEW d, d = Suspended(s)
    PROVE  /\ d \in Sessions /\ d.home = s.home /\ d.link = "suspended" /\ d.open = s.open
           /\ d.owed = {} /\ d.waits = {} /\ d.late = {} /\ d.held \subseteq Targets
           /\ \A r \in Runs :
                 (\E o \in s.owed : Covers(o.run, r)) \/ (\E t \in s.held : Covers(t, r))
                 => \E t \in d.held : Covers(t, r)
           /\ \A q \in Asks : d.input[q] = IF s.input[q] = "unacked" THEN "outbox" ELSE s.input[q]
  <1>0. /\ s.home \in Nat \ {0} /\ s.open \in BOOLEAN /\ s.held \subseteq Targets /\ s.owed \subseteq OwedStops
        /\ s.input \in [Asks -> Inputs]
    BY SrvFields
  <1>a. PICK e : e = [q \in Asks |-> IF s.input[q] = "unacked" THEN "outbox" ELSE s.input[q]]
    OBVIOUS
  <1>b. PICK ts : ts = {o.run : o \in s.owed}
    OBVIOUS
  <1>c. PICK hs : hs = Hold(s.held, ts)
    OBVIOUS
  <1>1. ts \subseteq Targets
    BY <1>0, <1>b, OwedFields
  <1>2. /\ hs \subseteq Targets
        /\ \A r \in Runs : (\E t \in s.held \cup ts : Covers(t, r)) => \E t \in hs : Covers(t, r)
    BY <1>0, <1>1, <1>c, HoldFacts
  <1>3. e \in [Asks -> Inputs]
    BY <1>0, <1>a DEF Inputs
  <1>4. d = [s EXCEPT !.link = "suspended", !.owed = {}, !.waits = {}, !.late = {}, !.held = hs, !.input = e]
    BY <1>a, <1>b, <1>c DEF Suspended
  <1>5. /\ d.home = s.home /\ d.link = "suspended" /\ d.open = s.open /\ d.input = e
        /\ d.owed = {} /\ d.waits = {} /\ d.late = {} /\ d.held = hs
    BY <1>4 DEF Sessions
  <1>6. d \in Sessions
    BY <1>2, <1>3, <1>4 DEF Sessions
  <1>7. \A r \in Runs : (\E o \in s.owed : Covers(o.run, r)) \/ (\E t \in s.held : Covers(t, r))
                        => \E t \in hs : Covers(t, r)
    BY <1>2, <1>b
  <1>8. \A q \in Asks : e[q] = IF s.input[q] = "unacked" THEN "outbox" ELSE s.input[q]
    BY <1>a
  <1> QED
    BY <1>2, <1>5, <1>6, <1>7, <1>8

LEMMA DroppedFacts ==
    ASSUME NEW s \in Sessions, s.link = "attached", NEW d, d = Dropped(s)
    PROVE  /\ d \in Sessions /\ d.home = s.home
           /\ d.owed = {} /\ d.waits = {} /\ d.late = {}
           /\ d.open => /\ s.open /\ d.link = "suspended"
                        /\ \A r \in Runs :
                              (\E o \in s.owed : Covers(o.run, r)) \/ (\E t \in s.held : Covers(t, r))
                              => \E t \in d.held : Covers(t, r)
                        /\ \A q \in Asks : d.input[q] = IF s.input[q] = "unacked" THEN "outbox" ELSE s.input[q]
           /\ ~d.open => /\ d.link = "closed" /\ d.held = {}
                         /\ \A q \in Asks : d.input[q] = Ended(s.input[q])
                         /\ s.open => \A q \in Asks : s.input[q] \in {"none", "outbox", "done"}
  <1>1. /\ s.open \in BOOLEAN
        /\ s.input \in [Asks -> Inputs]
    BY SrvFields
  <1> DEFINE keep == s.open /\ (Working \/ InInputs(s) # {} \/ Unacked(s) # {})
  <1>2. CASE keep
    <2>1. d = Suspended(s)
      BY <1>2 DEF Dropped
    <2>2. s.open = TRUE
      BY <1>1, <1>2
    <2> HIDE DEF keep
    <2> QED
      BY <2>1, <2>2, SuspendedFacts
  <1>3. CASE ~keep
    <2>1. d = Closed(s)
      BY <1>3 DEF Dropped
    <2>2. s.open => \A q \in Asks : s.input[q] \in {"none", "outbox", "done"}
      <3> SUFFICES ASSUME s.open, NEW q \in Asks
                   PROVE  s.input[q] \in {"none", "outbox", "done"}
        OBVIOUS
      <3>1. q \notin InInputs(s) /\ q \notin Unacked(s)
        BY <1>3
      <3> QED
        BY <1>1, <3>1 DEF InInputs, Unacked, Inputs
    <2>3. /\ d \in Sessions /\ d.home = s.home /\ d.link = "closed" /\ d.open = FALSE
          /\ d.owed = {} /\ d.held = {} /\ d.waits = {} /\ d.late = {}
          /\ \A q \in Asks : d.input[q] = Ended(s.input[q])
      BY <2>1, ClosedFacts
    <2> HIDE DEF keep
    <2> QED
      BY <2>2, <2>3
  <1> QED
    BY <1>2, <1>3

LEMMA TurnedFacts ==
    ASSUME NEW s \in Sessions, NEW q \in Asks,
           NEW i \in Inputs,
           NEW d, d = Turned(s, q, i)
    PROVE  /\ d \in Sessions /\ d.home = s.home /\ d.link = s.link /\ d.open = s.open
           /\ d.owed = s.owed /\ d.held = s.held /\ d.waits = s.waits /\ d.late = s.late
           /\ d.input[q] = i /\ \A x \in Asks : x # q => d.input[x] = s.input[x]
  <1>0. s.input \in [Asks -> Inputs]
    BY SrvFields
  <1>a. PICK e : e = [s.input EXCEPT ![q] = i]
    OBVIOUS
  <1>1. /\ e \in [Asks -> Inputs]
        /\ e[q] = i /\ \A x \in Asks : x # q => e[x] = s.input[x]
    BY <1>0, <1>a
  <1>2. d = [s EXCEPT !.input = e]
    BY <1>a DEF Turned
  <1>3. /\ d.home = s.home /\ d.link = s.link /\ d.open = s.open /\ d.input = e
        /\ d.owed = s.owed /\ d.held = s.held /\ d.waits = s.waits /\ d.late = s.late
    BY <1>2 DEF Sessions
  <1>4. d \in Sessions
    BY <1>1, <1>2 DEF Sessions
  <1> QED
    BY <1>1, <1>3, <1>4

LEMMA HandedFacts ==
    ASSUME NEW s \in Sessions, NEW named \in SUBSET Asks, cl \in Nat \ {0}, n \in Nat,
           NEW d, d = Handed(s, named)
    PROVE  /\ d \in Sessions /\ d.home = cl /\ d.link = "attached" /\ d.open = s.open
           /\ d.held = {} /\ d.late = s.late
           /\ \A o \in d.owed : o.at = n /\ o.run \in s.held
           /\ \A t \in s.held : \E o \in d.owed : o.run = t /\ o.at = n
           /\ \A w \in d.waits : w.at = n
           /\ \A q \in Asks :
                 d.input[q] = IF s.input[q] = "outbox" THEN IF q \in named THEN "unacked" ELSE "done"
                              ELSE IF q \notin named /\ s.input[q] \in {"open", "answered"} THEN "aborted"
                              ELSE s.input[q]
  <1>0. /\ s.held \subseteq Targets
        /\ s.input \in [Asks -> Inputs]
    BY SrvFields
  <1>a. PICK e : e = [q \in Asks |->
                  CASE s.input[q] = "outbox" -> IF q \in named THEN "unacked" ELSE "done"
                    [] q \notin named /\ s.input[q] \in {"open", "answered"} -> "aborted"
                    [] OTHER -> s.input[q]]
    OBVIOUS
  <1>b. PICK os : os = {[run |-> r, at |-> n, split |-> FALSE] : r \in s.held}
    OBVIOUS
  <1>c. PICK ws : ws = {[act |-> "stop", run |-> r, at |-> n] : r \in s.held}
    OBVIOUS
  <1>1. \A q \in Asks :
           e[q] = IF s.input[q] = "outbox" THEN IF q \in named THEN "unacked" ELSE "done"
                  ELSE IF q \notin named /\ s.input[q] \in {"open", "answered"} THEN "aborted"
                  ELSE s.input[q]
    BY <1>0, <1>a
  <1>2. e \in [Asks -> Inputs]
    BY <1>0, <1>1, <1>a DEF Inputs
  <1>x. \A t \in s.held : [run |-> t, at |-> n, split |-> FALSE] \in OwedStops
    BY <1>0, Zenon DEF OwedStops
  <1>3. /\ os \subseteq OwedStops /\ \A o \in os : o.at = n /\ o.run \in s.held
        /\ \A t \in s.held : \E o \in os : o.run = t /\ o.at = n
    <2>1. ASSUME NEW o \in os
          PROVE  o \in OwedStops /\ o.at = n /\ o.run \in s.held
      <3>1. PICK r \in s.held : o = [run |-> r, at |-> n, split |-> FALSE]
        BY <1>b
      <3> QED
        BY <1>x, <3>1
    <2>2. ASSUME NEW t \in s.held
          PROVE  \E o \in os : o.run = t /\ o.at = n
      <3> PICK o : o = [run |-> t, at |-> n, split |-> FALSE]
        OBVIOUS
      <3>1. o \in os
        BY <1>b
      <3>2. o.run = t /\ o.at = n
        OBVIOUS
      <3> QED
        BY <3>1, <3>2
    <2> QED
      BY <2>1, <2>2
  <1>4. ws \subseteq Requests /\ \A w \in ws : w.at = n
    BY <1>0, <1>c DEF Requests
  <1>5. d = [s EXCEPT !.home = cl, !.link = "attached", !.owed = os, !.waits = ws, !.held = {}, !.input = e]
    BY <1>a, <1>b, <1>c DEF Handed
  <1>6. /\ d.home = cl /\ d.link = "attached" /\ d.open = s.open /\ d.input = e
        /\ d.owed = os /\ d.held = {} /\ d.waits = ws /\ d.late = s.late
    BY <1>5 DEF Sessions
  <1>7. d \in Sessions
    BY <1>2, <1>3, <1>4, <1>5 DEF Sessions
  <1> QED
    BY <1>1, <1>3, <1>4, <1>6, <1>7

-----------------------------------------------------------------------------
(* What a step does to the lines of messages.                              *)

\* A message of one of these kinds may be sent to the client, when the link carries it.
CGrows(T) == \/ toC' = toC
             \/ /\ up /\ srv.home = cl /\ srv.link = "attached"
                /\ \E m \in ToClient : m.t \in T /\ toC' = toC \o <<m>>
\* The same of the client's messages.
SGrows(T) == \/ toS' = toS
             \/ /\ up /\ cst = "on"
                /\ \E m \in ToServer : m.t \in T /\ toS' = toS \o <<m>>
SHears(T) == toS # <<>> /\ Head(toS).t \in T /\ toS' = Tail(toS)

LEMMA CGrowsFacts ==
    ASSUME NEW T, CGrows(T), toC \in Seq(ToClient)
    PROVE  /\ toC' \in Seq(ToClient)
           /\ \A m \in Range(toC) : m \in Range(toC')
           /\ \A m \in Range(toC') : m \notin Range(toC) => m.t \in T
           /\ \A i \in 1 .. Len(toC) : toC'[i] = toC[i]
           /\ Len(toC') >= Len(toC)
           /\ \A i \in 1 .. Len(toC') : i > Len(toC) => toC'[i].t \in T
  <1>0. Len(toC) \in Nat
    BY LineFacts
  <1>1. CASE toC' = toC
    BY <1>0, <1>1
  <1>2. CASE \E m \in ToClient : m.t \in T /\ toC' = toC \o <<m>>
    <2> PICK m \in ToClient : m.t \in T /\ toC' = toC \o <<m>>
      BY <1>2
    <2> PICK c : c = toC'
      OBVIOUS
    <2>1. /\ c \in Seq(ToClient) /\ Len(c) = Len(toC) + 1
          /\ \A i \in 1 .. Len(toC) : c[i] = toC[i]
          /\ c[Len(toC) + 1] = m
          /\ Range(c) = Range(toC) \cup {m}
      BY AddedOne
    <2> QED
      BY <1>0, <2>1
  <1> QED
    BY <1>1, <1>2 DEF CGrows

LEMMA SGrowsFacts ==
    ASSUME NEW T, SGrows(T), toS \in Seq(ToServer)
    PROVE  /\ toS' \in Seq(ToServer)
           /\ \A m \in Range(toS) : m \in Range(toS')
           /\ \A m \in Range(toS') : m \notin Range(toS) => m.t \in T
  <1>1. CASE toS' = toS
    BY <1>1
  <1>2. CASE \E m \in ToServer : m.t \in T /\ toS' = toS \o <<m>>
    <2> PICK m \in ToServer : m.t \in T /\ toS' = toS \o <<m>>
      BY <1>2
    <2> PICK c : c = toS'
      OBVIOUS
    <2>1. c \in Seq(ToServer) /\ Range(c) = Range(toS) \cup {m}
      BY AddedOne
    <2> QED
      BY <2>1
  <1> QED
    BY <1>1, <1>2 DEF SGrows

LEMMA SHearsFacts ==
    ASSUME NEW T, SHears(T), toS \in Seq(ToServer)
    PROVE  /\ toS' \in Seq(ToServer) /\ Len(toS') = Len(toS) - 1 /\ Len(toS) > 0
           /\ \A i \in 1 .. Len(toS) - 1 : toS'[i] = toS[i + 1]
           /\ Range(toS') \subseteq Range(toS) /\ Head(toS) \in Range(toS) /\ Head(toS) = toS[1]
           /\ Head(toS) \in ToServer
           /\ Range(toS) = Range(toS') \cup {Head(toS)}
  BY HeardOne DEF SHears

LEMMA Delivered ==
    ASSUME NEW m \in ToClient, NEW T, m.t \in T, Deliver(srv, <<m>>)
    PROVE  CGrows(T) /\ (Carried(srv) => toC' = toC \o <<m>>)
  BY DEF Deliver, Carried, CGrows

LEMMA SaidOne ==
    ASSUME NEW m \in ToServer, NEW T, m.t \in T, Say(<<m>>)
    PROVE  SGrows(T) /\ (up /\ cst = "on" => toS' = toS \o <<m>>)
  BY DEF Say, SGrows

LEMMA DeliveredNone ==
    ASSUME NEW T, toC \in Seq(ToClient), Deliver(srv, <<>>)
    PROVE  CGrows(T) /\ toC' = toC
  BY DEF Deliver, CGrows

LEMMA SaidNone ==
    ASSUME NEW T, toS \in Seq(ToServer), Say(<<>>)
    PROVE  SGrows(T) /\ toS' = toS
  BY DEF Say, SGrows

-----------------------------------------------------------------------------
(* What the actions do, and that they keep the types.                      *)

\* Nobody is told that a Stop is under way who was not told so before.
ToldOn == n' = n /\ aim' = aim /\ \A p \in 1 .. n : Pending(p)' => Pending(p)

LEMMA Counted ==
    ASSUME TypeOK
    PROVE  /\ n \in Nat /\ cl \in Nat /\ cl # 0 /\ load.links \in Nat /\ load.presses \in Nat
           /\ load.timeouts \in Nat /\ n = Len(told) /\ n = Len(aim)
           /\ srv.home \in Nat /\ Len(toC) \in Nat /\ Len(toS) \in Nat
           /\ DOMAIN toC = 1 .. Len(toC) /\ DOMAIN toS = 1 .. Len(toS)
           /\ \A p \in 1 .. n : told[p] \in Outcomes /\ aim[p] \subseteq Runs
  <1>1. /\ load.links \in Nat \ {0} /\ load.presses \in Nat /\ load.timeouts \in Nat
    BY DEF TypeOK
  <1>2. told \in Seq(Outcomes) /\ aim \in Seq(SUBSET Runs) /\ Len(aim) = n
    BY DEF TypeOK
  <1>3. n \in Nat /\ \A p \in 1 .. n : told[p] \in Outcomes /\ aim[p] \subseteq Runs
    BY <1>2, LineFacts DEF n
  <1>4. srv.home \in Nat /\ cl \in Nat /\ cl # 0
    BY <1>1, SrvFields DEF TypeOK
  <1>5. /\ Len(toC) \in Nat /\ Len(toS) \in Nat
        /\ DOMAIN toC = 1 .. Len(toC) /\ DOMAIN toS = 1 .. Len(toS)
    BY LineFacts DEF TypeOK
  <1> QED
    BY <1>1, <1>2, <1>3, <1>4, <1>5 DEF n

LEMMA ToldAgain ==
    ASSUME TypeOK, NEW f \in [1 .. n -> Outcomes], told' = f, aim' = aim,
           \A p \in 1 .. n : f[p] \in {"waiting", "held", "unconfirmed"} => Pending(p)
    PROVE  told' \in Seq(Outcomes) /\ Len(aim') = n' /\ ToldOn
  <1>1. n \in Nat /\ Len(aim) = n
    BY Counted
  <1>2. f \in Seq(Outcomes) /\ Len(f) = n
    BY <1>1
  <1>3. n' = n
    BY <1>2 DEF n
  <1>4. \A p \in 1 .. n : Pending(p)' => Pending(p)
    BY DEF Pending
  <1> QED
    BY <1>1, <1>2, <1>3, <1>4 DEF ToldOn

LEMMA ToldSame ==
    ASSUME UNCHANGED <<told, aim>>
    PROVE  ToldOn
  BY DEF ToldOn, n, Pending

LEMMA ToldFailed ==
    ASSUME TypeOK, aim' = aim,
           told' = [p \in 1 .. n |-> IF told[p] = "waiting" THEN "failed" ELSE told[p]]
    PROVE  told' \in Seq(Outcomes) /\ Len(aim') = n' /\ ToldOn
  <1> PICK f : f = [p \in 1 .. n |-> IF told[p] = "waiting" THEN "failed" ELSE told[p]]
    OBVIOUS
  <1>1. \A p \in 1 .. n : told[p] \in Outcomes
    BY Counted
  <1>2. \A p \in 1 .. n : f[p] \in Outcomes /\ (f[p] = told[p] \/ f[p] = "failed")
    BY <1>1 DEF Outcomes
  <1>3. f \in [1 .. n -> Outcomes]
    BY <1>2
  <1>4. \A p \in 1 .. n : f[p] \in {"waiting", "held", "unconfirmed"} => Pending(p)
    BY <1>2 DEF Pending
  <1> QED
    BY <1>3, <1>4, ToldAgain

LEMMA ToldDropFacts ==
    ASSUME TypeOK, aim' = aim, told' = ToldDropped(srv)
    PROVE  told' \in Seq(Outcomes) /\ Len(aim') = n' /\ ToldOn
  <1> PICK f : f = ToldDropped(srv)
    OBVIOUS
  <1>1. \A p \in 1 .. n : told[p] \in Outcomes
    BY Counted
  <1>2. \A p \in 1 .. n : f[p] \in Outcomes /\ (f[p] \in {"waiting", "held", "unconfirmed"} => Pending(p))
    <2> SUFFICES ASSUME NEW p \in 1 .. n
                 PROVE  f[p] \in Outcomes /\ (f[p] \in {"waiting", "held", "unconfirmed"} => Pending(p))
      OBVIOUS
    <2>1. CASE told[p] # "waiting"
      <3>1. f[p] = told[p]
        BY <2>1 DEF ToldDropped
      <3> QED
        BY <1>1, <3>1 DEF Pending
    <2>2. CASE told[p] = "waiting"
      <3>1. f[p] \in {"held", "failed"}
        BY <2>2 DEF ToldDropped
      <3> QED
        BY <2>2, <3>1 DEF Pending, Outcomes
    <2> QED
      BY <2>1, <2>2
  <1>3. f \in [1 .. n -> Outcomes]
    BY <1>2 DEF ToldDropped
  <1> QED
    BY <1>2, <1>3, ToldAgain

LEMMA ServerNoticesFx ==
    ASSUME TypeOK, ServerNotices
    PROVE  /\ TypeOK' /\ ToldOn /\ srv' = Dropped(srv) /\ srv.link = "attached" /\ ~(up /\ srv.home = cl)
           /\ UNCHANGED <<runs, net, client, answered, stopped, aim, heardTo, resumedTo, resumedBy, load>>
           /\ UNCHANGED <<cl, up, toC, toS, cst, has, crun, doing, ask, withdrawn>>
  <1>1. /\ srv' = Dropped(srv) /\ told' = ToldDropped(srv) /\ busy' = FALSE /\ srv.link = "attached"
        /\ UNCHANGED <<runs, net, client, answered, stopped, aim, heardTo, resumedTo, resumedBy, load>>
        /\ UNCHANGED <<cl, up, toC, toS, cst, has, crun, doing, ask, withdrawn>>
        /\ ~(up /\ srv.home = cl)
    BY DEF ServerNotices, net, client, Carried
  <1>2. srv' \in Sessions
    BY <1>1, DroppedFacts DEF TypeOK
  <1>3. told' \in Seq(Outcomes) /\ Len(aim') = n' /\ ToldOn
    BY <1>1, ToldDropFacts
  <1>4. TypeOK'
    BY <1>1, <1>2, <1>3 DEF TypeOK, ToldOn
  <1> QED
    BY <1>1, <1>3, <1>4

LEMMA EndFx ==
    ASSUME TypeOK, End
    PROVE  /\ TypeOK' /\ ToldOn /\ srv' = Closed(srv) /\ stopped' = TRUE /\ CGrows({"refused"})
           /\ Carried(srv) => OnWay(toC', "refused") # {}
           /\ UNCHANGED <<runs, cl, up, toS, client, answered, aim, heardTo, resumedTo, resumedBy, load>>
           /\ UNCHANGED <<cst, has, crun, doing, ask, withdrawn>>
  <1>1. /\ srv' = Closed(srv) /\ stopped' = TRUE /\ busy' = FALSE
        /\ told' = [p \in 1 .. n |-> IF told[p] = "waiting" THEN "failed" ELSE told[p]]
        /\ Deliver(srv, <<[t |-> "refused"]>>)
        /\ UNCHANGED <<runs, cl, up, toS, client, answered, aim, heardTo, resumedTo, resumedBy, load>>
        /\ UNCHANGED <<cst, has, crun, doing, ask, withdrawn>>
    BY DEF End, client
  <1>2. srv' \in Sessions
    BY <1>1, ClosedFacts DEF TypeOK
  <1>3. told' \in Seq(Outcomes) /\ Len(aim') = n' /\ ToldOn
    BY <1>1, ToldFailed
  <1> PICK m : m = [t |-> "refused"]
    OBVIOUS
  <1>4. m \in ToClient /\ m.t = "refused"
    BY EndSent
  <1>5. CGrows({"refused"}) /\ (Carried(srv) => toC' = toC \o <<m>>)
    BY <1>1, <1>4, Delivered
  <1>6. toC' \in Seq(ToClient)
    BY <1>5, CGrowsFacts DEF TypeOK
  <1>7. Carried(srv) => OnWay(toC', "refused") # {}
    <2> SUFFICES ASSUME Carried(srv)
                 PROVE  m \in OnWay(toC', "refused")
      OBVIOUS
    <2> PICK c : c = toC'
      OBVIOUS
    <2>0. toC \in Seq(ToClient) /\ c = toC \o <<m>>
      BY <1>5 DEF TypeOK
    <2>1. m \in Range(c)
      BY <1>4, <2>0, AddedOne
    <2> QED
      BY <1>4, <2>1 DEF OnWay
  <1>8. stopped' \in BOOLEAN /\ busy' \in BOOLEAN
    BY <1>1
  <1>9. TypeOK'
    BY <1>1, <1>2, <1>3, <1>6, <1>8 DEF TypeOK, ToldOn
  <1> QED
    BY <1>1, <1>3, <1>5, <1>7, <1>9

LEMMA LetGoFx ==
    ASSUME TypeOK, NEW b \in BOOLEAN, LetGo(b)
    PROVE  /\ TypeOK' /\ ToldOn /\ srv' = Forgotten(srv) /\ stopped' = (stopped \/ b) /\ CGrows({"destroy"})
           /\ UNCHANGED <<runs, busy, cl, up, toS, client, answered, aim, heardTo, resumedTo, resumedBy, load>>
           /\ UNCHANGED <<cst, has, crun, doing, ask, withdrawn>>
  <1>1. /\ srv' = Forgotten(srv) /\ stopped' = (stopped \/ b)
        /\ told' = [p \in 1 .. n |-> IF told[p] = "waiting" THEN "failed" ELSE told[p]]
        /\ Deliver(srv, <<[t |-> "destroy"]>>)
        /\ UNCHANGED <<runs, busy, cl, up, toS, client, answered, aim, heardTo, resumedTo, resumedBy, load>>
        /\ UNCHANGED <<cst, has, crun, doing, ask, withdrawn>>
    BY DEF LetGo, client
  <1>2. srv' \in Sessions
    BY <1>1, ForgottenFacts DEF TypeOK
  <1>3. told' \in Seq(Outcomes) /\ Len(aim') = n' /\ ToldOn
    BY <1>1, ToldFailed
  <1> PICK m : m = [t |-> "destroy"]
    OBVIOUS
  <1>4. m \in ToClient /\ m.t = "destroy"
    BY EndSent
  <1>5. CGrows({"destroy"})
    BY <1>1, <1>4, Delivered
  <1>6. toC' \in Seq(ToClient)
    BY <1>5, CGrowsFacts DEF TypeOK
  <1>8. TypeOK'
    BY <1>1, <1>2, <1>3, <1>6 DEF TypeOK, ToldOn
  <1> QED
    BY <1>1, <1>3, <1>5, <1>8

LEMMA Pressed ==
    ASSUME TypeOK, NEW x \in Outcomes, NEW rs \in SUBSET Runs, n < load.presses,
           told' = Append(told, x), aim' = Append(aim, rs)
    PROVE  /\ n' = n + 1 /\ told' \in Seq(Outcomes) /\ aim' \in Seq(SUBSET Runs) /\ Len(aim') = n'
           /\ \A p \in 1 .. n : told'[p] = told[p] /\ aim'[p] = aim[p]
           /\ told'[n + 1] = x /\ aim'[n + 1] = rs /\ n + 1 <= load.presses
  <1> PICK k : k = n
    OBVIOUS
  <1>1. k \in Nat /\ Len(told) = k /\ Len(aim) = k /\ load.presses \in Nat
    BY Counted
  <1>2. told \in Seq(Outcomes) /\ aim \in Seq(SUBSET Runs)
    BY DEF TypeOK
  <1> PICK f : f = Append(told, x)
    OBVIOUS
  <1> PICK g : g = Append(aim, rs)
    OBVIOUS
  <1>3. /\ f \in Seq(Outcomes) /\ Len(f) = k + 1 /\ f[k + 1] = x
        /\ \A p \in 1 .. k : f[p] = told[p]
    BY <1>1, <1>2
  <1>4. /\ g \in Seq(SUBSET Runs) /\ Len(g) = k + 1 /\ g[k + 1] = rs
        /\ \A p \in 1 .. k : g[p] = aim[p]
    BY <1>1, <1>2
  <1>5. told' = f /\ aim' = g
    OBVIOUS
  <1>6. n' = k + 1
    BY <1>3, <1>5 DEF n
  <1> QED
    BY <1>1, <1>3, <1>4, <1>5, <1>6

\* What a Stop is about.
AimOf(t) == {r \in Runs : Covers(t, r) /\ runs[r] \in Live}

LEMMA StopFx ==
    ASSUME TypeOK, NEW t \in Targets, Stop(t)
    PROVE  /\ TypeOK' /\ srv.open /\ n' = n + 1
           /\ \A p \in 1 .. n : told'[p] = told[p] /\ aim'[p] = aim[p]
           /\ aim'[n + 1] = AimOf(t)
           /\ srv'.home = srv.home /\ srv'.link = srv.link /\ srv'.open = srv.open
           /\ srv'.late = srv.late /\ srv'.input = srv.input
           /\ CGrows({"control"})
           /\ \/ /\ toC' = toC /\ srv'.owed = srv.owed /\ srv'.waits = srv.waits
                 /\ \A r \in Runs : (\E h \in srv.held \cup {t} : Covers(h, r))
                                    => \E h \in srv'.held : Covers(h, r)
              \/ \E w \in Requests, o \in OwedStops :
                    /\ srv.link # "suspended"
                    /\ w.act = "stop" /\ w.run = t /\ w.at = n + 1 /\ o.run = t /\ o.at = n + 1
                    /\ srv'.owed = srv.owed \cup {o} /\ srv'.waits = srv.waits \cup {w}
                    /\ srv'.held = srv.held
                    /\ toC' = toC \/ toC' = toC \o <<[t |-> "control", w |-> w]>>
           /\ UNCHANGED <<runs, busy, cl, up, toS, client, answered, stopped, heardTo, resumedTo, resumedBy, load>>
           /\ UNCHANGED <<cst, has, crun, doing, ask, withdrawn>>
  <1>1. /\ Press(t) /\ srv.open /\ n < load.presses /\ aim' = Append(aim, AimOf(t))
        /\ UNCHANGED <<runs, busy, cl, up, toS, client, answered, stopped, heardTo, resumedTo, resumedBy, load>>
        /\ UNCHANGED <<cst, has, crun, doing, ask, withdrawn>>
    BY DEF Stop, Press, AimOf, client
  <1>2. n \in Nat /\ srv \in Sessions /\ AimOf(t) \subseteq Runs /\ toC \in Seq(ToClient)
    BY Counted DEF TypeOK, AimOf
  <1>3. /\ srv.held \subseteq Targets /\ srv.owed \subseteq OwedStops /\ srv.waits \subseteq Requests
    BY <1>2, SrvFields
  <1>4. CASE srv.link = "suspended"
    <2> PICK hs : hs = Hold(srv.held, {t})
      OBVIOUS
    <2>1. srv' = [srv EXCEPT !.held = hs] /\ told' = Append(told, "held") /\ toC' = toC
      BY <1>4 DEF Stop
    <2>2. /\ hs \subseteq Targets
          /\ \A r \in Runs : (\E h \in srv.held \cup {t} : Covers(h, r)) => \E h \in hs : Covers(h, r)
      BY <1>3, HoldFacts
    <2>3. /\ srv'.home = srv.home /\ srv'.link = srv.link /\ srv'.open = srv.open
          /\ srv'.late = srv.late /\ srv'.input = srv.input /\ srv'.held = hs
          /\ srv'.owed = srv.owed /\ srv'.waits = srv.waits
      BY <1>2, <2>1 DEF Sessions
    <2>4. srv' \in Sessions
      BY <1>2, <2>1, <2>2 DEF Sessions
    <2>5. "held" \in Outcomes
      BY DEF Outcomes
    <2>6. /\ n' = n + 1 /\ told' \in Seq(Outcomes) /\ aim' \in Seq(SUBSET Runs) /\ Len(aim') = n'
          /\ \A p \in 1 .. n : told'[p] = told[p] /\ aim'[p] = aim[p]
          /\ aim'[n + 1] = AimOf(t) /\ n + 1 <= load.presses
      BY <1>1, <1>2, <2>1, <2>5, Pressed
    <2>7. n' <= load'.presses
      BY <1>1, <2>6
    <2>8. TypeOK'
      BY <1>1, <2>1, <2>4, <2>6, <2>7 DEF TypeOK
    <2>9. CGrows({"control"})
      BY <2>1 DEF CGrows
    <2> QED
      BY <1>1, <2>1, <2>2, <2>3, <2>6, <2>8, <2>9
  <1>5. CASE srv.link # "suspended"
    <2> PICK o : o = [run |-> t, at |-> n + 1, split |-> FALSE]
      OBVIOUS
    <2> PICK w : w = [act |-> "stop", run |-> t, at |-> n + 1]
      OBVIOUS
    <2> PICK m : m = [t |-> "control", w |-> w]
      OBVIOUS
    <2>1. /\ srv' = [srv EXCEPT !.owed = srv.owed \cup {o}, !.waits = srv.waits \cup {w}]
          /\ told' = Append(told, "waiting") /\ Deliver(srv, <<m>>)
      BY <1>5 DEF Stop
    <2>a. n + 1 \in Nat
      BY <1>2
    <2>b. o \in OwedStops
      BY <2>a, Zenon DEF OwedStops
    <2>2. o \in OwedStops /\ o.run = t /\ o.at = n + 1
      BY <2>b
    <2>3. w \in Requests /\ w.act = "stop" /\ w.run = t /\ w.at = n + 1
      BY <1>2 DEF Requests
    <2>4. m \in ToClient /\ m.t = "control"
      BY <2>3, ControlSent
    <2>5. /\ srv'.home = srv.home /\ srv'.link = srv.link /\ srv'.open = srv.open
          /\ srv'.late = srv.late /\ srv'.input = srv.input /\ srv'.held = srv.held
          /\ srv'.owed = srv.owed \cup {o} /\ srv'.waits = srv.waits \cup {w}
      BY <1>2, <2>1 DEF Sessions
    <2>6. srv' \in Sessions
      <3>1. srv.owed \cup {o} \subseteq OwedStops /\ srv.waits \cup {w} \subseteq Requests
        BY <1>3, <2>2, <2>3
      <3> QED
        BY <1>2, <2>1, <3>1 DEF Sessions
    <2>7. CGrows({"control"}) /\ (toC' = toC \/ toC' = toC \o <<m>>)
      BY <2>1, <2>4, Delivered DEF Deliver
    <2>8. toC' \in Seq(ToClient)
      BY <1>2, <2>7, CGrowsFacts
    <2>9. "waiting" \in Outcomes
      BY DEF Outcomes
    <2>10. /\ n' = n + 1 /\ told' \in Seq(Outcomes) /\ aim' \in Seq(SUBSET Runs) /\ Len(aim') = n'
           /\ \A p \in 1 .. n : told'[p] = told[p] /\ aim'[p] = aim[p]
           /\ aim'[n + 1] = AimOf(t) /\ n + 1 <= load.presses
      BY <1>1, <1>2, <2>1, <2>9, Pressed
    <2>11. n' <= load'.presses
      BY <1>1, <2>10
    <2>12. TypeOK'
      BY <1>1, <2>6, <2>8, <2>10, <2>11 DEF TypeOK
    <2>13. \E x \in Requests, y \in OwedStops :
              /\ srv.link # "suspended"
              /\ x.act = "stop" /\ x.run = t /\ x.at = n + 1 /\ y.run = t /\ y.at = n + 1
              /\ srv'.owed = srv.owed \cup {y} /\ srv'.waits = srv.waits \cup {x}
              /\ srv'.held = srv.held
              /\ toC' = toC \/ toC' = toC \o <<[t |-> "control", w |-> x]>>
      BY <1>5, <2>2, <2>3, <2>5, <2>7
    <2> QED
      BY <1>1, <2>5, <2>7, <2>10, <2>12, <2>13
  <1> QED
    BY <1>4, <1>5

LEMMA ResumeFx ==
    ASSUME TypeOK, NEW t \in Targets, Resume(t)
    PROVE  /\ TypeOK' /\ srv.open /\ n' = n + 1
           /\ \A p \in 1 .. n : told'[p] = told[p] /\ aim'[p] = aim[p]
           /\ told'[n + 1] = "none"
           /\ srv'.home = srv.home /\ srv'.link = srv.link /\ srv'.open = srv.open
           /\ srv'.late = srv.late /\ srv'.input = srv.input
           /\ srv'.owed = srv.owed /\ srv'.held = srv.held
           /\ CGrows({"control"})
           /\ \E w \in Requests :
                 /\ w.act = "resume" /\ w.at = n + 1 /\ srv'.waits = srv.waits \cup {w}
                 /\ toC' = toC \/ toC' = toC \o <<[t |-> "control", w |-> w]>>
           /\ UNCHANGED <<runs, busy, cl, up, toS, client, answered, stopped, heardTo, resumedTo, resumedBy, load>>
           /\ UNCHANGED <<cst, has, crun, doing, ask, withdrawn>>
  <1> PICK w : w = [act |-> "resume", run |-> t, at |-> n + 1]
    OBVIOUS
  <1> PICK m : m = [t |-> "control", w |-> w]
    OBVIOUS
  <1>1. /\ srv.open /\ n < load.presses /\ aim' = Append(aim, AimOf(t))
        /\ told' = Append(told, "none") /\ Deliver(srv, <<m>>)
        /\ srv' = [srv EXCEPT !.waits = srv.waits \cup {w}]
        /\ UNCHANGED <<runs, busy, cl, up, toS, client, answered, stopped, heardTo, resumedTo, resumedBy, load>>
        /\ UNCHANGED <<cst, has, crun, doing, ask, withdrawn>>
    BY DEF Resume, Press, AimOf, client
  <1>2. n \in Nat /\ srv \in Sessions /\ AimOf(t) \subseteq Runs /\ toC \in Seq(ToClient)
    BY Counted DEF TypeOK, AimOf
  <1>3. srv.waits \subseteq Requests
    BY <1>2, SrvFields
  <1>4. w \in Requests /\ w.act = "resume" /\ w.run = t /\ w.at = n + 1
    BY <1>2 DEF Requests
  <1>5. m \in ToClient /\ m.t = "control"
    BY <1>4, ControlSent
  <1>6. /\ srv'.home = srv.home /\ srv'.link = srv.link /\ srv'.open = srv.open
        /\ srv'.late = srv.late /\ srv'.input = srv.input /\ srv'.held = srv.held
        /\ srv'.owed = srv.owed /\ srv'.waits = srv.waits \cup {w}
    BY <1>1, <1>2 DEF Sessions
  <1>7. srv' \in Sessions
    <2>1. srv.waits \cup {w} \subseteq Requests
      BY <1>3, <1>4
    <2> QED
      BY <1>1, <1>2, <2>1 DEF Sessions
  <1>8. CGrows({"control"}) /\ (toC' = toC \/ toC' = toC \o <<m>>)
    BY <1>1, <1>5, Delivered DEF Deliver
  <1>9. toC' \in Seq(ToClient)
    BY <1>2, <1>8, CGrowsFacts
  <1>10. "none" \in Outcomes
    BY DEF Outcomes
  <1>11. /\ n' = n + 1 /\ told' \in Seq(Outcomes) /\ aim' \in Seq(SUBSET Runs) /\ Len(aim') = n'
         /\ \A p \in 1 .. n : told'[p] = told[p] /\ aim'[p] = aim[p]
         /\ told'[n + 1] = "none" /\ n + 1 <= load.presses
    BY <1>1, <1>2, <1>10, Pressed
  <1>12. n' <= load'.presses
    BY <1>1, <1>11
  <1>13. TypeOK'
    BY <1>1, <1>7, <1>9, <1>11, <1>12 DEF TypeOK
  <1> QED
    BY <1>1, <1>4, <1>6, <1>8, <1>11, <1>13

LEMMA TimeOutFx ==
    ASSUME TypeOK, NEW w, TimeOut(w)
    PROVE  /\ TypeOK' /\ ToldOn
           /\ srv'.home = srv.home /\ srv'.link = srv.link /\ srv'.open = srv.open
           /\ srv'.owed = srv.owed /\ srv'.held = srv.held /\ srv'.input = srv.input
           /\ srv'.waits \cup srv'.late \subseteq srv.waits \cup srv.late
           /\ UNCHANGED <<runs, busy, net, client, answered, stopped, aim, heardTo, resumedTo, resumedBy>>
           /\ UNCHANGED <<cl, up, toC, toS, cst, has, crun, doing, ask, withdrawn>>
           /\ load'.links = load.links /\ load'.asks = load.asks
  <1> PICK f : f = [p \in 1 .. n |-> IF w.act = "stop" /\ p = w.at /\ told[p] = "waiting"
                                      THEN "unconfirmed" ELSE told[p]]
    OBVIOUS
  <1> PICK k : k = load.timeouts - 1
    OBVIOUS
  <1>1. /\ w \in srv.waits /\ load.timeouts > 0 /\ load' = [load EXCEPT !.timeouts = k]
        /\ srv' = [srv EXCEPT !.waits = srv.waits \ {w}, !.late = srv.late \cup {w}]
        /\ told' = f
        /\ UNCHANGED <<runs, busy, net, client, answered, stopped, aim, heardTo, resumedTo, resumedBy>>
        /\ UNCHANGED <<cl, up, toC, toS, cst, has, crun, doing, ask, withdrawn>>
    BY DEF TimeOut, net, client
  <1>2. srv \in Sessions /\ load.timeouts \in Nat
    BY Counted DEF TypeOK
  <1>3. srv.waits \subseteq Requests /\ srv.late \subseteq Requests
    BY <1>2, SrvFields
  <1>4. /\ srv'.home = srv.home /\ srv'.link = srv.link /\ srv'.open = srv.open
        /\ srv'.owed = srv.owed /\ srv'.held = srv.held /\ srv'.input = srv.input
        /\ srv'.waits = srv.waits \ {w} /\ srv'.late = srv.late \cup {w}
    BY <1>1, <1>2 DEF Sessions
  <1>5. srv' \in Sessions
    <2>1. srv.waits \ {w} \subseteq Requests /\ srv.late \cup {w} \subseteq Requests
      BY <1>1, <1>3
    <2> QED
      BY <1>1, <1>2, <2>1 DEF Sessions
  <1>6. \A p \in 1 .. n : told[p] \in Outcomes
    BY Counted
  <1>7. \A p \in 1 .. n : f[p] \in Outcomes /\ (f[p] = told[p] \/ told[p] = "waiting")
    BY <1>6 DEF Outcomes
  <1>8. f \in [1 .. n -> Outcomes]
    BY <1>7
  <1>9. \A p \in 1 .. n : f[p] \in {"waiting", "held", "unconfirmed"} => Pending(p)
    BY <1>7 DEF Pending
  <1>10. told' \in Seq(Outcomes) /\ Len(aim') = n' /\ ToldOn
    BY <1>1, <1>8, <1>9, ToldAgain
  <1>11. /\ load' \in [runs: SUBSET Runs, finishing: SUBSET Runs, asks: SUBSET Asks, links: Nat \ {0},
                       presses: Nat, timeouts: Nat, endings: BOOLEAN]
         /\ load'.links = load.links /\ load'.asks = load.asks /\ load'.presses = load.presses
    <2>1. k \in Nat
      BY <1>1, <1>2
    <2> QED
      BY <1>1, <2>1 DEF TypeOK
  <1>12. TypeOK'
    BY <1>1, <1>5, <1>10, <1>11 DEF TypeOK, ToldOn
  <1> QED
    BY <1>1, <1>4, <1>10, <1>11, <1>12

LEMMA MemberAnswersFx ==
    ASSUME TypeOK, NEW q \in Asks, MemberAnswers(q)
    PROVE  /\ TypeOK' /\ srv.input[q] = "open" /\ srv' = Turned(srv, q, "answered")
           /\ answered' = answered \cup {q}
           /\ UNCHANGED <<runs, busy, net, client, ghosts>>
           /\ UNCHANGED <<cl, up, toC, toS, cst, has, crun, doing, ask, withdrawn>>
           /\ UNCHANGED <<stopped, aim, told, heardTo, resumedTo, resumedBy, load>>
  <1>1. /\ srv.input[q] = "open" /\ srv' = Turned(srv, q, "answered") /\ answered' = answered \cup {q}
        /\ UNCHANGED <<runs, busy, net, client, ghosts>>
        /\ UNCHANGED <<cl, up, toC, toS, cst, has, crun, doing, ask, withdrawn>>
        /\ UNCHANGED <<stopped, aim, told, heardTo, resumedTo, resumedBy, load>>
    BY DEF MemberAnswers, net, client, ghosts
  <1>2. srv' \in Sessions
    <2>1. "answered" \in Inputs /\ srv \in Sessions
      BY DEF Inputs, TypeOK
    <2> QED
      BY <1>1, <2>1, TurnedFacts
  <1>3. TypeOK'
    BY <1>1, <1>2 DEF TypeOK, n
  <1> QED
    BY <1>1, <1>3

LEMMA ReplyFx ==
    ASSUME TypeOK, NEW q \in Asks, Reply(q)
    PROVE  /\ TypeOK' /\ srv.input[q] \in {"answered", "aborted"}
           /\ \E m \in ToClient :
                 /\ m.t = "result" /\ m.q = q
                 /\ m.st = IF srv.input[q] = "answered" THEN "answered" ELSE "cancelled"
                 /\ toC' = IF Carried(srv) THEN toC \o <<m>> ELSE toC
           /\ CGrows({"result"})
           /\ \E i \in {"unacked", "outbox", "done"} :
                 /\ srv' = Turned(srv, q, i)
                 /\ i = "unacked" => srv.link = "attached"
                 /\ i = "outbox" => srv.link = "suspended"
                 /\ i = "done" => srv.link = "closed"
           /\ UNCHANGED <<runs, busy, cl, up, toS, client, answered, ghosts>>
           /\ UNCHANGED <<cst, has, crun, doing, ask, withdrawn>>
           /\ UNCHANGED <<stopped, aim, told, heardTo, resumedTo, resumedBy, load>>
  <1> PICK st : st = IF srv.input[q] = "answered" THEN "answered" ELSE "cancelled"
    OBVIOUS
  <1> PICK m : m = [t |-> "result", q |-> q, st |-> st]
    OBVIOUS
  <1> PICK i : i = CASE srv.link = "attached"  -> "unacked"
                     [] srv.link = "suspended" -> "outbox"
                     [] srv.link = "closed"    -> "done"
    OBVIOUS
  <1>1. /\ srv.input[q] \in {"answered", "aborted"} /\ srv' = Turned(srv, q, i)
        /\ Deliver(srv, <<m>>)
        /\ UNCHANGED <<runs, busy, cl, up, toS, client, answered, ghosts>>
        /\ UNCHANGED <<cst, has, crun, doing, ask, withdrawn>>
        /\ UNCHANGED <<stopped, aim, told, heardTo, resumedTo, resumedBy, load>>
    BY DEF Reply, client, ghosts
  <1>2. srv.link \in {"attached", "suspended", "closed"} /\ srv \in Sessions
    BY SrvFields DEF TypeOK
  <1>3. /\ i \in {"unacked", "outbox", "done"}
        /\ i = "unacked" => srv.link = "attached"
        /\ i = "outbox" => srv.link = "suspended"
        /\ i = "done" => srv.link = "closed"
    BY <1>2
  <1>4. srv' \in Sessions
    <2>1. i \in Inputs
      BY <1>3 DEF Inputs
    <2>2. srv' = Turned(srv, q, i) /\ srv \in Sessions
      BY <1>1, <1>2
    <2> PICK d : d = Turned(srv, q, i)
      OBVIOUS
    <2>3. d \in Sessions
      BY <2>1, <2>2, TurnedFacts
    <2> QED
      BY <2>2, <2>3
  <1>5. m \in ToClient /\ m.t = "result" /\ m.q = q /\ m.st = st
    BY ResultSent
  <1>6. CGrows({"result"}) /\ toC' = IF Carried(srv) THEN toC \o <<m>> ELSE toC
    BY <1>1, <1>5, Delivered DEF Deliver
  <1>7. toC' \in Seq(ToClient)
    BY <1>6, CGrowsFacts DEF TypeOK
  <1>8. TypeOK'
    BY <1>1, <1>4, <1>7 DEF TypeOK, n
  <1> QED
    BY <1>1, <1>3, <1>5, <1>6, <1>8

\* One of the Stops os, pressed at, is about r.
StopAt(os, r, at) == \E o \in os : Covers(o.run, r) /\ o.at = at
OwedAt(os, at) == \E o \in os : o.at = at

LEMMA UndoStopsFacts ==
    ASSUME NEW os \in SUBSET OwedStops, NEW t \in Targets, NEW us, us = UndoStops(os, t)
    PROVE  /\ us \subseteq OwedStops
           /\ \A u \in us : OwedAt(os, u.at)
           /\ \A u \in us : \A r \in Runs : Covers(u.run, r) =>
                 ~Covers(t, r) /\ StopAt(os, r, u.at)
           /\ \A o \in os : \A r \in Runs : Covers(o.run, r) /\ ~Covers(t, r) /\ runs[r] \in Live =>
                 \E u \in us : Covers(u.run, r) /\ u.at = o.at
  <1>0. All \notin Runs
    BY LinkAssumption
  <1> PICK ks : ks = {o \in os : t # All /\ o.run \notin {All, t}}
    OBVIOUS
  <1> DEFINE whole == {x \in os : x.run = All}
             ss    == UNION {Split(o, t) : o \in whole}
  <1>1. us = ks \cup (IF t = All THEN {} ELSE ss)
    BY DEF UndoStops
  <1>a. \A u \in ss : \E o \in whole : u \in Split(o, t)
    OBVIOUS
  <1>b. \A o \in whole : Split(o, t) \subseteq ss
    OBVIOUS
  <1> HIDE DEF ss
  <1>2. ASSUME NEW u \in ss
        PROVE  /\ u \in OwedStops /\ u.run \in Runs \ {t}
               /\ \E o \in os : o.run = All /\ o.at = u.at
    <2>1. PICK o \in whole : u \in Split(o, t)
      BY <1>2, <1>a
    <2>2. PICK r \in Runs \ {t} : u = [run |-> r, at |-> o.at, split |-> TRUE]
      BY <2>1 DEF Split
    <2>3. o \in OwedStops /\ o.at \in Nat /\ r \in Targets
      BY <2>1, <2>2, OwedFields DEF Targets
    <2>4. u \in OwedStops
      BY <2>2, <2>3, Zenon DEF OwedStops
    <2>5. u.run = r /\ u.at = o.at
      BY <2>2
    <2> QED
      BY <2>1, <2>4, <2>5
  <1>3. ASSUME NEW u \in us
        PROVE  u \in OwedStops /\ OwedAt(os, u.at)
    BY <1>1, <1>2, <1>3 DEF OwedAt
  <1>4. ASSUME NEW u \in us, NEW r \in Runs, Covers(u.run, r)
        PROVE  ~Covers(t, r) /\ StopAt(os, r, u.at)
    <2>1. t # All
      BY <1>1, <1>4
    <2>2. CASE u \in ks
      BY <1>4, <2>1, <2>2 DEF Covers, StopAt
    <2>3. CASE u \in ss
      <3>1. u.run = r /\ r # t
        BY <1>0, <1>2, <1>4, <2>3 DEF Covers
      <3>2. PICK o \in os : o.run = All /\ o.at = u.at
        BY <1>2, <2>3
      <3> QED
        BY <2>1, <3>1, <3>2 DEF Covers, StopAt
    <2> QED
      BY <1>1, <1>4, <2>2, <2>3
  <1>5. ASSUME NEW o \in os, NEW r \in Runs, Covers(o.run, r), ~Covers(t, r), runs[r] \in Live
        PROVE  \E u \in us : Covers(u.run, r) /\ u.at = o.at
    <2>1. t # All /\ t # r
      BY <1>5 DEF Covers
    <2>2. CASE o.run = All
      <3> PICK u : u = [run |-> r, at |-> o.at, split |-> TRUE]
        OBVIOUS
      <3>0. u \in Split(o, t) /\ o \in whole
        BY <1>5, <2>1, <2>2 DEF Split
      <3>1. u \in ss
        BY <3>0, <1>b
      <3>2. u.run = r /\ u.at = o.at
        OBVIOUS
      <3> QED
        BY <1>1, <2>1, <3>1, <3>2 DEF Covers
    <2>3. CASE o.run = r
      <3>1. o \in ks
        BY <1>0, <2>1, <2>3
      <3> QED
        BY <1>1, <1>5, <3>1
    <2> QED
      BY <1>5, <2>2, <2>3 DEF Covers
  <1> QED
    BY <1>3, <1>4, <1>5

LEMMA HearControlFx ==
    ASSUME TypeOK, NEW m \in ToServer, m.t = "answer", HearControl(m),
           toS' \in Seq(ToServer), UNCHANGED <<cl, up, client>>
    PROVE  /\ TypeOK' /\ ToldOn
           /\ srv'.home = srv.home /\ srv'.link = srv.link /\ srv'.open = srv.open
           /\ srv'.held = srv.held /\ srv'.input = srv.input
           /\ srv'.waits \cup srv'.late \subseteq srv.waits \cup srv.late
           /\ \/ /\ srv'.owed = UndoStops(srv.owed, m.w.run)
                 /\ resumedTo' = [r \in Runs |-> IF Covers(m.w.run, r) THEN n ELSE resumedTo[r]]
                 /\ resumedBy' = [r \in Runs |-> IF Covers(m.w.run, r) /\ m.w.at > resumedBy[r]
                                                 THEN m.w.at ELSE resumedBy[r]]
              \/ /\ srv'.owed = srv.owed \/ (m.w.act = "stop" /\ srv'.owed = Answered(srv.owed, m.w))
                 /\ resumedTo' = resumedTo /\ resumedBy' = resumedBy
           /\ UNCHANGED <<runs, busy, answered, stopped, aim, heardTo, load, toC>>
           /\ UNCHANGED <<cl, up, cst, has, crun, doing, ask, withdrawn>>
  <1> PICK w : w = m.w
    OBVIOUS
  <1>0. w \in Requests /\ w.act \in {"stop", "resume"} /\ w.run \in Targets /\ w.at \in Nat /\ m.ok \in BOOLEAN
    BY ToServerKinds, RequestFields
  <1> DEFINE inTime == w \in srv.waits
             resumed == inTime /\ w.act = "resume" /\ m.ok
  <1> PICK f : f = [p \in 1 .. n |-> IF inTime /\ w.act = "stop" /\ p = w.at /\ told[p] = "waiting"
                                      THEN (IF m.ok THEN "done" ELSE "refused") ELSE told[p]]
    OBVIOUS
  <1> PICK os : os = IF resumed THEN UndoStops(srv.owed, w.run)
                      ELSE IF w.act = "stop" /\ w \in srv.waits \cup srv.late
                      THEN Answered(srv.owed, w) ELSE srv.owed
    OBVIOUS
  <1>1. /\ srv' = [srv EXCEPT !.waits = srv.waits \ {w}, !.late = srv.late \ {w}, !.owed = os]
        /\ told' = f
        /\ resumedTo' = [r \in Runs |-> IF resumed /\ Covers(w.run, r) THEN n ELSE resumedTo[r]]
        /\ resumedBy' = [r \in Runs |-> IF resumed /\ Covers(w.run, r) /\ w.at > resumedBy[r]
                                        THEN w.at ELSE resumedBy[r]]
        /\ UNCHANGED <<runs, busy, answered, stopped, aim, heardTo, load, toC>>
        /\ UNCHANGED <<cl, up, cst, has, crun, doing, ask, withdrawn>>
    BY DEF HearControl, client
  <1>2. srv \in Sessions /\ n \in Nat /\ resumedTo \in [Runs -> Nat] /\ resumedBy \in [Runs -> Nat]
    BY Counted DEF TypeOK
  <1>3. srv.waits \subseteq Requests /\ srv.late \subseteq Requests /\ srv.owed \subseteq OwedStops
    BY <1>2, SrvFields
  <1>4. os \subseteq OwedStops
    <2>0. srv.owed \in SUBSET OwedStops /\ w.run \in Targets
      BY <1>0, <1>3
    <2> PICK us : us = UndoStops(srv.owed, w.run)
      OBVIOUS
    <2>1. us \subseteq OwedStops
      BY ONLY <2>0, UndoStopsFacts, us = UndoStops(srv.owed, w.run)
    <2>2. Answered(srv.owed, w) \subseteq OwedStops
      BY <1>3 DEF Answered
    <2> QED
      BY <1>3, <2>1, <2>2
  <1>5. /\ srv'.home = srv.home /\ srv'.link = srv.link /\ srv'.open = srv.open
        /\ srv'.held = srv.held /\ srv'.input = srv.input /\ srv'.owed = os
        /\ srv'.waits = srv.waits \ {w} /\ srv'.late = srv.late \ {w}
    BY <1>1, <1>2 DEF Sessions
  <1>6. srv' \in Sessions
    <2>1. srv.waits \ {w} \subseteq Requests /\ srv.late \ {w} \subseteq Requests
      BY <1>3
    <2> QED
      BY <1>1, <1>2, <1>4, <2>1 DEF Sessions
  <1>7. \A p \in 1 .. n : told[p] \in Outcomes
    BY Counted
  <1>8. \A p \in 1 .. n : f[p] \in Outcomes /\ (f[p] = told[p] \/ f[p] \in {"done", "refused"})
    BY <1>7 DEF Outcomes
  <1>9. f \in [1 .. n -> Outcomes]
    BY <1>8
  <1>10. \A p \in 1 .. n : f[p] \in {"waiting", "held", "unconfirmed"} => Pending(p)
    BY <1>8 DEF Pending
  <1>11. told' \in Seq(Outcomes) /\ Len(aim') = n' /\ ToldOn
    BY <1>1, <1>9, <1>10, ToldAgain
  <1>12. resumedTo' \in [Runs -> Nat] /\ resumedBy' \in [Runs -> Nat]
    BY <1>0, <1>1, <1>2
  <1>13. TypeOK'
    BY <1>1, <1>6, <1>11, <1>12 DEF TypeOK, ToldOn
  <1>14. \/ /\ srv'.owed = UndoStops(srv.owed, m.w.run)
            /\ resumedTo' = [r \in Runs |-> IF Covers(m.w.run, r) THEN n ELSE resumedTo[r]]
            /\ resumedBy' = [r \in Runs |-> IF Covers(m.w.run, r) /\ m.w.at > resumedBy[r]
                                            THEN m.w.at ELSE resumedBy[r]]
         \/ /\ srv'.owed = srv.owed \/ (m.w.act = "stop" /\ srv'.owed = Answered(srv.owed, m.w))
            /\ resumedTo' = resumedTo /\ resumedBy' = resumedBy
    <2>1. CASE resumed
      BY <1>1, <1>5, <2>1
    <2>2. CASE ~resumed
      <3>1. resumedTo' = [r \in Runs |-> resumedTo[r]] /\ resumedBy' = [r \in Runs |-> resumedBy[r]]
        BY <1>1, <2>2
      <3>2. resumedTo' = resumedTo /\ resumedBy' = resumedBy
        BY <1>2, <3>1
      <3>3. srv'.owed = srv.owed \/ (w.act = "stop" /\ srv'.owed = Answered(srv.owed, w))
        BY <1>5, <2>2
      <3> QED
        BY <3>2, <3>3
    <2> QED
      BY <2>1, <2>2
  <1> QED
    BY <1>1, <1>5, <1>11, <1>13, <1>14

LEMMA HearAskFx ==
    ASSUME TypeOK, NEW m \in ToServer, m.t = "ask", HearAsk(m),
           toS' \in Seq(ToServer), UNCHANGED <<cl, up, client>>
    PROVE  /\ TypeOK' /\ CGrows({"result"})
           /\ srv.open => srv' = Turned(srv, m.q, "open") /\ toC' = toC
           /\ ~srv.open => /\ srv' = srv
                           /\ \E x \in ToClient :
                                 /\ x.t = "result" /\ x.q = m.q /\ x.st = "cancelled"
                                 /\ toC' = IF Carried(srv) THEN toC \o <<x>> ELSE toC
           /\ UNCHANGED <<runs, busy, answered, ghosts>>
           /\ UNCHANGED <<stopped, aim, told, heardTo, resumedTo, resumedBy, load>>
           /\ UNCHANGED <<cl, up, cst, has, crun, doing, ask, withdrawn>>
  <1>1. /\ UNCHANGED <<runs, busy, answered, ghosts>>
        /\ UNCHANGED <<stopped, aim, told, heardTo, resumedTo, resumedBy, load>>
        /\ UNCHANGED <<cl, up, cst, has, crun, doing, ask, withdrawn>>
    BY DEF HearAsk, client, ghosts
  <1>2. srv \in Sessions /\ toC \in Seq(ToClient) /\ m.q \in Asks
    BY ToServerKinds DEF TypeOK
  <1>3. CASE srv.open
    <2>1. srv' = Turned(srv, m.q, "open") /\ Deliver(srv, <<>>)
      BY <1>3 DEF HearAsk
    <2>2. toC' = toC /\ CGrows({"result"})
      BY <1>2, <2>1, DeliveredNone
    <2>3. "open" \in Inputs
      BY DEF Inputs
    <2>4. srv' \in Sessions
      BY <1>2, <2>1, <2>3, TurnedFacts
    <2>5. TypeOK'
      BY <1>1, <2>2, <2>4 DEF TypeOK, n
    <2> QED
      BY <1>1, <1>3, <2>1, <2>2, <2>5
  <1>4. CASE ~srv.open
    <2> PICK x : x = [t |-> "result", q |-> m.q, st |-> "cancelled"]
      OBVIOUS
    <2>1. srv' = srv /\ Deliver(srv, <<x>>)
      BY <1>4 DEF HearAsk
    <2>2. x \in ToClient /\ x.t = "result" /\ x.q = m.q /\ x.st = "cancelled"
      BY <1>2, ResultSent
    <2>3. CGrows({"result"}) /\ toC' = IF Carried(srv) THEN toC \o <<x>> ELSE toC
      BY <2>1, <2>2, Delivered DEF Deliver
    <2>4. toC' \in Seq(ToClient)
      BY <1>2, <2>3, CGrowsFacts
    <2>5. TypeOK'
      BY <1>1, <1>2, <2>1, <2>4 DEF TypeOK, n
    <2> QED
      BY <1>1, <1>4, <2>1, <2>2, <2>3, <2>5
  <1> QED
    BY <1>3, <1>4

LEMMA HearCancelFx ==
    ASSUME TypeOK, NEW m \in ToServer, m.t = "cancel", HearCancel(m),
           toS' \in Seq(ToServer), UNCHANGED <<cl, up, client>>
    PROVE  /\ TypeOK'
           /\ \/ srv' = srv
              \/ srv.input[m.q] \in {"open", "answered"} /\ srv' = Turned(srv, m.q, "aborted")
           /\ UNCHANGED <<runs, busy, answered, ghosts, toC>>
           /\ UNCHANGED <<stopped, aim, told, heardTo, resumedTo, resumedBy, load>>
           /\ UNCHANGED <<cl, up, cst, has, crun, doing, ask, withdrawn>>
  <1>1. /\ UNCHANGED <<runs, busy, answered, ghosts, toC>>
        /\ UNCHANGED <<stopped, aim, told, heardTo, resumedTo, resumedBy, load>>
        /\ UNCHANGED <<cl, up, cst, has, crun, doing, ask, withdrawn>>
    BY DEF HearCancel, client, ghosts
  <1>2. srv \in Sessions /\ m.q \in Asks /\ "aborted" \in Inputs
    BY ToServerKinds DEF TypeOK, Inputs
  <1>3. \/ srv' = srv
        \/ srv.input[m.q] \in {"open", "answered"} /\ srv' = Turned(srv, m.q, "aborted")
    BY DEF HearCancel
  <1>4. srv' \in Sessions
    BY <1>2, <1>3, TurnedFacts
  <1>5. TypeOK'
    BY <1>1, <1>4 DEF TypeOK, n
  <1> QED
    BY <1>1, <1>3, <1>5

LEMMA HearAckFx ==
    ASSUME TypeOK, NEW m \in ToServer, m.t = "ack", HearAck(m),
           toS' \in Seq(ToServer), UNCHANGED <<cl, up, client>>
    PROVE  /\ TypeOK'
           /\ \/ srv' = srv
              \/ srv.input[m.q] = "unacked" /\ srv' = Turned(srv, m.q, "done")
           /\ UNCHANGED <<runs, busy, answered, ghosts, toC>>
           /\ UNCHANGED <<stopped, aim, told, heardTo, resumedTo, resumedBy, load>>
           /\ UNCHANGED <<cl, up, cst, has, crun, doing, ask, withdrawn>>
  <1>1. /\ UNCHANGED <<runs, busy, answered, ghosts, toC>>
        /\ UNCHANGED <<stopped, aim, told, heardTo, resumedTo, resumedBy, load>>
        /\ UNCHANGED <<cl, up, cst, has, crun, doing, ask, withdrawn>>
    BY DEF HearAck, client, ghosts
  <1>2. srv \in Sessions /\ m.q \in Asks /\ "done" \in Inputs
    BY ToServerKinds DEF TypeOK, Inputs
  <1>3. \/ srv' = srv
        \/ srv.input[m.q] = "unacked" /\ srv' = Turned(srv, m.q, "done")
    BY DEF HearAck
  <1>4. srv' \in Sessions
    BY <1>2, <1>3, TurnedFacts
  <1>5. TypeOK'
    BY <1>1, <1>4 DEF TypeOK, n
  <1> QED
    BY <1>1, <1>3, <1>5

LEMMA HearRunsFx ==
    ASSUME TypeOK, NEW m \in ToServer, m.t = "runs", HearRuns(m),
           toS' \in Seq(ToServer), UNCHANGED <<cl, up, client>>
    PROVE  /\ TypeOK' /\ (runs' = runs \/ runs' = m.st)
           /\ UNCHANGED <<srv, busy, answered, ghosts, toC>>
           /\ UNCHANGED <<stopped, aim, told, heardTo, resumedTo, resumedBy, load>>
           /\ UNCHANGED <<cl, up, cst, has, crun, doing, ask, withdrawn>>
  <1>1. /\ UNCHANGED <<srv, busy, answered, ghosts, toC>>
        /\ UNCHANGED <<stopped, aim, told, heardTo, resumedTo, resumedBy, load>>
        /\ UNCHANGED <<cl, up, cst, has, crun, doing, ask, withdrawn>>
        /\ (runs' = runs \/ runs' = m.st)
    BY DEF HearRuns, client, ghosts
  <1>2. m.st \in RunStates
    BY ToServerKinds
  <1>3. TypeOK'
    BY <1>1, <1>2 DEF TypeOK, n
  <1> QED
    BY <1>1, <1>3

-----------------------------------------------------------------------------
(* A client that is back.                                                  *)

LEMMA FiniteTargets ==
    ASSUME NEW T \in SUBSET Targets
    PROVE  IsFiniteSet(T)
  <1>1. Targets = Runs \cup {All}
    BY DEF Targets
  <1>2. IsFiniteSet(Targets)
    BY <1>1, LinkAssumption, FS_AddElement
  <1> QED
    BY <1>2, FS_Subset

LEMMA SentAgainFacts ==
    ASSUME NEW s \in Sessions, NEW named \in SUBSET Asks, n \in Nat, NEW c, c = SentAgain(s, named)
    PROVE  /\ c \in Seq(ToClient)
           /\ \A m \in Range(c) :
                 \/ /\ m.t = "control" /\ m.w \in Requests /\ m.w.act = "stop" /\ m.w.at = n
                 \/ /\ m.t = "result" /\ m.q \in named /\ s.input[m.q] = "outbox"
                    /\ m.st = IF m.q \in answered THEN "answered" ELSE "cancelled"
           /\ \A q \in named : s.input[q] = "outbox" => \E m \in Range(c) : m.t = "result" /\ m.q = q
  <1>0. s.held \subseteq Targets
    BY SrvFields
  <1> PICK ag : ag = Again(s, named)
    OBVIOUS
  <1>a. ag \subseteq Asks /\ \A q \in named : q \in ag <=> s.input[q] = "outbox"
    BY DEF Again
  <1>b. \A q \in ag : q \in named /\ s.input[q] = "outbox"
    BY DEF Again
  <1> DEFINE stop(r)   == [t |-> "control", w |-> [act |-> "stop", run |-> r, at |-> n]]
             result(q) == [t |-> "result", q |-> q,
                           st |-> IF q \in answered THEN "answered" ELSE "cancelled"]
  <1> PICK f : f = [r \in s.held |-> stop(r)]
    OBVIOUS
  <1> PICK g : g = [q \in ag |-> result(q)]
    OBVIOUS
  <1>1. c = SetToSeq({stop(r) : r \in s.held}) \o SetToSeq({result(q) : q \in ag})
    BY DEF SentAgain
  <1>2. Range(f) = {stop(r) : r \in s.held} /\ DOMAIN f = s.held /\ f \in [s.held -> Range(f)]
    <2> HIDE DEF stop
    <2> QED
      BY DEF Range
  <1>3. Range(g) = {result(q) : q \in ag} /\ DOMAIN g = ag /\ g \in [ag -> Range(g)]
    <2> HIDE DEF result
    <2> QED
      BY DEF Range
  <1>4. IsFiniteSet(Range(f))
    <2>1. IsFiniteSet(s.held)
      BY <1>0, FiniteTargets
    <2> QED
      BY <1>2, <2>1, FiniteImage
  <1>5. IsFiniteSet(Range(g))
    <2>1. IsFiniteSet(ag)
      BY <1>a, LinkAssumption, FS_Subset
    <2> QED
      BY <1>3, <2>1, FiniteImage
  <1>6. ASSUME NEW m \in Range(f)
        PROVE  /\ m \in ToClient /\ m.t = "control" /\ m.w \in Requests
               /\ m.w.act = "stop" /\ m.w.at = n
    <2>1. PICK r \in s.held : m = stop(r)
      BY <1>2
    <2> PICK w : w = [act |-> "stop", run |-> r, at |-> n]
      OBVIOUS
    <2>2. w \in Requests /\ w.act = "stop" /\ w.at = n
      BY <1>0 DEF Requests
    <2>3. m = [t |-> "control", w |-> w]
      BY <2>1
    <2> QED
      BY <2>2, <2>3, ControlSent
  <1>7. ASSUME NEW m \in Range(g)
        PROVE  /\ m \in ToClient /\ m.t = "result" /\ m.q \in ag
               /\ m.st = IF m.q \in answered THEN "answered" ELSE "cancelled"
    <2>1. PICK q \in ag : m = result(q)
      BY <1>3
    <2> PICK st : st = IF q \in answered THEN "answered" ELSE "cancelled"
      OBVIOUS
    <2>2. q \in Asks /\ st \in {"answered", "cancelled"} /\ m = [t |-> "result", q |-> q, st |-> st]
      BY <1>a, <2>1
    <2> QED
      BY <2>2, ResultSent
  <1>8. \A q \in ag : \E m \in Range(g) : m.t = "result" /\ m.q = q
    <2> SUFFICES ASSUME NEW q \in ag
                 PROVE  \E m \in Range(g) : m.t = "result" /\ m.q = q
      OBVIOUS
    <2> PICK m : m = result(q)
      OBVIOUS
    <2>1. m \in Range(g)
      BY <1>3
    <2>2. m.t = "result" /\ m.q = q
      OBVIOUS
    <2> QED
      BY <2>1, <2>2
  <1> PICK d : d = SetToSeq(Range(f))
    OBVIOUS
  <1> PICK e : e = SetToSeq(Range(g))
    OBVIOUS
  <1>9. d \in Seq(ToClient) /\ Range(d) = Range(f)
    BY <1>4, <1>6, SentOnce
  <1>10. e \in Seq(ToClient) /\ Range(e) = Range(g)
    BY <1>5, <1>7, SentOnce
  <1>11. c = d \o e
    BY <1>1, <1>2, <1>3
  <1>12. c \in Seq(ToClient) /\ Range(c) = Range(f) \cup Range(g)
    <2>1. d \in Seq(ToClient) /\ e \in Seq(ToClient)
      BY <1>9, <1>10
    <2> PICK h : h = d \o e
      OBVIOUS
    <2>2. h \in Seq(ToClient) /\ Range(h) = Range(d) \cup Range(e)
      BY ONLY <2>1, h = d \o e, Joined
    <2> QED
      BY <1>9, <1>10, <1>11, <2>2
  <1> HIDE DEF stop, result
  <1>13. ASSUME NEW m \in Range(c)
         PROVE  \/ /\ m.t = "control" /\ m.w \in Requests /\ m.w.act = "stop" /\ m.w.at = n
                \/ /\ m.t = "result" /\ m.q \in named /\ s.input[m.q] = "outbox"
                   /\ m.st = IF m.q \in answered THEN "answered" ELSE "cancelled"
    BY <1>6, <1>7, <1>12, <1>b
  <1>14. ASSUME NEW q \in named, s.input[q] = "outbox"
         PROVE  \E m \in Range(c) : m.t = "result" /\ m.q = q
    BY <1>8, <1>12, <1>14, <1>a
  <1> QED
    BY <1>12, <1>13, <1>14

\* The session as the server has it when its client is back.
Found(s) == s = IF srv.link = "attached" THEN Dropped(srv) ELSE srv

\* The three outcomes of a resume: refused, handed over, ended.
Refuses(m) ==
    /\ srv.link = "attached" /\ ~(srv.open /\ m.has) /\ srv' = srv
    /\ \E x \in ToClient : x.t = "refused" /\ toC' = <<x>>
HandsOver(m, s) ==
    /\ s.link = "suspended" /\ m.has /\ srv' = Handed(s, m.named)
    /\ ~(srv.link = "attached" /\ ~srv.open)
    /\ \E x \in ToClient, c \in Seq(ToClient) :
          /\ x.t = "resumed" /\ x.has = TRUE /\ x.asks = m.named \cap (InInputs(s) \cup Again(s, m.named))
          /\ c = SentAgain(s, m.named) /\ toC' = <<x>> \o c
Starts(m, s) ==
    /\ ~(s.link = "suspended" /\ m.has) /\ ~(srv.link = "attached" /\ ~(srv.open /\ m.has))
    /\ srv' \in Sessions /\ srv'.home = cl /\ srv'.link = "attached" /\ srv'.open = FALSE
    /\ srv'.owed = {} /\ srv'.held = {} /\ srv'.waits = {} /\ srv'.late = {}
    /\ \A q \in Asks : srv'.input[q] = Ended(s.input[q])
    /\ \E x \in ToClient : x.t = "resumed" /\ x.has = FALSE /\ x.asks = {} /\ toC' = <<x>>

LEMMA HearResumeFx ==
    ASSUME TypeOK, NEW m \in ToServer, m.t = "resume", HearResume(m), toC = <<>>,
           toS' \in Seq(ToServer), UNCHANGED <<cl, up, client>>, NEW s, Found(s)
    PROVE  /\ TypeOK' /\ ToldOn /\ s \in Sessions /\ toC' \in Seq(ToClient)
           /\ Refuses(m) \/ HandsOver(m, s) \/ Starts(m, s)
           /\ UNCHANGED <<runs, answered, stopped, aim, heardTo, resumedTo, resumedBy, load>>
           /\ UNCHANGED <<cl, up, cst, has, crun, doing, ask, withdrawn>>
  <1>1. /\ told' = (IF srv.link = "attached" THEN ToldDropped(srv) ELSE told) /\ busy' = FALSE
        /\ UNCHANGED <<runs, answered, stopped, aim, heardTo, resumedTo, resumedBy, load>>
        /\ UNCHANGED <<cl, up, cst, has, crun, doing, ask, withdrawn>>
    BY DEF HearResume, client
  <1>2. srv \in Sessions /\ m.has \in BOOLEAN /\ m.named \subseteq Asks /\ cl \in Nat \ {0} /\ n \in Nat
    BY Counted, ToServerKinds DEF TypeOK
  <1>3. s \in Sessions
    BY <1>2, DroppedFacts DEF Found
  <1>4. told' \in Seq(Outcomes) /\ Len(aim') = n' /\ ToldOn
    <2>1. CASE srv.link = "attached"
      BY <1>1, <2>1, ToldDropFacts
    <2>2. CASE srv.link # "attached"
      <3>1. UNCHANGED <<told, aim>>
        BY <1>1, <2>2
      <3> QED
        BY <3>1, ToldSame DEF TypeOK, n
    <2> QED
      BY <2>1, <2>2
  <1>5. ASSUME srv.link = "attached" /\ ~(srv.open /\ m.has)
        PROVE  srv' \in Sessions /\ toC' \in Seq(ToClient) /\ Refuses(m)
    <2> PICK x : x = [t |-> "refused"]
      OBVIOUS
    <2>1. srv' = srv /\ toC' = toC \o <<x>>
      BY <1>5 DEF HearResume
    <2>2. x \in ToClient /\ x.t = "refused"
      BY EndSent
    <2>3. toC' = <<x>>
      BY <2>1
    <2>4. toC' \in Seq(ToClient)
      BY <2>2, <2>3
    <2> QED
      BY <1>2, <1>5, <2>1, <2>2, <2>3, <2>4 DEF Refuses
  <1>6. ASSUME ~(srv.link = "attached" /\ ~(srv.open /\ m.has)) /\ s.link = "suspended" /\ m.has
        PROVE  srv' \in Sessions /\ toC' \in Seq(ToClient) /\ HandsOver(m, s)
    <2> PICK qs : qs = m.named \cap (InInputs(s) \cup Again(s, m.named))
      OBVIOUS
    <2> PICK x : x = [t |-> "resumed", has |-> TRUE, asks |-> qs]
      OBVIOUS
    <2> PICK c : c = SentAgain(s, m.named)
      OBVIOUS
    <2>1. srv' = Handed(s, m.named) /\ toC' = toC \o <<x>> \o c
      BY <1>6 DEF HearResume, Found
    <2>2. qs \subseteq Asks
      BY <1>2
    <2>3. x \in ToClient /\ x.t = "resumed" /\ x.has = TRUE /\ x.asks = qs
      BY <2>2, ResumedSent
    <2>4. c \in Seq(ToClient)
      BY <1>2, <1>3, SentAgainFacts
    <2>5. toC' = <<x>> \o c
      BY <2>1, <2>3, <2>4
    <2>6. <<x>> \in Seq(ToClient)
      BY <2>3
    <2>7. toC' \in Seq(ToClient)
      BY <2>4, <2>5, <2>6
    <2>8. srv' \in Sessions
      BY <1>2, <1>3, <2>1, HandedFacts
    <2>9. ~(srv.link = "attached" /\ ~srv.open)
      BY <1>6
    <2>10. HandsOver(m, s)
      BY <1>6, <2>1, <2>3, <2>4, <2>5, <2>9 DEF HandsOver
    <2> QED
      BY <2>7, <2>8, <2>10
  <1>7. ASSUME ~(srv.link = "attached" /\ ~(srv.open /\ m.has)) /\ ~(s.link = "suspended" /\ m.has)
        PROVE  srv' \in Sessions /\ toC' \in Seq(ToClient) /\ Starts(m, s)
    <2> PICK x : x = [t |-> "resumed", has |-> FALSE, asks |-> {}]
      OBVIOUS
    <2> PICK d : d = Closed(s)
      OBVIOUS
    <2>1. srv' = [d EXCEPT !.home = cl, !.link = "attached"] /\ toC' = toC \o <<x>>
      BY <1>7 DEF HearResume, Found
    <2>2. x \in ToClient /\ x.t = "resumed" /\ x.has = FALSE /\ x.asks = {}
      <3>1. {} \in SUBSET Asks /\ FALSE \in BOOLEAN
        OBVIOUS
      <3> QED
        BY <3>1, ResumedSent
    <2>3. toC' = <<x>>
      BY <2>1
    <2>4. /\ d \in Sessions /\ d.open = FALSE /\ d.owed = {} /\ d.held = {} /\ d.waits = {} /\ d.late = {}
          /\ \A q \in Asks : d.input[q] = Ended(s.input[q])
      BY <1>3, ClosedFacts
    <2>5. /\ srv'.home = cl /\ srv'.link = "attached" /\ srv'.open = d.open
          /\ srv'.owed = d.owed /\ srv'.held = d.held /\ srv'.waits = d.waits /\ srv'.late = d.late
          /\ srv'.input = d.input
      BY <2>1, <2>4 DEF Sessions
    <2>6. srv' \in Sessions
      BY <1>2, <2>1, <2>4 DEF Sessions
    <2>7. toC' \in Seq(ToClient)
      BY <2>2, <2>3
    <2>8. Starts(m, s)
      BY <1>7, <2>2, <2>3, <2>4, <2>5, <2>6 DEF Starts
    <2> QED
      BY <2>6, <2>7, <2>8
  <1>8. /\ srv' \in Sessions /\ toC' \in Seq(ToClient)
        /\ Refuses(m) \/ HandsOver(m, s) \/ Starts(m, s)
    BY <1>5, <1>6, <1>7
  <1>9. busy' \in BOOLEAN
    BY <1>1
  <1>10. TypeOK'
    BY <1>1, <1>4, <1>8, <1>9 DEF TypeOK, ToldOn
  <1> QED
    BY <1>1, <1>3, <1>4, <1>8, <1>10

-----------------------------------------------------------------------------
(* What the client does.                                                   *)

\* The client may have reported its runs.
Reports == \/ toS' = toS
           \/ /\ up /\ cst = "on"
              /\ \E m \in ToServer : m.t = "runs" /\ m.st = crun' /\ toS' = toS \o <<m>>

LEMMA ReportsFacts ==
    ASSUME TypeOK, Reports
    PROVE  /\ SGrows({"runs"})
           /\ \A m \in Range(toS') : m \in Range(toS) \/ (m.t = "runs" /\ m.st = crun')
  <1>1. SGrows({"runs"})
    BY DEF Reports, SGrows
  <1>2. CASE toS' = toS
    BY <1>1, <1>2
  <1>3. CASE \E m \in ToServer : m.t = "runs" /\ m.st = crun' /\ toS' = toS \o <<m>>
    <2> PICK m \in ToServer : m.t = "runs" /\ m.st = crun' /\ toS' = toS \o <<m>>
      BY <1>3
    <2> PICK c : c = toS'
      OBVIOUS
    <2>1. toS \in Seq(ToServer) /\ c = toS \o <<m>>
      BY DEF TypeOK
    <2>2. Range(c) = Range(toS) \cup {m}
      BY <2>1, AddedOne
    <2> QED
      BY <1>1, <2>2
  <1> QED
    BY <1>2, <1>3 DEF Reports

LEMMA ReportSaid ==
    ASSUME TypeOK, NEW c \in RunStates, crun' = c, Say(Report(c))
    PROVE  Reports /\ toS' \in Seq(ToServer)
  <1> PICK m : m = [t |-> "runs", st |-> c]
    OBVIOUS
  <1>1. m \in ToServer /\ m.t = "runs" /\ m.st = c
    BY RunsSaid
  <1>2. toS \in Seq(ToServer) /\ toS' = IF up /\ cst = "on" THEN toS \o <<m>> ELSE toS
    BY DEF Say, Report, TypeOK
  <1>3. Reports
    BY <1>1, <1>2 DEF Reports
  <1>4. toS' \in Seq(ToServer)
    BY <1>1, <1>2
  <1> QED
    BY <1>3, <1>4

LEMMA HearPressFx ==
    ASSUME TypeOK, NEW m \in ToClient, m.t = "control", HearPress(m), toC' \in Seq(ToClient),
           UNCHANGED <<srv, runs, busy, cl, up, answered, stopped, aim, told, resumedTo, resumedBy, load>>
    PROVE  /\ TypeOK' /\ Reports
           /\ \A r \in Runs : crun'[r] = "ended" <=> crun[r] = "ended"
           /\ \E d \in [w: Requests, ok: BOOLEAN] : d.w = m.w /\ doing' = doing \cup {d}
           /\ \A r \in Runs : heardTo'[r] = IF m.w.act = "stop" /\ Covers(m.w.run, r) THEN m.w.at ELSE heardTo[r]
           /\ UNCHANGED <<cst, has, ask, withdrawn>>
  <1> PICK w : w = m.w
    OBVIOUS
  <1>0. w \in Requests /\ w.act \in {"stop", "resume"} /\ w.at \in Nat
    BY ToClientKinds, RequestFields
  <1> PICK from : from = IF w.act = "stop" THEN "running" ELSE "paused"
    OBVIOUS
  <1> PICK to : to = IF w.act = "stop" THEN "paused" ELSE "running"
    OBVIOUS
  <1> PICK next : next = [r \in Runs |-> IF Covers(w.run, r) /\ crun[r] = from THEN to ELSE crun[r]]
    OBVIOUS
  <1> DEFINE known == \E r \in Runs : Covers(w.run, r) /\ crun[r] \in Live
  <1>1. /\ crun' = next /\ doing' = doing \cup {[w |-> w, ok |-> known]}
        /\ heardTo' = [r \in Runs |-> IF w.act = "stop" /\ Covers(w.run, r) THEN w.at ELSE heardTo[r]]
        /\ Say(IF next # crun THEN Report(next) ELSE <<>>)
        /\ UNCHANGED <<cst, has, ask, withdrawn>>
    BY DEF HearPress
  <1>2. crun \in RunStates /\ heardTo \in [Runs -> Nat] /\ toS \in Seq(ToServer)
        /\ doing \subseteq [w: Requests, ok: BOOLEAN]
    BY DEF TypeOK
  <1>3. from \in Live /\ to \in Live
    BY DEF Live
  <1>4. next \in RunStates /\ \A r \in Runs : next[r] = "ended" <=> crun[r] = "ended"
    BY <1>2, <1>3 DEF RunStates, Live
  <1>5. PICK d : d = [w |-> w, ok |-> known]
    OBVIOUS
  <1>6. d \in [w: Requests, ok: BOOLEAN] /\ d.w = w
    <2>1. known \in BOOLEAN
      OBVIOUS
    <2> HIDE DEF known
    <2> QED
      BY <1>0, <1>5, <2>1, Zenon
  <1>7. Reports /\ toS' \in Seq(ToServer)
    <2>1. CASE next # crun
      <3>1. Say(Report(next))
        BY <1>1, <2>1
      <3> QED
        BY <1>1, <1>4, <3>1, ReportSaid
    <2>2. CASE next = crun
      <3>1. Say(<<>>)
        BY <1>1, <2>2
      <3>2. toS' = toS
        BY <1>2, <3>1, SaidNone
      <3> QED
        BY <1>2, <3>2 DEF Reports
    <2> QED
      BY <2>1, <2>2
  <1>8. heardTo' \in [Runs -> Nat]
    BY <1>0, <1>1, <1>2
  <1>9. doing' \subseteq [w: Requests, ok: BOOLEAN] /\ doing' = doing \cup {d}
    BY <1>1, <1>2, <1>5, <1>6
  <1>10. TypeOK'
    BY <1>1, <1>4, <1>7, <1>8, <1>9 DEF TypeOK, n
  <1> QED
    BY <1>1, <1>2, <1>4, <1>6, <1>7, <1>9, <1>10

LEMMA HearResultFx ==
    ASSUME TypeOK, NEW m \in ToClient, m.t = "result", HearResult(m), toC' \in Seq(ToClient),
           UNCHANGED <<srv, runs, busy, cl, up, answered, stopped, aim, told, resumedTo, resumedBy, load>>
    PROVE  /\ TypeOK'
           /\ \A q \in Asks : ask'[q] = IF q = m.q /\ ask[q] = "pending" THEN m.st ELSE ask[q]
           /\ \E x \in ToServer :
                 /\ x.t = "ack" /\ x.q = m.q
                 /\ toS' = IF up /\ cst = "on" THEN toS \o <<x>> ELSE toS
           /\ SGrows({"ack"})
           /\ UNCHANGED <<cst, has, crun, doing, withdrawn, heardTo>>
  <1> PICK x : x = [t |-> "ack", q |-> m.q]
    OBVIOUS
  <1>1. /\ ask' = (IF ask[m.q] = "pending" THEN [ask EXCEPT ![m.q] = m.st] ELSE ask)
        /\ Say(<<x>>)
        /\ UNCHANGED <<cst, has, crun, doing, withdrawn, heardTo>>
    BY DEF HearResult
  <1>2. /\ m.q \in Asks /\ m.st \in {"answered", "cancelled"} /\ toS \in Seq(ToServer)
        /\ ask \in [Asks -> {"none", "pending", "answered", "cancelled"}]
    BY ToClientKinds DEF TypeOK
  <1>3. x \in ToServer /\ x.t = "ack" /\ x.q = m.q
    BY <1>2, AskSaid
  <1>4. SGrows({"ack"}) /\ toS' = IF up /\ cst = "on" THEN toS \o <<x>> ELSE toS
    BY <1>1, <1>3, SaidOne DEF Say
  <1>5. toS' \in Seq(ToServer)
    BY <1>2, <1>4, SGrowsFacts
  <1>6. /\ ask' \in [Asks -> {"none", "pending", "answered", "cancelled"}]
        /\ \A q \in Asks : ask'[q] = IF q = m.q /\ ask[q] = "pending" THEN m.st ELSE ask[q]
    BY <1>1, <1>2
  <1>7. TypeOK'
    BY <1>1, <1>5, <1>6 DEF TypeOK, n
  <1> QED
    BY <1>1, <1>3, <1>4, <1>6, <1>7

LEMMA HearResumedFx ==
    ASSUME TypeOK, NEW m \in ToClient, m.t = "resumed", HearResumed(m), toC' \in Seq(ToClient),
           UNCHANGED <<srv, runs, busy, cl, up, answered, stopped, aim, told, resumedTo, resumedBy, load>>
    PROVE  /\ TypeOK' /\ cst' = "on" /\ has' = m.has
           /\ \A q \in Asks : ask'[q] = IF ask[q] = "pending" /\ q \notin m.asks THEN "cancelled" ELSE ask[q]
           /\ \A r \in Runs : crun'[r] = IF m.has THEN crun[r] ELSE "ended"
           /\ \A x \in Range(toS) : x \in Range(toS')
           /\ \A x \in Range(toS') :
                 \/ x \in Range(toS)
                 \/ x.t = "cancel" /\ x.q \in withdrawn
                 \/ x.t = "runs" /\ x.st = crun'
           /\ UNCHANGED <<doing, withdrawn, heardTo>>
  <1> PICK b \in BOOLEAN : b = m.has
    BY ToClientKinds
  <1> PICK R : R = {[t |-> "cancel", q |-> q] : q \in m.asks \cap withdrawn}
    OBVIOUS
  <1> PICK d : d = SetToSeq(R)
    OBVIOUS
  <1> PICK e : e = IF b THEN Report(crun) ELSE <<>>
    OBVIOUS
  <1>1. /\ cst' = "on" /\ has' = b
        /\ ask' = [q \in Asks |-> IF ask[q] = "pending" /\ q \notin m.asks THEN "cancelled" ELSE ask[q]]
        /\ crun' = (IF b THEN crun ELSE [r \in Runs |-> "ended"])
        /\ toS' = toS \o d \o e
        /\ UNCHANGED <<doing, withdrawn, heardTo>>
    BY DEF HearResumed
  <1>2. /\ m.asks \subseteq Asks /\ toS \in Seq(ToServer) /\ crun \in RunStates /\ withdrawn \subseteq Asks
        /\ ask \in [Asks -> {"none", "pending", "answered", "cancelled"}]
    BY ToClientKinds DEF TypeOK
  <1>3. \A x \in R : x \in ToServer /\ x.t = "cancel" /\ x.q \in withdrawn
    <2> SUFFICES ASSUME NEW x \in R
                 PROVE  x \in ToServer /\ x.t = "cancel" /\ x.q \in withdrawn
      OBVIOUS
    <2>1. PICK q \in m.asks \cap withdrawn : x = [t |-> "cancel", q |-> q]
      OBVIOUS
    <2> QED
      BY <1>2, <2>1, AskSaid
  <1>4. IsFiniteSet(R)
    <2> PICK A : A = m.asks \cap withdrawn
      OBVIOUS
    <2>1. IsFiniteSet(A)
      BY <1>2, LinkAssumption, FS_Subset
    <2> DEFINE msg(q) == [t |-> "cancel", q |-> q]
    <2> PICK f : f = [q \in A |-> msg(q)]
      OBVIOUS
    <2>2. R = {msg(q) : q \in A}
      OBVIOUS
    <2>3. Range(f) = R /\ DOMAIN f = A /\ f \in [A -> Range(f)]
      <3> HIDE DEF msg
      <3> QED
        BY <2>2 DEF Range
    <2> QED
      BY <2>1, <2>3, FiniteImage
  <1>5. d \in Seq(ToServer) /\ Range(d) = R
    BY <1>3, <1>4, SentOnce
  <1>6. e \in Seq(ToServer) /\ \A x \in Range(e) : b /\ x.t = "runs" /\ x.st = crun
    <2>1. CASE ~b
      <3>1. e = <<>>
        BY <2>1
      <3> QED
        BY <3>1, EmptyLine
    <2>2. CASE b
      <3> PICK x : x = [t |-> "runs", st |-> crun]
        OBVIOUS
      <3>1. x \in ToServer /\ x.t = "runs" /\ x.st = crun
        BY <1>2, RunsSaid
      <3>2. e = <<x>>
        BY <2>2 DEF Report
      <3>3. e \in Seq(ToServer) /\ Range(e) = {x}
        <4>1. <<>> \in Seq(ToServer) /\ Range(<<>>) = {} /\ e = <<>> \o <<x>>
          BY <3>2, EmptyLine
        <4> PICK z : z = <<>>
          OBVIOUS
        <4>2. z \in Seq(ToServer) /\ Range(z) = {} /\ e = z \o <<x>> /\ x \in ToServer
          BY <3>1, <4>1
        <4> QED
          BY ONLY <4>2, AddedOne
      <3> QED
        BY <2>2, <3>1, <3>3
    <2> QED
      BY <2>1, <2>2
  <1> PICK c : c = toS \o d
    OBVIOUS
  <1> PICK g : g = c \o e
    OBVIOUS
  <1>7. c \in Seq(ToServer) /\ Range(c) = Range(toS) \cup Range(d)
    BY ONLY <1>2, <1>5, c = toS \o d, Joined
  <1>8. g \in Seq(ToServer) /\ Range(g) = Range(c) \cup Range(e)
    BY ONLY <1>6, <1>7, g = c \o e, Joined
  <1>9. toS' = g
    BY <1>1
  <1>10. /\ ask' \in [Asks -> {"none", "pending", "answered", "cancelled"}]
         /\ \A q \in Asks : ask'[q] = IF ask[q] = "pending" /\ q \notin m.asks THEN "cancelled" ELSE ask[q]
    BY <1>1, <1>2
  <1>11. /\ crun' \in RunStates /\ (b => crun' = crun)
         /\ \A r \in Runs : crun'[r] = IF b THEN crun[r] ELSE "ended"
    BY <1>1, <1>2 DEF RunStates
  <1>12. TypeOK'
    BY <1>1, <1>8, <1>9, <1>10, <1>11 DEF TypeOK, n
  <1>13. ASSUME NEW x \in Range(g)
         PROVE  \/ x \in Range(toS)
                \/ x.t = "cancel" /\ x.q \in withdrawn
                \/ x.t = "runs" /\ x.st = crun'
    <2>1. x \in Range(toS) \/ x \in R \/ x \in Range(e)
      BY <1>5, <1>7, <1>8
    <2>2. CASE x \in R
      BY <1>3, <2>2
    <2>3. CASE x \in Range(e)
      <3>1. b /\ x.t = "runs" /\ x.st = crun
        BY <1>6, <2>3
      <3> QED
        BY <1>11, <3>1
    <2> QED
      BY <2>1, <2>2, <2>3
  <1>14. Range(toS') = Range(g)
    BY ONLY <1>9
  <1>15. \A x \in Range(toS) : x \in Range(toS')
    BY ONLY <1>7, <1>8, <1>14
  <1>16. \A x \in Range(toS') :
            \/ x \in Range(toS)
            \/ x.t = "cancel" /\ x.q \in withdrawn
            \/ x.t = "runs" /\ x.st = crun'
    BY <1>13, <1>14
  <1> QED
    BY <1>1, <1>10, <1>11, <1>12, <1>15, <1>16

LEMMA HearDestroyFx ==
    ASSUME TypeOK, HearDestroy, toC' \in Seq(ToClient),
           UNCHANGED <<srv, runs, busy, cl, up, answered, stopped, aim, told, resumedTo, resumedBy, load>>
    PROVE  /\ TypeOK' /\ has' = FALSE /\ \A r \in Runs : crun'[r] = "ended"
           /\ UNCHANGED <<cst, doing, ask, withdrawn, heardTo, toS>>
  <1>1. /\ has' = FALSE /\ crun' = [r \in Runs |-> "ended"]
        /\ UNCHANGED <<cst, doing, ask, withdrawn, heardTo, toS>>
    BY DEF HearDestroy
  <1>2. crun' \in RunStates
    BY <1>1 DEF RunStates
  <1>3. TypeOK'
    BY <1>1, <1>2 DEF TypeOK, n
  <1> QED
    BY <1>1, <1>3

LEMMA HearRefusedFx ==
    ASSUME TypeOK, HearRefused, toC' \in Seq(ToClient),
           UNCHANGED <<srv, runs, busy, cl, up, answered, stopped, aim, told, resumedTo, resumedBy, load>>
    PROVE  /\ TypeOK' /\ cst' = "gone" /\ has' = FALSE /\ doing' = {} /\ \A r \in Runs : crun'[r] = "ended"
           /\ \A q \in Asks : ask'[q] = IF ask[q] = "pending" THEN "cancelled" ELSE ask[q]
           /\ UNCHANGED <<withdrawn, heardTo, toS>>
  <1>1. /\ cst' = "gone" /\ has' = FALSE /\ crun' = [r \in Runs |-> "ended"] /\ doing' = {}
        /\ ask' = [q \in Asks |-> IF ask[q] = "pending" THEN "cancelled" ELSE ask[q]]
        /\ UNCHANGED <<withdrawn, heardTo, toS>>
    BY DEF HearRefused
  <1>2. crun' \in RunStates
    BY <1>1 DEF RunStates
  <1>3. ask' \in [Asks -> {"none", "pending", "answered", "cancelled"}]
    BY <1>1 DEF TypeOK
  <1>4. TypeOK'
    BY <1>1, <1>2, <1>3 DEF TypeOK, n
  <1> QED
    BY <1>1, <1>4

LEMMA AnswersFx ==
    ASSUME TypeOK, NEW d \in doing, Answers(d)
    PROVE  /\ TypeOK' /\ doing' = doing \ {d} /\ SGrows({"answer"})
           /\ \A x \in Range(toS') : x \in Range(toS) \/ (x.t = "answer" /\ x.w = d.w)
           /\ UNCHANGED <<srv, runs, busy, cl, up, toC, cst, has, crun, ask, withdrawn, answered, ghosts>>
           /\ UNCHANGED <<stopped, aim, told, heardTo, resumedTo, resumedBy, load>>
  <1> PICK x : x = [t |-> "answer", w |-> d.w, ok |-> d.ok]
    OBVIOUS
  <1>1. /\ doing' = doing \ {d} /\ Say(<<x>>)
        /\ UNCHANGED <<srv, runs, busy, cl, up, toC, cst, has, crun, ask, withdrawn, answered, ghosts>>
        /\ UNCHANGED <<stopped, aim, told, heardTo, resumedTo, resumedBy, load>>
    BY DEF Answers, ghosts
  <1>2. doing \subseteq [w: Requests, ok: BOOLEAN] /\ toS \in Seq(ToServer)
    BY DEF TypeOK
  <1>3. d.w \in Requests /\ d.ok \in BOOLEAN
    BY <1>2, Zenon
  <1>4. x \in ToServer /\ x.t = "answer" /\ x.w = d.w
    BY <1>3, AnswerSaid
  <1>5. SGrows({"answer"}) /\ toS' = IF up /\ cst = "on" THEN toS \o <<x>> ELSE toS
    BY <1>1, <1>4, SaidOne DEF Say
  <1> PICK c : c = toS \o <<x>>
    OBVIOUS
  <1>6. c \in Seq(ToServer) /\ Range(c) = Range(toS) \cup {x}
    BY ONLY <1>2, <1>4, c = toS \o <<x>>, AddedOne
  <1>7. toS' = toS \/ toS' = c
    BY <1>5
  <1>8. ASSUME NEW y \in Range(toS')
        PROVE  y \in Range(toS) \/ (y.t = "answer" /\ y.w = d.w)
    <2>1. CASE toS' = toS
      BY <1>8, <2>1
    <2>2. CASE toS' = c
      <3>1. y \in Range(toS) \/ y = x
        BY <1>6, <1>8, <2>2
      <3> QED
        BY <1>4, <3>1
    <2> QED
      BY <1>7, <2>1, <2>2
  <1>9. TypeOK'
    BY <1>1, <1>2, <1>6, <1>7 DEF TypeOK, n
  <1> QED
    BY <1>1, <1>5, <1>8, <1>9

LEMMA ClientAsksFx ==
    ASSUME TypeOK, NEW q \in Asks, ClientAsks(q)
    PROVE  /\ TypeOK' /\ cst = "on" /\ has /\ ask[q] = "none"
           /\ ask'[q] = "pending" /\ \A x \in Asks : x # q => ask'[x] = ask[x]
           /\ \E m \in ToServer :
                 m.t = "ask" /\ m.q = q /\ toS' = IF up /\ cst = "on" THEN toS \o <<m>> ELSE toS
           /\ SGrows({"ask"})
           /\ UNCHANGED <<srv, runs, busy, cl, up, toC, cst, has, crun, doing, withdrawn, answered, ghosts>>
           /\ UNCHANGED <<stopped, aim, told, heardTo, resumedTo, resumedBy, load>>
  <1> PICK m : m = [t |-> "ask", q |-> q]
    OBVIOUS
  <1>1. /\ cst = "on" /\ has /\ ask[q] = "none" /\ ask' = [ask EXCEPT ![q] = "pending"] /\ Say(<<m>>)
        /\ UNCHANGED <<srv, runs, busy, cl, up, toC, cst, has, crun, doing, withdrawn, answered, ghosts>>
        /\ UNCHANGED <<stopped, aim, told, heardTo, resumedTo, resumedBy, load>>
    BY DEF ClientAsks, ghosts
  <1>2. ask \in [Asks -> {"none", "pending", "answered", "cancelled"}] /\ toS \in Seq(ToServer)
    BY DEF TypeOK
  <1>3. /\ ask' \in [Asks -> {"none", "pending", "answered", "cancelled"}]
        /\ ask'[q] = "pending" /\ \A x \in Asks : x # q => ask'[x] = ask[x]
    BY <1>1, <1>2
  <1>4. m \in ToServer /\ m.t = "ask" /\ m.q = q
    BY AskSaid
  <1>5. SGrows({"ask"}) /\ toS' = IF up /\ cst = "on" THEN toS \o <<m>> ELSE toS
    BY <1>1, <1>4, SaidOne DEF Say
  <1>6. toS' \in Seq(ToServer)
    BY <1>2, <1>5, SGrowsFacts
  <1>7. TypeOK'
    BY <1>1, <1>3, <1>6 DEF TypeOK, n
  <1> QED
    BY <1>1, <1>3, <1>4, <1>5, <1>7

LEMMA WithdrawsFx ==
    ASSUME TypeOK, NEW q \in Asks, Withdraws(q)
    PROVE  /\ TypeOK' /\ ask[q] = "pending" /\ withdrawn' = withdrawn \cup {q}
           /\ \A x \in Asks : ask'[x] = IF x = q /\ cst # "on" THEN "cancelled" ELSE ask[x]
           /\ SGrows({"cancel"})
           /\ \A x \in Range(toS') : x \in Range(toS) \/ (x.t = "cancel" /\ x.q = q)
           /\ UNCHANGED <<srv, runs, busy, cl, up, toC, cst, has, crun, doing, answered, ghosts>>
           /\ UNCHANGED <<stopped, aim, told, heardTo, resumedTo, resumedBy, load>>
  <1> PICK m : m = [t |-> "cancel", q |-> q]
    OBVIOUS
  <1>1. /\ ask[q] = "pending" /\ withdrawn' = withdrawn \cup {q}
        /\ ask' = (IF cst = "on" THEN ask ELSE [ask EXCEPT ![q] = "cancelled"]) /\ Say(<<m>>)
        /\ UNCHANGED <<srv, runs, busy, cl, up, toC, cst, has, crun, doing, answered, ghosts>>
        /\ UNCHANGED <<stopped, aim, told, heardTo, resumedTo, resumedBy, load>>
    BY DEF Withdraws, ghosts
  <1>2. /\ ask \in [Asks -> {"none", "pending", "answered", "cancelled"}] /\ toS \in Seq(ToServer)
        /\ withdrawn \subseteq Asks
    BY DEF TypeOK
  <1>3. /\ ask' \in [Asks -> {"none", "pending", "answered", "cancelled"}]
        /\ \A x \in Asks : ask'[x] = IF x = q /\ cst # "on" THEN "cancelled" ELSE ask[x]
    BY <1>1, <1>2
  <1>4. m \in ToServer /\ m.t = "cancel" /\ m.q = q
    BY AskSaid
  <1>5. SGrows({"cancel"}) /\ toS' = IF up /\ cst = "on" THEN toS \o <<m>> ELSE toS
    BY <1>1, <1>4, SaidOne DEF Say
  <1> PICK c : c = toS \o <<m>>
    OBVIOUS
  <1>6. c \in Seq(ToServer) /\ Range(c) = Range(toS) \cup {m}
    BY ONLY <1>2, <1>4, c = toS \o <<m>>, AddedOne
  <1>7. toS' = toS \/ toS' = c
    BY <1>5
  <1>8. ASSUME NEW y \in Range(toS')
        PROVE  y \in Range(toS) \/ (y.t = "cancel" /\ y.q = q)
    <2>1. CASE toS' = toS
      BY <1>8, <2>1
    <2>2. CASE toS' = c
      <3>1. y \in Range(toS) \/ y = m
        BY <1>6, <1>8, <2>2
      <3> QED
        BY <1>4, <3>1
    <2> QED
      BY <1>7, <2>1, <2>2
  <1>9. withdrawn' \subseteq Asks /\ toS' \in Seq(ToServer)
    BY <1>1, <1>2, <1>6, <1>7
  <1>10. TypeOK'
    BY <1>1, <1>3, <1>9 DEF TypeOK, n
  <1> QED
    BY <1>1, <1>3, <1>5, <1>8, <1>10

LEMMA RunEndsFx ==
    ASSUME TypeOK, NEW r \in Runs, RunEnds(r)
    PROVE  /\ TypeOK' /\ Reports
           /\ \A x \in Runs : crun'[x] = "ended" <=> (x = r \/ crun[x] = "ended")
           /\ UNCHANGED <<srv, runs, busy, cl, up, toC, cst, has, doing, ask, withdrawn, answered, ghosts>>
           /\ UNCHANGED <<stopped, aim, told, heardTo, resumedTo, resumedBy, load>>
  <1> PICK c : c = [crun EXCEPT ![r] = "ended"]
    OBVIOUS
  <1>1. /\ crun' = c /\ Say(Report(crun'))
        /\ UNCHANGED <<srv, runs, busy, cl, up, toC, cst, has, doing, ask, withdrawn, answered, ghosts>>
        /\ UNCHANGED <<stopped, aim, told, heardTo, resumedTo, resumedBy, load>>
    BY DEF RunEnds, ghosts
  <1>2. crun \in RunStates
    BY DEF TypeOK
  <1>3. c \in RunStates /\ \A x \in Runs : c[x] = "ended" <=> (x = r \/ crun[x] = "ended")
    BY <1>2 DEF RunStates
  <1>4. Say(Report(c))
    BY <1>1
  <1>5. Reports /\ toS' \in Seq(ToServer)
    BY <1>1, <1>3, <1>4, ReportSaid
  <1>6. TypeOK'
    BY <1>1, <1>3, <1>5 DEF TypeOK, n
  <1> QED
    BY <1>1, <1>3, <1>5, <1>6

LEMMA BreakFx ==
    ASSUME TypeOK, Break
    PROVE  /\ TypeOK' /\ up /\ up' = FALSE /\ toC' = <<>> /\ toS' = <<>> /\ cst \in {"on", "resuming"}
           /\ UNCHANGED <<srv, runs, busy, cl, client, answered, ghosts>>
           /\ UNCHANGED <<cst, has, crun, doing, ask, withdrawn>>
           /\ UNCHANGED <<stopped, aim, told, heardTo, resumedTo, resumedBy, load>>
  <1>1. /\ up /\ up' = FALSE /\ toC' = <<>> /\ toS' = <<>> /\ cst \in {"on", "resuming"}
        /\ UNCHANGED <<srv, runs, busy, cl, client, answered, ghosts>>
        /\ UNCHANGED <<cst, has, crun, doing, ask, withdrawn>>
        /\ UNCHANGED <<stopped, aim, told, heardTo, resumedTo, resumedBy, load>>
    BY DEF Break, client, ghosts
  <1>2. toC' \in Seq(ToClient) /\ toS' \in Seq(ToServer) /\ up' \in BOOLEAN
    BY <1>1, EmptyLine
  <1>3. TypeOK'
    BY <1>1, <1>2 DEF TypeOK, n
  <1> QED
    BY <1>1, <1>3

LEMMA ClientNoticesFx ==
    ASSUME TypeOK, ClientNotices
    PROVE  /\ TypeOK' /\ ~up /\ cst' = "off" /\ doing' = {}
           /\ \A q \in Asks : ask'[q] = IF ask[q] = "pending" /\ q \in withdrawn THEN "cancelled" ELSE ask[q]
           /\ UNCHANGED <<srv, runs, busy, net, has, crun, withdrawn, answered, ghosts>>
           /\ UNCHANGED <<cl, up, toC, toS, stopped, aim, told, heardTo, resumedTo, resumedBy, load>>
  <1>1. /\ ~up /\ cst' = "off" /\ doing' = {}
        /\ ask' = [q \in Asks |-> IF ask[q] = "pending" /\ q \in withdrawn THEN "cancelled" ELSE ask[q]]
        /\ UNCHANGED <<srv, runs, busy, net, has, crun, withdrawn, answered, ghosts>>
        /\ UNCHANGED <<cl, up, toC, toS, stopped, aim, told, heardTo, resumedTo, resumedBy, load>>
    BY DEF ClientNotices, net, ghosts
  <1>2. ask' \in [Asks -> {"none", "pending", "answered", "cancelled"}]
    BY <1>1 DEF TypeOK
  <1>3. TypeOK'
    BY <1>1, <1>2 DEF TypeOK, n
  <1> QED
    BY <1>1, <1>3

LEMMA ReconnectFx ==
    ASSUME TypeOK, Reconnect
    PROVE  /\ TypeOK' /\ cst = "off" /\ cst' = "resuming" /\ cl' = cl + 1 /\ up' = TRUE /\ toC' = <<>>
           /\ \E m \in ToServer :
                 /\ m.t = "resume" /\ m.has = has /\ toS' = <<m>>
                 /\ \A q \in Asks : q \in m.named <=> has /\ ask[q] = "pending"
           /\ UNCHANGED <<srv, runs, busy, has, crun, doing, ask, withdrawn, answered, ghosts>>
           /\ UNCHANGED <<stopped, aim, told, heardTo, resumedTo, resumedBy, load>>
  <1> PICK qs : qs = {q \in Asks : has /\ ask[q] = "pending"}
    OBVIOUS
  <1> PICK m : m = [t |-> "resume", has |-> has, named |-> qs]
    OBVIOUS
  <1>1. /\ cst = "off" /\ cl < load.links /\ cst' = "resuming" /\ cl' = cl + 1 /\ up' = TRUE /\ toC' = <<>>
        /\ toS' = <<m>>
        /\ UNCHANGED <<srv, runs, busy, has, crun, doing, ask, withdrawn, answered, ghosts>>
        /\ UNCHANGED <<stopped, aim, told, heardTo, resumedTo, resumedBy, load>>
    BY DEF Reconnect, ghosts
  <1>2. has \in BOOLEAN /\ cl \in Nat /\ cl # 0 /\ load.links \in Nat
    BY Counted DEF TypeOK
  <1>3. m \in ToServer /\ m.t = "resume" /\ m.has = has /\ m.named = qs
    BY <1>2, ResumeSaid
  <1>4. toC' \in Seq(ToClient) /\ toS' \in Seq(ToServer) /\ cl' \in 1 .. load'.links
    BY <1>1, <1>2, <1>3
  <1>5. TypeOK'
    BY <1>1, <1>4 DEF TypeOK, n
  <1>6. \A q \in Asks : q \in m.named <=> has /\ ask[q] = "pending"
    BY <1>3
  <1> QED
    BY <1>1, <1>3, <1>5, <1>6

LEMMA TurnEndsFx ==
    ASSUME TypeOK, TurnEnds
    PROVE  /\ TypeOK' /\ UNCHANGED <<srv, runs, net, client, answered, ghosts>>
           /\ UNCHANGED <<cl, up, toC, toS, cst, has, crun, doing, ask, withdrawn>>
           /\ UNCHANGED <<stopped, aim, told, heardTo, resumedTo, resumedBy, load>>
  <1>1. /\ busy' = FALSE /\ UNCHANGED <<srv, runs, net, client, answered, ghosts>>
        /\ UNCHANGED <<cl, up, toC, toS, cst, has, crun, doing, ask, withdrawn>>
        /\ UNCHANGED <<stopped, aim, told, heardTo, resumedTo, resumedBy, load>>
    BY DEF TurnEnds, net, client, ghosts
  <1>2. TypeOK'
    BY <1>1 DEF TypeOK, n
  <1> QED
    BY <1>1, <1>2

-----------------------------------------------------------------------------
(* LineInv.                                                                *)

\* What is sent on a link once it is under way.
NewsC == {"control", "result", "destroy", "refused"}
NewsS == {"answer", "ask", "cancel", "ack", "runs"}

\* The parts of LineInv.
LEMMA LineFactsOf ==
    ASSUME TypeOK, LineInv
    PROVE  /\ ~up => toC = <<>> /\ toS = <<>>
           /\ cst = "off" => ~up
           /\ srv.home <= cl
           /\ cst = "on" => srv.home = cl
           /\ \A i \in 1 .. Len(toC) : toC[i].t = "resumed" =>
                 i = 1 /\ cst = "resuming" /\ srv.home = cl /\ toS = <<>>
           /\ \A m \in Range(toC) : m.t = "resumed" =>
                 m = toC[1] /\ cst = "resuming" /\ srv.home = cl /\ toS = <<>>
           /\ \A m \in Range(toS) : m.t = "resume" =>
                 /\ Len(toS) = 1 /\ toC = <<>> /\ srv.home # cl /\ cst = "resuming"
                 /\ m.has = has /\ \A q \in Asks : has /\ ask[q] = "pending" => q \in m.named
           /\ up /\ srv.home = cl /\ srv.link # "attached" =>
                 srv.link = "closed" /\ (cst = "gone" \/ OnWay(toC, "refused") # {})
  <1>1. toC \in Seq(ToClient)
    BY DEF TypeOK
  <1>2. DOMAIN toC = 1 .. Len(toC) /\ \A m \in Range(toC) : \E i \in 1 .. Len(toC) : toC[i] = m
    BY <1>1, LineFacts
  <1>3. \A i \in 1 .. Len(toC) : toC[i].t = "resumed" =>
           i = 1 /\ cst = "resuming" /\ srv.home = cl /\ toS = <<>>
    BY <1>2 DEF LineInv
  <1>4. \A m \in Range(toC) : m.t = "resumed" =>
           m = toC[1] /\ cst = "resuming" /\ srv.home = cl /\ toS = <<>>
    BY <1>2, <1>3
  <1>5. \A m \in Range(toS) : m.t = "resume" =>
           /\ Len(toS) = 1 /\ toC = <<>> /\ srv.home # cl /\ cst = "resuming"
           /\ m.has = has /\ \A q \in Asks : has /\ ask[q] = "pending" => q \in m.named
    BY DEF LineInv, OnWay
  <1> QED
    BY <1>3, <1>4, <1>5 DEF LineInv

\* The same of the state after a step.
LEMMA LineInvBy ==
    ASSUME TypeOK',
           ~up' => toC' = <<>> /\ toS' = <<>>,
           cst' = "off" => ~up',
           srv'.home <= cl',
           cst' = "on" => srv'.home = cl',
           \A i \in 1 .. Len(toC') : toC'[i].t = "resumed" =>
              i = 1 /\ cst' = "resuming" /\ srv'.home = cl' /\ toS' = <<>>,
           \A m \in Range(toS') : m.t = "resume" =>
              /\ Len(toS') = 1 /\ toC' = <<>> /\ srv'.home # cl' /\ cst' = "resuming"
              /\ m.has = has' /\ \A q \in Asks : has' /\ ask'[q] = "pending" => q \in m.named,
           up' /\ srv'.home = cl' /\ srv'.link # "attached" =>
              srv'.link = "closed" /\ (cst' = "gone" \/ OnWay(toC', "refused") # {})
    PROVE  LineInv'
  <1>1. DOMAIN toC' = 1 .. Len(toC')
    BY LineFacts DEF TypeOK
  <1>2. \A m \in OnWay(toS', "resume") : m \in Range(toS') /\ m.t = "resume"
    BY DEF OnWay
  <1> QED
    BY <1>1, <1>2 DEF LineInv

\* What most steps do to the lines.
LineStep ==
    /\ UNCHANGED <<cl, up, cst>> /\ srv'.home = srv.home /\ CGrows(NewsC)
    /\ SHears(NewsS) \/ SGrows(NewsS)

LEMMA LineFrame ==
    ASSUME TypeOK, LineInv, TypeOK', LineStep, has' = has,
           cst # "on" => \A q \in Asks : ask'[q] = "pending" => ask[q] = "pending",
           up /\ srv.home = cl /\ srv'.link # "attached" =>
              srv'.link = "closed" /\ (cst = "gone" \/ OnWay(toC', "refused") # {})
    PROVE  LineInv'
  <1>0. toC \in Seq(ToClient) /\ toS \in Seq(ToServer)
    BY DEF TypeOK
  <1>1. /\ ~up => toC = <<>> /\ toS = <<>>
        /\ cst = "off" => ~up
        /\ srv.home <= cl
        /\ cst = "on" => srv.home = cl
        /\ \A i \in 1 .. Len(toC) : toC[i].t = "resumed" =>
              i = 1 /\ cst = "resuming" /\ srv.home = cl /\ toS = <<>>
        /\ \A m \in Range(toS) : m.t = "resume" =>
              /\ Len(toS) = 1 /\ toC = <<>> /\ srv.home # cl /\ cst = "resuming"
              /\ m.has = has /\ \A q \in Asks : has /\ ask[q] = "pending" => q \in m.named
    BY LineFactsOf
  <1>2. /\ \A i \in 1 .. Len(toC) : toC'[i] = toC[i]
        /\ \A i \in 1 .. Len(toC') : i > Len(toC) => toC'[i].t \in NewsC
        /\ Len(toC) \in Nat
    BY <1>0, CGrowsFacts, LineFacts DEF LineStep
  <1>3. ~up => toC' = <<>>
    BY <1>1 DEF LineStep, CGrows
  <1>4. ~up => toS' = <<>>
    BY <1>1 DEF LineStep, SHears, SGrows
  <1>5. ASSUME NEW i \in 1 .. Len(toC'), toC'[i].t = "resumed"
        PROVE  i = 1 /\ cst = "resuming" /\ srv.home = cl /\ toS' = <<>>
    <2>1. i \in 1 .. Len(toC) /\ toC[i].t = "resumed"
      <3>1. "resumed" \notin NewsC
        BY DEF NewsC
      <3> QED
        BY <1>2, <1>5, <3>1
    <2>2. i = 1 /\ cst = "resuming" /\ srv.home = cl /\ toS = <<>>
      BY <1>1, <2>1
    <2>3. toS' = <<>>
      BY <2>2 DEF LineStep, SHears, SGrows
    <2> QED
      BY <2>2, <2>3
  <1>6. ASSUME NEW m \in Range(toS'), m.t = "resume"
        PROVE  /\ Len(toS') = 1 /\ toC' = <<>> /\ srv.home # cl /\ cst = "resuming"
               /\ m.has = has /\ \A q \in Asks : has /\ ask'[q] = "pending" => q \in m.named
    <2>0. "resume" \notin NewsS
      BY DEF NewsS
    <2>1. m \in Range(toS)
      <3>1. CASE SHears(NewsS)
        BY <1>0, <1>6, <3>1, SHearsFacts
      <3>2. CASE SGrows(NewsS)
        BY <1>0, <1>6, <2>0, <3>2, SGrowsFacts
      <3> QED
        BY <3>1, <3>2 DEF LineStep
    <2>2. /\ Len(toS) = 1 /\ toC = <<>> /\ srv.home # cl /\ cst = "resuming"
          /\ m.has = has /\ \A q \in Asks : has /\ ask[q] = "pending" => q \in m.named
      BY <1>1, <1>6, <2>1
    <2>3. toC' = <<>>
      BY <2>2 DEF LineStep, CGrows
    <2>4. toS' = toS
      <3>1. CASE SHears(NewsS)
        <4>1. Len(toS') = 0 /\ toS' \in Seq(ToServer)
          BY <1>0, <2>2, <3>1, SHearsFacts
        <4>2. toS' = <<>>
          BY <4>1
        <4> QED
          BY <1>6, <4>2, EmptyLine
      <3>2. CASE SGrows(NewsS)
        BY <2>2, <3>2 DEF SGrows
      <3> QED
        BY <3>1, <3>2 DEF LineStep
    <2> QED
      BY <2>2, <2>3, <2>4
  <1>7. UNCHANGED <<cl, up, cst, has>> /\ srv'.home = srv.home
    BY DEF LineStep
  <1> QED
    BY <1>1, <1>3, <1>4, <1>5, <1>6, <1>7, LineInvBy

\* The message of a link that is just up: what the lines look like before and after.
LEMMA ResumeHeard ==
    ASSUME TypeOK, LineInv, toS # <<>>, NEW m, m = Head(toS), m.t = "resume", toS' = Tail(toS)
    PROVE  /\ m \in ToServer /\ m \in Range(toS)
           /\ toC = <<>> /\ toS' = <<>> /\ srv.home # cl /\ cst = "resuming" /\ up
           /\ m.has = has /\ \A q \in Asks : has /\ ask[q] = "pending" => q \in m.named
           /\ Range(toC) = {} /\ \A x \in Range(toS) : x = m
  <1>1. toS \in Seq(ToServer)
    BY DEF TypeOK
  <1>2. /\ m \in ToServer /\ m \in Range(toS) /\ toS' \in Seq(ToServer) /\ Len(toS') = Len(toS) - 1
        /\ Range(toS) = Range(Tail(toS)) \cup {m}
    BY <1>1, HeardOne
  <1>3. /\ Len(toS) = 1 /\ toC = <<>> /\ srv.home # cl /\ cst = "resuming"
        /\ m.has = has /\ \A q \in Asks : has /\ ask[q] = "pending" => q \in m.named
        /\ ~up => toS = <<>>
    BY <1>2, LineFactsOf
  <1>4. toS' = <<>>
    BY <1>2, <1>3
  <1>5. Range(Tail(toS)) = {}
    BY <1>4, EmptyLine
  <1> QED
    BY <1>2, <1>3, <1>4, <1>5, EmptyLine

\* The client is sent the result of a question.
Replied(q) == \E x \in Range(toC') : x.t = "result" /\ x.q = q

\* What the client hears of a session that is handed over.
LEMMA HandedLine ==
    ASSUME TypeOK, NEW m \in ToServer, m.t = "resume", NEW s \in Sessions, HandsOver(m, s)
    PROVE  /\ \A i \in 1 .. Len(toC') : toC'[i].t = "resumed" => i = 1
           /\ \A i \in 1 .. Len(toC') : toC'[i].t # "resumed" =>
                 \/ /\ toC'[i].t = "control" /\ toC'[i].w \in Requests
                    /\ toC'[i].w.act = "stop" /\ toC'[i].w.at = n
                 \/ /\ toC'[i].t = "result" /\ toC'[i].q \in m.named /\ s.input[toC'[i].q] = "outbox"
                    /\ toC'[i].st = IF toC'[i].q \in answered THEN "answered" ELSE "cancelled"
           /\ \A x \in Range(toC') : x.t = "resumed" =>
                 x.has = TRUE /\ x.asks = m.named \cap (InInputs(s) \cup Again(s, m.named))
           /\ \A q \in m.named : s.input[q] = "outbox" => Replied(q)
           /\ toC' \in Seq(ToClient)
  <1>0. n \in Nat /\ m.named \in SUBSET Asks
    BY Counted, ToServerKinds
  <1> PICK x \in ToClient, c \in Seq(ToClient) :
          /\ x.t = "resumed" /\ x.has = TRUE /\ x.asks = m.named \cap (InInputs(s) \cup Again(s, m.named))
          /\ c = SentAgain(s, m.named) /\ toC' = <<x>> \o c
    BY DEF HandsOver
  <1>1. /\ \A y \in Range(c) :
              \/ /\ y.t = "control" /\ y.w \in Requests /\ y.w.act = "stop" /\ y.w.at = n
              \/ /\ y.t = "result" /\ y.q \in m.named /\ s.input[y.q] = "outbox"
                 /\ y.st = IF y.q \in answered THEN "answered" ELSE "cancelled"
        /\ \A q \in m.named : s.input[q] = "outbox" => \E y \in Range(c) : y.t = "result" /\ y.q = q
    BY <1>0, SentAgainFacts
  <1> PICK z : z = <<x>>
    OBVIOUS
  <1> PICK e : e = z \o c
    OBVIOUS
  <1>2. z \in Seq(ToClient) /\ Len(z) = 1 /\ z[1] = x
    OBVIOUS
  <1>3. Range(z) = {x}
    BY <1>2, LineFacts DEF Range
  <1>4. /\ e \in Seq(ToClient) /\ Len(e) = 1 + Len(c) /\ e[1] = x /\ Len(c) \in Nat
        /\ \A i \in 1 .. Len(c) : e[1 + i] = c[i]
        /\ Range(e) = {x} \cup Range(c)
    <2>0. e = z \o c /\ z \in Seq(ToClient) /\ c \in Seq(ToClient)
      BY <1>2
    <2>1. /\ z \o c \in Seq(ToClient) /\ Len(z \o c) = Len(z) + Len(c)
          /\ \A i \in 1 .. Len(z) : (z \o c)[i] = z[i]
          /\ \A i \in 1 .. Len(c) : (z \o c)[Len(z) + i] = c[i]
          /\ Range(z \o c) = Range(z) \cup Range(c)
      BY ONLY <2>0, Joined
    <2>2. Len(c) \in Nat
      BY LineFacts
    <2> QED
      BY <1>2, <1>3, <2>0, <2>1, <2>2
  <1>5. ASSUME NEW i \in 1 .. Len(e), i # 1
        PROVE  e[i] \in Range(c)
    <2> PICK j : j = i - 1
      OBVIOUS
    <2>1. j \in 1 .. Len(c) /\ e[i] = c[j]
      BY <1>4, <1>5
    <2> QED
      BY <2>1, LineFacts
  <1>6. toC' = e
    OBVIOUS
  <1>7. \A i \in 1 .. Len(e) : e[i].t = "resumed" => i = 1
    BY <1>1, <1>5
  <1>10. \A q \in m.named : s.input[q] = "outbox" => Replied(q)
    BY <1>1, <1>4, <1>6 DEF Replied
  <1>8. \A i \in 1 .. Len(e) : e[i].t # "resumed" => e[i] \in Range(c)
    BY <1>4, <1>5
  <1>9. \A y \in Range(e) : y.t = "resumed" => y = x
    BY <1>1, <1>4
  <1> QED
    BY <1>1, <1>4, <1>6, <1>7, <1>8, <1>9, <1>10

LEMMA LineResume ==
    ASSUME TypeOK, LineInv, TypeOK', toS # <<>>, NEW m, m = Head(toS), m.t = "resume", toS' = Tail(toS),
           NEW s \in Sessions, Refuses(m) \/ HandsOver(m, s) \/ Starts(m, s),
           UNCHANGED <<cl, up, cst, has, ask>>
    PROVE  LineInv'
  <1>1. /\ m \in ToServer /\ toC = <<>> /\ toS' = <<>> /\ srv.home # cl /\ cst = "resuming" /\ up
    BY ResumeHeard
  <1>2. srv.home <= cl /\ srv.home \in Nat /\ cl \in Nat
    BY LineFactsOf, Counted
  <1>3. Range(toS') = {}
    BY <1>1, EmptyLine
  <1>4. CASE Refuses(m)
    <2> PICK x \in ToClient : x.t = "refused" /\ toC' = <<x>>
      BY <1>4 DEF Refuses
    <2>1. \A i \in 1 .. Len(toC') : toC'[i].t # "resumed"
      OBVIOUS
    <2>2. srv' = srv
      BY <1>4 DEF Refuses
    <2> QED
      BY <1>1, <1>2, <1>3, <2>1, <2>2, LineInvBy
  <1>5. CASE HandsOver(m, s)
    <2>1. \A i \in 1 .. Len(toC') : toC'[i].t = "resumed" => i = 1
      BY <1>1, <1>5, HandedLine
    <2>2. srv'.home = cl /\ srv'.link = "attached"
      <3>1. cl \in Nat \ {0} /\ n \in Nat /\ m.named \in SUBSET Asks /\ srv' = Handed(s, m.named)
        BY <1>1, <1>5, Counted, ToServerKinds DEF HandsOver
      <3> QED
        BY <3>1, HandedFacts
    <2> QED
      BY <1>1, <1>2, <1>3, <2>1, <2>2, LineInvBy
  <1>6. CASE Starts(m, s)
    <2> PICK x \in ToClient : x.t = "resumed" /\ toC' = <<x>>
      BY <1>6 DEF Starts
    <2>1. \A i \in 1 .. Len(toC') : i = 1
      OBVIOUS
    <2>2. srv'.home = cl /\ srv'.link = "attached"
      BY <1>6 DEF Starts
    <2> QED
      BY <1>1, <1>2, <1>3, <2>1, <2>2, LineInvBy
  <1> QED
    BY <1>4, <1>5, <1>6

\* What the client has just heard: a resumed, or news of a link under way.
LEMMA ClientHeard ==
    ASSUME TypeOK, LineInv, toC # <<>>, NEW m, m = Head(toC), toC' = Tail(toC)
    PROVE  /\ m \in ToClient /\ m \in Range(toC) /\ m = toC[1] /\ up
           /\ \A x \in Range(toC') : x \in Range(toC) /\ x.t # "resumed"
           /\ \A x \in Range(toC) : x = m \/ x \in Range(toC')
           /\ \A x \in Range(toS) : x.t # "resume"
           /\ m.t = "resumed" => cst = "resuming" /\ srv.home = cl /\ toS = <<>>
           /\ toC' \in Seq(ToClient) /\ Len(toC') = Len(toC) - 1
           /\ \A i \in 1 .. Len(toC) - 1 : toC'[i] = toC[i + 1] /\ toC'[i].t # "resumed"
  <1>1. toC \in Seq(ToClient)
    BY DEF TypeOK
  <1>2. /\ toC' \in Seq(ToClient) /\ Len(toC') = Len(toC) - 1 /\ Len(toC) > 0 /\ Len(toC) \in Nat
        /\ \A i \in 1 .. Len(toC) - 1 : toC'[i] = toC[i + 1]
        /\ m = toC[1] /\ m \in ToClient /\ m \in Range(toC)
        /\ Range(toC) = Range(toC') \cup {m}
    BY <1>1, HeardOne, LineFacts
  <1>3. /\ ~up => toC = <<>>
        /\ \A i \in 1 .. Len(toC) : toC[i].t = "resumed" =>
              i = 1 /\ cst = "resuming" /\ srv.home = cl /\ toS = <<>>
        /\ \A x \in Range(toS) : x.t = "resume" => toC = <<>>
    BY LineFactsOf
  <1>4. \A i \in 1 .. Len(toC) - 1 : toC'[i].t # "resumed"
    <2> SUFFICES ASSUME NEW i \in 1 .. Len(toC) - 1, toC'[i].t = "resumed"
                 PROVE  FALSE
      OBVIOUS
    <2>1. i + 1 \in 1 .. Len(toC) /\ toC[i + 1].t = "resumed"
      BY <1>2
    <2> QED
      BY <1>2, <1>3, <2>1
  <1>5. ASSUME NEW x \in Range(toC')
        PROVE  x.t # "resumed"
    <2> PICK c : c = toC'
      OBVIOUS
    <2>0. c \in Seq(ToClient) /\ x \in Range(c)
      BY <1>2
    <2>1. PICK i \in 1 .. Len(c) : c[i] = x
      BY ONLY <2>0, LineFacts
    <2> QED
      BY <1>2, <1>4, <2>1
  <1>6. m.t = "resumed" => cst = "resuming" /\ srv.home = cl /\ toS = <<>>
    BY <1>2, <1>3
  <1> QED
    BY <1>2, <1>3, <1>4, <1>5, <1>6

LEMMA LineClientHears ==
    ASSUME TypeOK, LineInv, TypeOK', toC # <<>>, toC' = Tail(toC), UNCHANGED <<srv, cl, up>>,
           cst \in {"on", "resuming"}, NEW m, m = Head(toC),
           cst' = cst \/ (cst' = "on" /\ m.t = "resumed") \/ cst' = "gone",
           m.t = "refused" => cst' = "gone",
           \A x \in Range(toS') : x \in Range(toS) \/ x.t \in NewsS
    PROVE  LineInv'
  <1>1. /\ up
        /\ \A x \in Range(toC) : x = m \/ x \in Range(toC')
        /\ \A x \in Range(toS) : x.t # "resume"
        /\ m.t = "resumed" => cst = "resuming" /\ srv.home = cl /\ toS = <<>>
        /\ toC' \in Seq(ToClient) /\ Len(toC') = Len(toC) - 1
        /\ \A i \in 1 .. Len(toC) - 1 : toC'[i].t # "resumed"
    BY ClientHeard
  <1>2. /\ srv.home <= cl
        /\ cst = "on" => srv.home = cl
        /\ up /\ srv.home = cl /\ srv.link # "attached" =>
              srv.link = "closed" /\ (cst = "gone" \/ OnWay(toC, "refused") # {})
    BY LineFactsOf
  <1>3. \A x \in Range(toS') : x.t # "resume"
    BY <1>1 DEF NewsS
  <1>4. up' /\ srv'.home = cl' /\ srv'.link # "attached" =>
           srv'.link = "closed" /\ (cst' = "gone" \/ OnWay(toC', "refused") # {})
    <2> SUFFICES ASSUME up', srv'.home = cl', srv'.link # "attached"
                 PROVE  srv'.link = "closed" /\ (cst' = "gone" \/ OnWay(toC', "refused") # {})
      OBVIOUS
    <2>0. srv' = srv /\ cl' = cl
      OBVIOUS
    <2>1. srv.link = "closed" /\ OnWay(toC, "refused") # {}
      BY <1>1, <1>2, <2>0
    <2>2. PICK x \in Range(toC) : x.t = "refused"
      BY <2>1 DEF OnWay
    <2>3. ASSUME cst' # "gone"
          PROVE  OnWay(toC', "refused") # {}
      <3>1. x \in Range(toC')
        BY <1>1, <2>2, <2>3
      <3> QED
        BY <2>2, <3>1 DEF OnWay
    <2> QED
      BY <2>0, <2>1, <2>3
  <1>5. \A i \in 1 .. Len(toC') : toC'[i].t # "resumed"
    BY <1>1
  <1>6. cst' = "on" => srv.home = cl
    BY <1>1, <1>2
  <1> QED
    BY <1>1, <1>2, <1>3, <1>4, <1>5, <1>6, LineInvBy

LEMMA LineBreak ==
    ASSUME TypeOK, LineInv, TypeOK', up' = FALSE, toC' = <<>>, toS' = <<>>, UNCHANGED <<srv, cl, cst>>
    PROVE  LineInv'
  <1>1. srv.home <= cl /\ (cst = "on" => srv.home = cl)
    BY LineFactsOf
  <1>2. Range(toS') = {} /\ \A i \in 1 .. Len(toC') : FALSE
    BY EmptyLine
  <1> QED
    BY <1>1, <1>2, LineInvBy

LEMMA LineNotices ==
    ASSUME TypeOK, LineInv, TypeOK', ~up, cst' = "off", UNCHANGED <<srv, cl, up, toC, toS>>
    PROVE  LineInv'
  <1>1. srv.home <= cl /\ toC = <<>> /\ toS = <<>>
    BY LineFactsOf
  <1>2. Range(toS') = {} /\ \A i \in 1 .. Len(toC') : FALSE
    BY <1>1, EmptyLine
  <1> QED
    BY <1>1, <1>2, LineInvBy

LEMMA LineReconnect ==
    ASSUME TypeOK, LineInv, TypeOK', cst = "off", cst' = "resuming", cl' = cl + 1, up' = TRUE, toC' = <<>>,
           NEW m \in ToServer, m.t = "resume", m.has = has, toS' = <<m>>,
           \A q \in Asks : q \in m.named <=> has /\ ask[q] = "pending",
           UNCHANGED <<srv, has, ask>>
    PROVE  LineInv'
  <1>1. srv.home <= cl /\ srv.home \in Nat /\ cl \in Nat
    BY LineFactsOf, Counted
  <1>2. Len(toS') = 1 /\ \A x \in Range(toS') : x = m
    BY DEF Range
  <1>3. \A i \in 1 .. Len(toC') : FALSE
    BY EmptyLine
  <1> QED
    BY <1>1, <1>2, <1>3, LineInvBy

-----------------------------------------------------------------------------
(* OpenInv.                                                                *)

\* The parts of OpenInv.
LEMMA OpenFacts ==
    ASSUME OpenInv
    PROVE  /\ srv.open => srv.link # "closed" /\ has
           /\ srv.link = "suspended" => srv.open
           /\ srv.link # "attached" => srv.owed = {}
           /\ srv.open => \A x \in Range(toC) : /\ x.t \notin {"destroy", "refused"}
                                                /\ x.t = "resumed" => x.has
           /\ ~srv.open => \A q \in Asks : srv.input[q] \notin {"open", "answered"}
  BY DEF OpenInv, OnWay

LEMMA OpenStep ==
    ASSUME OpenInv,
           srv'.open => srv.open /\ srv'.link # "closed" /\ has',
           srv'.link = "suspended" => srv'.open,
           srv'.link # "attached" => srv'.owed = {},
           \A x \in Range(toC') : \/ x \in Range(toC) \/ x.t \in {"control", "result"}
                                  \/ (x.t = "resumed" /\ x.has) \/ ~srv'.open,
           ~srv'.open => \A q \in Asks : srv'.input[q] \notin {"open", "answered"}
    PROVE  OpenInv'
  <1>1. srv.open => \A x \in Range(toC) : /\ x.t \notin {"destroy", "refused"}
                                          /\ x.t = "resumed" => x.has
    BY OpenFacts
  <1>2. srv'.open => \A x \in Range(toC') : /\ x.t \notin {"destroy", "refused"}
                                            /\ x.t = "resumed" => x.has
    BY <1>1
  <1>3. srv'.open => /\ OnWay(toC', "destroy") = {} /\ OnWay(toC', "refused") = {}
                     /\ \A x \in OnWay(toC', "resumed") : x.has
    BY <1>2 DEF OnWay
  <1> QED
    BY <1>3 DEF OpenInv

\* A step that leaves the session where it is.
LEMMA OpenFrame ==
    ASSUME OpenInv, srv'.open = srv.open, srv'.link = srv.link, has' = has,
           srv.link # "attached" => srv'.owed = srv.owed,
           \A x \in Range(toC') : x \in Range(toC) \/ x.t \in {"control", "result"},
           ~srv.open => \A q \in Asks :
              srv'.input[q] \in {"open", "answered"} => srv.input[q] \in {"open", "answered"}
    PROVE  OpenInv'
  BY OpenFacts, OpenStep

\* A session that has ended.
LEMMA OpenEnds ==
    ASSUME OpenInv, NEW s \in Sessions, srv'.open = FALSE, srv'.link # "suspended", srv'.owed = {},
           \A q \in Asks : srv'.input[q] = Ended(s.input[q])
    PROVE  OpenInv'
  <1>1. s.input \in [Asks -> Inputs]
    BY SrvFields
  <1>2. \A q \in Asks : srv'.input[q] \notin {"open", "answered"}
    BY <1>1, EndedStates
  <1> QED
    BY <1>2, OpenStep

-----------------------------------------------------------------------------
(* HeardInv.                                                               *)

\* The parts of HeardInv.
LEMMA HeardFacts ==
    ASSUME TypeOK, HeardInv
    PROVE  /\ \A r \in Runs : heardTo[r] <= n /\ resumedTo[r] <= n /\ resumedBy[r] <= n
           /\ \A w \in srv.owed \cup srv.waits \cup srv.late : w.at <= n
           /\ \A x \in Range(toC) : x.t = "control" =>
                 x.w.at <= n /\ (x.w.act = "stop" => \A r \in Runs : heardTo[r] <= x.w.at)
           /\ \A i, j \in 1 .. Len(toC) :
                 i < j /\ toC[i].t = "control" /\ toC[j].t = "control"
                       /\ toC[i].w.act = "stop" /\ toC[j].w.act = "stop" => toC[i].w.at <= toC[j].w.at
           /\ \A d \in doing :
                 d.w.at <= n /\ (d.w.act = "stop" => \A r \in Runs : Covers(d.w.run, r) => d.w.at <= heardTo[r])
           /\ \A d \in Range(toS) : d.t = "answer" =>
                 d.w.at <= n /\ (d.w.act = "stop" => \A r \in Runs : Covers(d.w.run, r) => d.w.at <= heardTo[r])
  <1>1. DOMAIN toC = 1 .. Len(toC)
    BY Counted
  <1>2. \A x \in Range(toC) : x.t = "control" => x \in OnWay(toC, "control")
    BY DEF OnWay
  <1>3. \A x \in Range(toS) : x.t = "answer" => x \in OnWay(toS, "answer")
    BY DEF OnWay
  <1> QED
    BY <1>1, <1>2, <1>3 DEF HeardInv

\* Of a Stop or Resume that is applied: pressed before, and heard.
Applied(w) == w.at <= n /\ (w.act = "stop" => \A r \in Runs : Covers(w.run, r) => w.at <= heardTo[r])

\* The same of the state after a step.
LEMMA HeardStep ==
    ASSUME TypeOK',
           \A r \in Runs : heardTo'[r] <= n' /\ resumedTo'[r] <= n' /\ resumedBy'[r] <= n',
           \A w \in srv'.owed \cup srv'.waits \cup srv'.late : w.at <= n',
           \A x \in Range(toC') : x.t = "control" =>
              x.w.at <= n' /\ (x.w.act = "stop" => \A r \in Runs : heardTo'[r] <= x.w.at),
           \A i, j \in 1 .. Len(toC') :
              i < j /\ toC'[i].t = "control" /\ toC'[j].t = "control"
                    /\ toC'[i].w.act = "stop" /\ toC'[j].w.act = "stop" => toC'[i].w.at <= toC'[j].w.at,
           \A d \in doing' : Applied(d.w)',
           \A d \in Range(toS') : d.t = "answer" => Applied(d.w)'
    PROVE  HeardInv'
  <1>1. DOMAIN toC' = 1 .. Len(toC')
    BY LineFacts DEF TypeOK
  <1>2. \A x \in OnWay(toC', "control") : x \in Range(toC') /\ x.t = "control"
    BY DEF OnWay
  <1>3. \A d \in OnWay(toS', "answer") : d \in Range(toS') /\ d.t = "answer"
    BY DEF OnWay
  <1>4. \A d \in doing' \cup OnWay(toS', "answer") :
           d.w.at <= n' /\ (d.w.act = "stop" => \A r \in Runs : Covers(d.w.run, r) => d.w.at <= heardTo'[r])
    BY <1>3 DEF Applied
  <1> QED
    BY <1>1, <1>2, <1>4 DEF HeardInv

\* A new message to the client is a Stop or Resume pressed last, or none.
SendsLast == \/ toC' = toC
             \/ \E m \in ToClient : toC' = toC \o <<m>> /\ (m.t = "control" => n <= m.w.at /\ m.w.at <= n')

LEMMA SendsNoControl ==
    ASSUME NEW T, CGrows(T), "control" \notin T
    PROVE  SendsLast
  BY DEF CGrows, SendsLast

LEMMA HeardFrame ==
    ASSUME TypeOK, HeardInv, TypeOK', n <= n', SendsLast, heardTo' = heardTo,
           \A r \in Runs : resumedTo'[r] <= n' /\ resumedBy'[r] <= n',
           \A w \in srv'.owed \cup srv'.waits \cup srv'.late :
              w \in srv.owed \cup srv.waits \cup srv.late \/ w.at <= n',
           \A d \in doing' : d \in doing,
           \A x \in Range(toS') : x.t = "answer" => x \in Range(toS) \/ \E d \in doing : x.w = d.w
    PROVE  HeardInv'
  <1>0. n \in Nat /\ n' \in Nat /\ toC \in Seq(ToClient) /\ heardTo \in [Runs -> Nat] /\ Len(toC) \in Nat
    <2>1. told' \in Seq(Outcomes)
      BY DEF TypeOK
    <2>2. n' \in Nat
      BY <2>1, LineFacts DEF n
    <2> QED
      BY <2>2, Counted DEF TypeOK
  <1>1. /\ \A r \in Runs : heardTo[r] <= n
        /\ \A w \in srv.owed \cup srv.waits \cup srv.late : w.at <= n
        /\ \A x \in Range(toC) : x.t = "control" =>
              x.w.at <= n /\ (x.w.act = "stop" => \A r \in Runs : heardTo[r] <= x.w.at)
        /\ \A i, j \in 1 .. Len(toC) :
              i < j /\ toC[i].t = "control" /\ toC[j].t = "control"
                    /\ toC[i].w.act = "stop" /\ toC[j].w.act = "stop" => toC[i].w.at <= toC[j].w.at
        /\ \A d \in doing : Applied(d.w)
        /\ \A d \in Range(toS) : d.t = "answer" => Applied(d.w)
    BY HeardFacts DEF Applied
  <1>2. ASSUME NEW w \in Requests, Applied(w)
        PROVE  Applied(w)'
    <2>1. w.at \in Nat
      BY RequestFields
    <2> QED
      BY <1>0, <1>2, <2>1 DEF Applied
  <1>3. ASSUME NEW w \in srv'.owed \cup srv'.waits \cup srv'.late
        PROVE  w.at <= n'
    <2>1. CASE w \in srv.owed \cup srv.waits \cup srv.late
      <3>1. w.at \in Nat
        <4>1. srv \in Sessions
          BY DEF TypeOK
        <4>2. w \in OwedStops \/ w \in Requests
          BY <2>1, <4>1, SrvFields
        <4> QED
          BY <4>2, OwedFields, RequestFields
      <3> QED
        BY <1>0, <1>1, <2>1, <3>1
    <2> QED
      BY <1>3, <2>1
  <1>4. /\ \A x \in Range(toC') : x.t = "control" =>
              x.w.at <= n' /\ (x.w.act = "stop" => \A r \in Runs : heardTo[r] <= x.w.at)
        /\ \A i, j \in 1 .. Len(toC') :
              i < j /\ toC'[i].t = "control" /\ toC'[j].t = "control"
                    /\ toC'[i].w.act = "stop" /\ toC'[j].w.act = "stop" => toC'[i].w.at <= toC'[j].w.at
    <2>0. \A x \in Range(toC) : x.t = "control" => x.w.at \in Nat
      <3> SUFFICES ASSUME NEW x \in Range(toC), x.t = "control"
                   PROVE  x.w.at \in Nat
        OBVIOUS
      <3>1. x \in ToClient
        BY <1>0, LineFacts
      <3> QED
        BY <3>1, ToClientKinds, RequestFields
    <2>1. CASE toC' = toC
      BY <1>0, <1>1, <2>0, <2>1
    <2>2. ASSUME NEW m \in ToClient, toC' = toC \o <<m>>, m.t = "control" => n <= m.w.at /\ m.w.at <= n'
          PROVE  <1>4!1 /\ <1>4!2
      <3> PICK c : c = toC'
        OBVIOUS
      <3>1. /\ c \in Seq(ToClient) /\ Len(c) = Len(toC) + 1
            /\ \A i \in 1 .. Len(toC) : c[i] = toC[i]
            /\ c[Len(toC) + 1] = m
            /\ Range(c) = Range(toC) \cup {m}
        BY <1>0, <2>2, AddedOne
      <3>2. m.t = "control" => m.w.at \in Nat
        BY ToClientKinds, RequestFields
      <3>3. ASSUME NEW x \in Range(c), x.t = "control"
            PROVE  x.w.at <= n' /\ (x.w.act = "stop" => \A r \in Runs : heardTo[r] <= x.w.at)
        <4>1. CASE x \in Range(toC)
          BY <1>0, <1>1, <2>0, <3>3, <4>1
        <4>2. CASE x = m
          BY <1>0, <1>1, <2>2, <3>2, <3>3, <4>2
        <4> QED
          BY <3>1, <3>3, <4>1, <4>2
      <3>4. ASSUME NEW i \in 1 .. Len(c), NEW j \in 1 .. Len(c), i < j,
                   c[i].t = "control", c[j].t = "control", c[i].w.act = "stop", c[j].w.act = "stop"
            PROVE  c[i].w.at <= c[j].w.at
        <4>1. i \in 1 .. Len(toC) /\ c[i] = toC[i] /\ toC[i] \in Range(toC)
          <5>1. i \in 1 .. Len(toC)
            BY <1>0, <3>1, <3>4
          <5> QED
            BY <1>0, <3>1, <5>1, LineFacts
        <4>2. CASE j \in 1 .. Len(toC)
          BY <1>1, <3>1, <3>4, <4>1, <4>2
        <4>3. CASE j = Len(toC) + 1
          <5>1. c[j] = m /\ n <= m.w.at
            BY <2>2, <3>1, <3>4, <4>3
          <5>2. c[i].w.at <= n /\ c[i].w.at \in Nat
            BY <1>1, <2>0, <3>4, <4>1
          <5> QED
            BY <1>0, <3>2, <3>4, <5>1, <5>2
        <4> QED
          BY <1>0, <3>1, <4>2, <4>3
      <3> QED
        BY <3>3, <3>4
    <2> QED
      BY <2>1, <2>2 DEF SendsLast
  <1>5. doing \subseteq [w: Requests, ok: BOOLEAN] /\ toS \in Seq(ToServer)
    BY DEF TypeOK
  <1>6. \A d \in doing : d.w \in Requests
    BY <1>5
  <1>7. \A d \in doing' : Applied(d.w)'
    BY <1>1, <1>2, <1>6
  <1>8. ASSUME NEW x \in Range(toS'), x.t = "answer"
        PROVE  Applied(x.w)'
    <2>1. CASE x \in Range(toS)
      <3>1. x.w \in Requests
        <4>1. x \in ToServer
          BY <1>5, <2>1, LineFacts
        <4> QED
          BY <1>8, <4>1, ToServerKinds
      <3> QED
        BY <1>1, <1>2, <1>8, <2>1, <3>1
    <2>2. CASE \E d \in doing : x.w = d.w
      BY <1>1, <1>2, <1>6, <2>2
    <2> QED
      BY <1>8, <2>1, <2>2
  <1>9. \A r \in Runs : heardTo'[r] <= n' /\ resumedTo'[r] <= n' /\ resumedBy'[r] <= n'
    BY <1>0, <1>1
  <1> QED
    BY <1>3, <1>4, <1>7, <1>8, <1>9, HeardStep

\* The client hears a message.
LEMMA HeardClient ==
    ASSUME TypeOK, HeardInv, TypeOK', toC # <<>>, NEW m, m = Head(toC), toC' = Tail(toC),
           n' = n, UNCHANGED <<srv, resumedTo, resumedBy>>,
           \A r \in Runs : heardTo'[r] = IF m.t = "control" /\ m.w.act = "stop" /\ Covers(m.w.run, r)
                                         THEN m.w.at ELSE heardTo[r],
           \A d \in doing' : d \in doing \/ (m.t = "control" /\ d.w = m.w),
           \A x \in Range(toS') : x.t = "answer" => x \in Range(toS)
    PROVE  HeardInv'
  <1>0. /\ n \in Nat /\ toC \in Seq(ToClient) /\ heardTo \in [Runs -> Nat] /\ toS \in Seq(ToServer)
        /\ doing \subseteq [w: Requests, ok: BOOLEAN]
    BY Counted DEF TypeOK
  <1>1. /\ \A r \in Runs : heardTo[r] <= n /\ resumedTo[r] <= n /\ resumedBy[r] <= n
        /\ \A w \in srv.owed \cup srv.waits \cup srv.late : w.at <= n
        /\ \A x \in Range(toC) : x.t = "control" =>
              x.w.at <= n /\ (x.w.act = "stop" => \A r \in Runs : heardTo[r] <= x.w.at)
        /\ \A i, j \in 1 .. Len(toC) :
              i < j /\ toC[i].t = "control" /\ toC[j].t = "control"
                    /\ toC[i].w.act = "stop" /\ toC[j].w.act = "stop" => toC[i].w.at <= toC[j].w.at
        /\ \A d \in doing : Applied(d.w)
        /\ \A d \in Range(toS) : d.t = "answer" => Applied(d.w)
    BY HeardFacts DEF Applied
  <1>2. /\ toC' \in Seq(ToClient) /\ Len(toC') = Len(toC) - 1 /\ Len(toC) > 0 /\ Len(toC) \in Nat
        /\ \A i \in 1 .. Len(toC) - 1 : toC'[i] = toC[i + 1]
        /\ m = toC[1] /\ m \in ToClient /\ m \in Range(toC)
        /\ Range(toC) = Range(toC') \cup {m}
    BY <1>0, HeardOne, LineFacts
  <1>3. m.t = "control" =>
           m.w.at \in Nat /\ m.w.at <= n /\ (m.w.act = "stop" => \A r \in Runs : heardTo[r] <= m.w.at)
    BY <1>1, <1>2, ToClientKinds, RequestFields
  <1>4. \A r \in Runs : heardTo[r] <= heardTo'[r] /\ heardTo'[r] <= n /\ heardTo'[r] \in Nat
    BY <1>0, <1>1, <1>3
  <1>5. \A r \in Runs : heardTo'[r] <= n' /\ resumedTo'[r] <= n' /\ resumedBy'[r] <= n'
    BY <1>0, <1>1, <1>4
  <1>6. ASSUME NEW w \in Requests, Applied(w)
        PROVE  Applied(w)'
    <2>1. w.at \in Nat
      BY RequestFields
    <2> SUFFICES ASSUME w.act = "stop", NEW r \in Runs, Covers(w.run, r)
                 PROVE  w.at <= heardTo'[r]
      BY <1>0, <1>6 DEF Applied
    <2>2. w.at <= heardTo[r] /\ heardTo[r] \in Nat
      BY <1>0, <1>6 DEF Applied
    <2> QED
      BY <1>4, <2>1, <2>2
  <1>7. ASSUME NEW d \in doing'
        PROVE  Applied(d.w)'
    <2>1. CASE d \in doing
      BY <1>0, <1>1, <1>6, <2>1
    <2>2. CASE m.t = "control" /\ d.w = m.w
      <3>1. d.w.act = "stop" => \A r \in Runs : Covers(d.w.run, r) => heardTo'[r] = d.w.at
        BY <2>2
      <3> QED
        BY <1>0, <1>3, <2>2, <3>1 DEF Applied
    <2> QED
      BY <1>7, <2>1, <2>2
  <1>8. ASSUME NEW x \in Range(toS'), x.t = "answer"
        PROVE  Applied(x.w)'
    <2>1. x \in ToServer /\ x \in Range(toS)
      BY <1>0, <1>8, LineFacts
    <2> QED
      BY <1>1, <1>6, <1>8, <2>1, ToServerKinds
  <1>9. ASSUME NEW x \in Range(toC'), x.t = "control"
        PROVE  x.w.at <= n' /\ (x.w.act = "stop" => \A r \in Runs : heardTo'[r] <= x.w.at)
    <2>0. x \in ToClient /\ x \in Range(toC)
      BY <1>0, <1>2, LineFacts
    <2>1. x.w.at \in Nat /\ x.w.at <= n /\ (x.w.act = "stop" => \A r \in Runs : heardTo[r] <= x.w.at)
      BY <1>1, <1>9, <2>0, ToClientKinds, RequestFields
    <2> SUFFICES ASSUME x.w.act = "stop", NEW r \in Runs
                 PROVE  heardTo'[r] <= x.w.at
      BY <2>1
    <2> PICK c : c = toC'
      OBVIOUS
    <2>2. PICK i \in 1 .. Len(c) : c[i] = x
      <3>1. c \in Seq(ToClient) /\ x \in Range(c)
        BY <1>2, <1>9
      <3> QED
        BY ONLY <3>1, LineFacts
    <2>3. i + 1 \in 1 .. Len(toC) /\ toC[i + 1] = x /\ 1 \in 1 .. Len(toC) /\ 1 < i + 1
      BY <1>2, <2>2
    <2>4. CASE m.t = "control" /\ m.w.act = "stop" /\ Covers(m.w.run, r)
      <3>1. toC[1].w.at <= toC[i + 1].w.at
        BY <1>1, <1>2, <1>9, <2>3, <2>4
      <3> QED
        BY <1>2, <2>3, <2>4, <3>1
    <2>5. CASE ~(m.t = "control" /\ m.w.act = "stop" /\ Covers(m.w.run, r))
      BY <2>1, <2>5
    <2> QED
      BY <2>4, <2>5
  <1>10. ASSUME NEW i \in 1 .. Len(toC'), NEW j \in 1 .. Len(toC'), i < j,
                toC'[i].t = "control", toC'[j].t = "control",
                toC'[i].w.act = "stop", toC'[j].w.act = "stop"
         PROVE  toC'[i].w.at <= toC'[j].w.at
    <2>1. /\ i + 1 \in 1 .. Len(toC) /\ j + 1 \in 1 .. Len(toC) /\ i + 1 < j + 1
          /\ toC'[i] = toC[i + 1] /\ toC'[j] = toC[j + 1]
      BY <1>2, <1>10
    <2> QED
      BY <1>1, <1>10, <2>1
  <1>11. \A w \in srv'.owed \cup srv'.waits \cup srv'.late : w.at <= n'
    BY <1>1
  <1> QED
    BY <1>5, <1>7, <1>8, <1>9, <1>10, <1>11, HeardStep

\* What is on its way is lost, or is new.
LEMMA HeardAnew ==
    ASSUME TypeOK, HeardInv, TypeOK', n' = n, UNCHANGED <<heardTo, resumedTo, resumedBy, doing>>,
           \A x \in Range(toC') : x.t = "control" => x.w.at = n,
           \A w \in srv'.owed \cup srv'.waits \cup srv'.late :
              w \in srv.owed \cup srv.waits \cup srv.late \/ w.at = n,
           \A x \in Range(toS') : x.t # "answer"
    PROVE  HeardInv'
  <1>0. n \in Nat /\ heardTo \in [Runs -> Nat] /\ toC' \in Seq(ToClient)
    BY Counted DEF TypeOK
  <1>1. /\ \A r \in Runs : heardTo[r] <= n /\ resumedTo[r] <= n /\ resumedBy[r] <= n
        /\ \A w \in srv.owed \cup srv.waits \cup srv.late : w.at <= n
        /\ \A d \in doing : Applied(d.w)
    BY HeardFacts DEF Applied
  <1>2. \A d \in doing' : Applied(d.w)'
    BY <1>1 DEF Applied
  <1>3. \A i, j \in 1 .. Len(toC') :
           i < j /\ toC'[i].t = "control" /\ toC'[j].t = "control"
                 /\ toC'[i].w.act = "stop" /\ toC'[j].w.act = "stop" => toC'[i].w.at <= toC'[j].w.at
    <2>1. \A i \in 1 .. Len(toC') : toC'[i].t = "control" => toC'[i].w.at = n
      BY <1>0, LineFacts
    <2> QED
      BY <1>0, <2>1
  <1>4. \A x \in Range(toC') : x.t = "control" =>
           x.w.at <= n' /\ (x.w.act = "stop" => \A r \in Runs : heardTo'[r] <= x.w.at)
    BY <1>0, <1>1
  <1>5. \A w \in srv'.owed \cup srv'.waits \cup srv'.late : w.at <= n'
    BY <1>0, <1>1
  <1>6. \A r \in Runs : heardTo'[r] <= n' /\ resumedTo'[r] <= n' /\ resumedBy'[r] <= n'
    BY <1>1
  <1> QED
    BY <1>2, <1>3, <1>4, <1>5, <1>6, HeardStep

-----------------------------------------------------------------------------
(* EndInv, StopKept and ResumedKept.                                       *)

LEMMA EndStep ==
    ASSUME EndInv, \A r \in Runs : crun[r] = "ended" => crun'[r] = "ended",
           runs' = runs \/ \E m \in Range(toS) : m.t = "runs" /\ runs' = m.st,
           \A x \in Range(toS') : x.t = "runs" => x \in Range(toS) \/ x.st = crun'
    PROVE  EndInv'
  <1>1. /\ \A r \in Runs : runs[r] = "ended" => crun[r] = "ended"
        /\ \A m \in Range(toS) : m.t = "runs" => \A r \in Runs : m.st[r] = "ended" => crun[r] = "ended"
    BY DEF EndInv, OnWay
  <1>2. \A r \in Runs : runs'[r] = "ended" => crun'[r] = "ended"
    BY <1>1
  <1>3. ASSUME NEW x \in Range(toS'), x.t = "runs", NEW r \in Runs, x.st[r] = "ended"
        PROVE  crun'[r] = "ended"
    BY <1>1, <1>3
  <1> QED
    BY <1>2, <1>3 DEF EndInv, OnWay

\* A Stop of r pressed as p is owed or held.
Stands(p, r) == (\E o \in srv.owed : Covers(o.run, r) /\ p <= o.at) \/ (\E t \in srv.held : Covers(t, r))
\* It need not be.
Moot(p, r) == crun[r] = "ended" \/ p <= heardTo[r] \/ p <= resumedTo[r]

LEMMA StopFacts ==
    ASSUME StopKept, srv.open, NEW p \in 1 .. n, Pending(p), NEW r \in aim[p]
    PROVE  Moot(p, r) \/ Stands(p, r)
  BY DEF StopKept, Moot, Stands

\* What made a Stop moot remains.
LEMMA StaysMoot ==
    ASSUME TypeOK, TypeOK', NEW p \in 1 .. n, NEW r \in Runs, Moot(p, r),
           crun[r] = "ended" => crun'[r] = "ended",
           heardTo[r] <= heardTo'[r], resumedTo[r] <= resumedTo'[r]
    PROVE  Moot(p, r)'
  <1>1. /\ heardTo[r] \in Nat /\ heardTo'[r] \in Nat /\ resumedTo[r] \in Nat /\ resumedTo'[r] \in Nat
        /\ p \in Nat
    BY Counted DEF TypeOK
  <1> QED
    BY <1>1 DEF Moot

LEMMA StopStep ==
    ASSUME TypeOK, TypeOK', StopKept, srv'.open => srv.open, ToldOn,
           \A r \in Runs : /\ crun[r] = "ended" => crun'[r] = "ended"
                           /\ heardTo[r] <= heardTo'[r] /\ resumedTo[r] <= resumedTo'[r],
           srv'.open => \A p \in 1 .. n : \A r \in aim[p] : Stands(p, r) => Moot(p, r)' \/ Stands(p, r)'
    PROVE  StopKept'
  <1>1. n' = n /\ aim' = aim /\ \A p \in 1 .. n : Pending(p)' => Pending(p)
    BY DEF ToldOn
  <1>2. ASSUME srv'.open, NEW p \in 1 .. n', Pending(p)', NEW r \in aim'[p]
        PROVE  Moot(p, r)' \/ Stands(p, r)'
    <2>1. p \in 1 .. n /\ Pending(p) /\ r \in aim[p] /\ r \in Runs
      BY <1>1, <1>2, Counted
    <2>2. Moot(p, r) \/ Stands(p, r)
      BY <1>2, <2>1, StopFacts
    <2>3. CASE Moot(p, r)
      BY <2>1, <2>3, StaysMoot
    <2> QED
      BY <1>2, <2>1, <2>2, <2>3
  <1> QED
    BY <1>2 DEF StopKept, Moot, Stands

\* Stops are owed and held as before.
LEMMA StopFrame ==
    ASSUME TypeOK, TypeOK', StopKept, srv'.open => srv.open, ToldOn,
           srv'.open => srv'.owed = srv.owed /\ srv'.held = srv.held,
           \A r \in Runs : /\ crun[r] = "ended" => crun'[r] = "ended"
                           /\ heardTo[r] <= heardTo'[r] /\ resumedTo[r] <= resumedTo'[r]
    PROVE  StopKept'
  <1>1. ASSUME srv'.open, NEW p \in 1 .. n, NEW r \in aim[p], Stands(p, r)
        PROVE  Stands(p, r)'
    BY <1>1 DEF Stands
  <1> QED
    BY <1>1, StopStep

LEMMA ResumedStep ==
    ASSUME ResumedKept,
           \A o \in srv'.owed : \/ o \in srv.owed /\ resumedBy' = resumedBy
                                \/ \A r \in Runs : Covers(o.run, r) => resumedBy'[r] <= o.at
    PROVE  ResumedKept'
  BY DEF ResumedKept

LEMMA StopPress ==
    ASSUME TypeOK, TypeOK', StopKept, srv.open, n' = n + 1, NEW k, k = n + 1,
           \A p \in 1 .. n : told'[p] = told[p] /\ aim'[p] = aim[p],
           UNCHANGED <<crun, heardTo, resumedTo>>,
           \A p \in 1 .. n : \A r \in Runs : Stands(p, r) => Stands(p, r)',
           \A r \in aim'[k] : Pending(k)' => Stands(k, r)'
    PROVE  StopKept'
  <1>0. n \in Nat
    BY Counted
  <1>1. ASSUME NEW p \in 1 .. n', Pending(p)', NEW r \in aim'[p]
        PROVE  Moot(p, r)' \/ Stands(p, r)'
    <2>1. CASE p \in 1 .. n
      <3>1. Pending(p) /\ r \in aim[p] /\ r \in Runs
        BY <1>1, <2>1, Counted DEF Pending
      <3>2. Moot(p, r) \/ Stands(p, r)
        BY <2>1, <3>1, StopFacts
      <3>3. Moot(p, r) => Moot(p, r)'
        BY DEF Moot
      <3> QED
        BY <2>1, <3>1, <3>2, <3>3
    <2>2. CASE p = k
      <3>1. Pending(k)' /\ r \in aim'[k]
        BY <1>1, <2>2
      <3>2. Stands(k, r)'
        BY <3>1
      <3> QED
        BY <2>2, <3>2
    <2> QED
      BY <1>0, <1>1, <2>1, <2>2
  <1> QED
    BY <1>1 DEF StopKept, Moot, Stands

\* A Stop or Resume is answered.
LEMMA AnswerKeepsStops ==
    ASSUME TypeOK, TypeOK', HeardInv, EndInv, StopKept, ResumedKept,
           NEW m \in Range(toS), m.t = "answer", ToldOn, srv'.open = srv.open, srv'.held = srv.held,
           UNCHANGED <<crun, heardTo>>,
           \/ /\ srv'.owed = UndoStops(srv.owed, m.w.run)
              /\ resumedTo' = [r \in Runs |-> IF Covers(m.w.run, r) THEN n ELSE resumedTo[r]]
              /\ resumedBy' = [r \in Runs |-> IF Covers(m.w.run, r) /\ m.w.at > resumedBy[r]
                                              THEN m.w.at ELSE resumedBy[r]]
           \/ /\ srv'.owed = srv.owed \/ (m.w.act = "stop" /\ srv'.owed = Answered(srv.owed, m.w))
              /\ resumedTo' = resumedTo /\ resumedBy' = resumedBy
    PROVE  StopKept' /\ ResumedKept' /\ \A r \in Runs : resumedTo'[r] <= n /\ resumedBy'[r] <= n
  <1>0. /\ n \in Nat /\ heardTo \in [Runs -> Nat] /\ resumedTo \in [Runs -> Nat] /\ resumedBy \in [Runs -> Nat]
        /\ srv \in Sessions /\ toS \in Seq(ToServer) /\ runs \in RunStates
    BY Counted DEF TypeOK
  <1>1. m.w \in Requests /\ m.w.run \in Targets /\ m.w.at \in Nat
    <2>1. m \in ToServer
      BY <1>0, LineFacts
    <2>2. m.w \in Requests
      BY <2>1, ToServerKinds
    <2> QED
      BY <2>2, RequestFields
  <1>2. srv.owed \in SUBSET OwedStops
    BY <1>0, SrvFields
  <1>3. /\ \A r \in Runs : resumedTo[r] <= n /\ resumedBy[r] <= n
        /\ m.w.at <= n
        /\ m.w.act = "stop" => \A r \in Runs : Covers(m.w.run, r) => m.w.at <= heardTo[r]
    BY HeardFacts
  <1>4. \A r \in Runs : runs[r] \in Live \/ crun[r] = "ended"
    BY <1>0 DEF EndInv, RunStates
  <1>5. ASSUME srv'.owed = UndoStops(srv.owed, m.w.run),
               resumedTo' = [r \in Runs |-> IF Covers(m.w.run, r) THEN n ELSE resumedTo[r]],
               resumedBy' = [r \in Runs |-> IF Covers(m.w.run, r) /\ m.w.at > resumedBy[r]
                                            THEN m.w.at ELSE resumedBy[r]]
        PROVE  StopKept' /\ ResumedKept' /\ \A r \in Runs : resumedTo'[r] <= n /\ resumedBy'[r] <= n
    <2> PICK us : us = UndoStops(srv.owed, m.w.run)
      OBVIOUS
    <2>1. /\ us \subseteq OwedStops
          /\ \A u \in us : \A r \in Runs : Covers(u.run, r) =>
                ~Covers(m.w.run, r) /\ \E o \in srv.owed : Covers(o.run, r) /\ o.at = u.at
          /\ \A o \in srv.owed : \A r \in Runs : Covers(o.run, r) /\ ~Covers(m.w.run, r) /\ runs[r] \in Live =>
                \E u \in us : Covers(u.run, r) /\ u.at = o.at
      <3>1. srv.owed \in SUBSET OwedStops /\ m.w.run \in Targets /\ us = UndoStops(srv.owed, m.w.run)
        BY <1>1, <1>2
      <3> PICK t : t = m.w.run
        OBVIOUS
      <3> PICK os : os = srv.owed
        OBVIOUS
      <3>2. os \in SUBSET OwedStops /\ t \in Targets /\ us = UndoStops(os, t)
        BY <3>1
      <3>3. us \subseteq OwedStops
        BY ONLY <3>2, UndoStopsFacts
      <3>4. \A u \in us : \A r \in Runs : Covers(u.run, r) => ~Covers(t, r) /\ StopAt(os, r, u.at)
        BY ONLY <3>2, UndoStopsFacts
      <3>5. \A o \in os : \A r \in Runs : Covers(o.run, r) /\ ~Covers(t, r) /\ runs[r] \in Live =>
               \E u \in us : Covers(u.run, r) /\ u.at = o.at
        BY ONLY <3>2, UndoStopsFacts
      <3> QED
        BY <3>3, <3>4, <3>5 DEF StopAt
    <2>2. srv'.owed = us
      BY <1>5
    <2>3. \A r \in Runs : /\ resumedTo'[r] = IF Covers(m.w.run, r) THEN n ELSE resumedTo[r]
                          /\ resumedBy'[r] = IF Covers(m.w.run, r) /\ m.w.at > resumedBy[r]
                                             THEN m.w.at ELSE resumedBy[r]
      BY <1>5
    <2>4. \A r \in Runs : resumedTo[r] <= resumedTo'[r] /\ resumedTo'[r] <= n /\ resumedBy'[r] <= n
      BY <1>0, <1>3, <2>3
    <2>5. ASSUME NEW p \in 1 .. n, NEW r \in aim[p], Stands(p, r)
          PROVE  Moot(p, r)' \/ Stands(p, r)'
      <3>0. r \in Runs /\ p <= n
        BY <1>0, Counted
      <3>1. CASE Covers(m.w.run, r)
        BY <2>3, <3>0, <3>1 DEF Moot
      <3>2. CASE crun[r] = "ended"
        BY <3>2 DEF Moot
      <3>3. CASE \E t \in srv.held : Covers(t, r)
        BY <3>3 DEF Stands
      <3>4. ASSUME ~Covers(m.w.run, r), runs[r] \in Live, NEW o \in srv.owed, Covers(o.run, r), p <= o.at
            PROVE  Stands(p, r)'
        <4>1. PICK u \in us : Covers(u.run, r) /\ u.at = o.at
          BY <2>1, <3>0, <3>4
        <4> QED
          BY <2>2, <3>4, <4>1 DEF Stands
      <3> QED
        BY <1>4, <2>5, <3>0, <3>1, <3>2, <3>3, <3>4 DEF Stands
    <2>6. StopKept'
      BY <1>0, <2>4, <2>5, StopStep
    <2>7. ASSUME NEW u \in us, NEW r \in Runs, Covers(u.run, r)
          PROVE  resumedBy'[r] <= u.at
      <3>1. ~Covers(m.w.run, r)
        BY <2>1, <2>7
      <3>2. PICK o \in srv.owed : Covers(o.run, r) /\ o.at = u.at
        BY <2>1, <2>7
      <3>3. resumedBy[r] <= o.at
        BY <3>2 DEF ResumedKept
      <3> QED
        BY <2>3, <3>1, <3>2, <3>3
    <2>8. ResumedKept'
      BY <2>2, <2>7, ResumedStep
    <2> QED
      BY <2>4, <2>6, <2>8
  <1>6. ASSUME srv'.owed = srv.owed \/ (m.w.act = "stop" /\ srv'.owed = Answered(srv.owed, m.w)),
               resumedTo' = resumedTo, resumedBy' = resumedBy
        PROVE  StopKept' /\ ResumedKept' /\ \A r \in Runs : resumedTo'[r] <= n /\ resumedBy'[r] <= n
    <2>1. \A o \in srv'.owed : o \in srv.owed
      BY <1>6 DEF Answered
    <2>2. ResumedKept'
      BY <1>6, <2>1, ResumedStep
    <2>3. ASSUME NEW p \in 1 .. n, NEW r \in aim[p], Stands(p, r)
          PROVE  Moot(p, r)' \/ Stands(p, r)'
      <3>0. r \in Runs /\ p \in Nat
        BY <1>0, Counted
      <3>1. CASE \E t \in srv.held : Covers(t, r)
        BY <3>1 DEF Stands
      <3>2. ASSUME NEW o \in srv.owed, Covers(o.run, r), p <= o.at
            PROVE  Moot(p, r)' \/ Stands(p, r)'
        <4>1. CASE o \in srv'.owed
          BY <3>2, <4>1 DEF Stands
        <4>2. CASE o \notin srv'.owed
          <5>1. m.w.act = "stop" /\ o.at = m.w.at /\ (o.run = m.w.run \/ m.w.run = All)
            BY <1>6, <4>2 DEF Answered
          <5>2. Covers(m.w.run, r)
            BY <3>2, <5>1 DEF Covers
          <5>3. m.w.at <= heardTo[r] /\ heardTo[r] \in Nat
            BY <1>0, <1>3, <3>0, <5>1, <5>2
          <5>4. p <= heardTo'[r]
            BY <1>1, <3>0, <3>2, <5>1, <5>3
          <5> QED
            BY <5>4 DEF Moot
        <4> QED
          BY <4>1, <4>2
      <3> QED
        BY <2>3, <3>1, <3>2 DEF Stands
    <2>4. \A r \in Runs : heardTo[r] <= heardTo'[r] /\ resumedTo[r] <= resumedTo'[r]
      BY <1>0, <1>6
    <2>5. StopKept'
      BY <2>3, <2>4, StopStep
    <2> QED
      BY <1>3, <1>6, <2>2, <2>5
  <1> QED
    BY <1>5, <1>6

\* What a session holds once its link has dropped stands for what it owed and held.
LEMMA FoundFacts ==
    ASSUME TypeOK, OpenInv, NEW s, Found(s)
    PROVE  /\ s \in Sessions /\ s.link # "attached" /\ s.owed = {} /\ (s.link = "suspended" <=> s.open)
           /\ s.open => /\ srv.open
                        /\ \A p \in Nat : \A r \in Runs : Stands(p, r) => \E t \in s.held : Covers(t, r)
                        /\ \A q \in Asks :
                              s.input[q] = IF srv.link = "attached" /\ srv.input[q] = "unacked" THEN "outbox"
                                           ELSE srv.input[q]
           /\ ~s.open => /\ \A q \in Asks : s.input[q] = srv.input[q] \/ s.input[q] = Ended(srv.input[q])
                         /\ \A q \in Asks : s.input[q] \in {"none", "aborted", "unacked", "outbox", "done"}
                         /\ srv.open => /\ srv.link = "attached"
                                        /\ \A q \in Asks : srv.input[q] \in {"none", "outbox", "done"}
  <1>0. srv \in Sessions /\ srv.input \in [Asks -> Inputs]
    BY SrvFields DEF TypeOK
  <1>1. /\ srv.open => srv.link # "closed"
        /\ srv.link = "suspended" => srv.open
        /\ srv.link # "attached" => srv.owed = {}
        /\ ~srv.open => \A q \in Asks : srv.input[q] \notin {"open", "answered"}
        /\ srv.link \in {"attached", "suspended", "closed"}
    BY <1>0, OpenFacts, SrvFields
  <1>2. ASSUME srv.link # "attached"
        PROVE  /\ s = srv /\ s.link # "attached" /\ s.owed = {} /\ (s.link = "suspended" <=> s.open)
               /\ \A p \in Nat : \A r \in Runs : Stands(p, r) => \E t \in s.held : Covers(t, r)
               /\ ~s.open => \A q \in Asks : s.input[q] \in {"none", "aborted", "unacked", "outbox", "done"}
    <2>1. s = srv
      BY <1>2 DEF Found
    <2>2. \A p \in Nat : \A r \in Runs : Stands(p, r) => \E t \in s.held : Covers(t, r)
      BY <1>1, <1>2, <2>1 DEF Stands
    <2>3. ~s.open => \A q \in Asks : s.input[q] \in {"none", "aborted", "unacked", "outbox", "done"}
      BY <1>0, <1>1, <2>1 DEF Inputs
    <2> QED
      BY <1>1, <1>2, <2>1, <2>2, <2>3
  <1>3. ASSUME srv.link = "attached"
        PROVE  /\ s \in Sessions /\ s.link # "attached" /\ s.owed = {} /\ (s.link = "suspended" <=> s.open)
               /\ s.open => /\ srv.open
                            /\ \A p \in Nat : \A r \in Runs : Stands(p, r) => \E t \in s.held : Covers(t, r)
                            /\ \A q \in Asks :
                                  s.input[q] = IF srv.input[q] = "unacked" THEN "outbox" ELSE srv.input[q]
               /\ ~s.open => /\ \A q \in Asks : s.input[q] = Ended(srv.input[q])
                             /\ srv.open => \A q \in Asks : srv.input[q] \in {"none", "outbox", "done"}
    <2>1. s = Dropped(srv)
      BY <1>3 DEF Found
    <2>2. /\ s \in Sessions /\ s.owed = {}
          /\ s.open => /\ srv.open /\ s.link = "suspended"
                       /\ \A r \in Runs :
                             (\E o \in srv.owed : Covers(o.run, r)) \/ (\E t \in srv.held : Covers(t, r))
                             => \E t \in s.held : Covers(t, r)
                       /\ \A q \in Asks : s.input[q] = IF srv.input[q] = "unacked" THEN "outbox" ELSE srv.input[q]
          /\ ~s.open => /\ s.link = "closed"
                        /\ \A q \in Asks : s.input[q] = Ended(srv.input[q])
                        /\ srv.open => \A q \in Asks : srv.input[q] \in {"none", "outbox", "done"}
      BY <1>0, <1>3, <2>1, DroppedFacts
    <2>3. s.open => \A p \in Nat : \A r \in Runs : Stands(p, r) => \E t \in s.held : Covers(t, r)
      BY <2>2 DEF Stands
    <2> QED
      BY <2>2, <2>3
  <1>4. \A q \in Asks : Ended(srv.input[q]) \in {"none", "aborted", "done"}
    BY <1>0, EndedStates
  <1>5. CASE srv.link # "attached"
    BY <1>0, <1>1, <1>2, <1>5
  <1>6. CASE srv.link = "attached"
    BY <1>3, <1>4, <1>6
  <1> QED
    BY <1>5, <1>6

LEMMA ResumeKeepsStops ==
    ASSUME TypeOK, TypeOK', OpenInv, HeardInv, StopKept, ResumedKept, ToldOn,
           NEW m \in ToServer, m.t = "resume", NEW s, Found(s), Refuses(m) \/ HandsOver(m, s) \/ Starts(m, s),
           UNCHANGED <<cl, crun, heardTo, resumedTo, resumedBy>>
    PROVE  StopKept' /\ ResumedKept'
  <1>0. /\ n \in Nat /\ cl \in Nat \ {0} /\ heardTo \in [Runs -> Nat] /\ resumedTo \in [Runs -> Nat]
        /\ m.named \in SUBSET Asks
    BY Counted, ToServerKinds DEF TypeOK
  <1>1. \A r \in Runs : heardTo[r] <= heardTo'[r] /\ resumedTo[r] <= resumedTo'[r]
    BY <1>0
  <1>2. CASE Refuses(m)
    <2>1. srv' = srv
      BY <1>2 DEF Refuses
    <2> QED
      BY <1>1, <2>1, StopFrame, ResumedStep
  <1>3. CASE HandsOver(m, s)
    <2>1. s \in Sessions /\ srv' = Handed(s, m.named)
      BY <1>3, FoundFacts DEF HandsOver
    <2>2. /\ srv'.open = s.open
          /\ \A o \in srv'.owed : o.at = n /\ o.run \in s.held
          /\ \A t \in s.held : \E o \in srv'.owed : o.run = t /\ o.at = n
      <3> PICK d : d = Handed(s, m.named)
        OBVIOUS
      <3>1. /\ d.open = s.open
            /\ \A o \in d.owed : o.at = n /\ o.run \in s.held
            /\ \A t \in s.held : \E o \in d.owed : o.run = t /\ o.at = n
        BY <1>0, <2>1, HandedFacts
      <3> QED
        BY <2>1, <3>1
    <2>3. s.open => srv.open
      BY FoundFacts
    <2>4. ASSUME srv'.open, NEW p \in 1 .. n, NEW r \in aim[p], Stands(p, r)
          PROVE  Stands(p, r)'
      <3>1. r \in Runs /\ p \in Nat /\ p <= n
        BY <1>0, Counted
      <3>2. PICK t \in s.held : Covers(t, r)
        BY <2>2, <2>4, <3>1, FoundFacts
      <3>3. PICK o \in srv'.owed : o.run = t /\ o.at = n
        BY <2>2
      <3> QED
        BY <3>1, <3>2, <3>3 DEF Stands
    <2>5. StopKept'
      BY <1>1, <2>2, <2>3, <2>4, StopStep
    <2>6. \A r \in Runs : resumedBy'[r] <= n
      BY HeardFacts
    <2>7. ResumedKept'
      BY <2>2, <2>6, ResumedStep
    <2> QED
      BY <2>5, <2>7
  <1>4. CASE Starts(m, s)
    <2>1. srv'.open = FALSE /\ srv'.owed = {}
      BY <1>4 DEF Starts
    <2> QED
      BY <2>1 DEF StopKept, ResumedKept
  <1> QED
    BY <1>2, <1>3, <1>4

-----------------------------------------------------------------------------
(* AskInv.                                                                 *)

Settled == {"answered", "cancelled"}
AskedOnce == \A i, j \in 1 .. Len(toS) :
                toS[i].t = "ask" /\ toS[j].t = "ask" /\ toS[i].q = toS[j].q => i = j

\* The parts of AskInv.
LEMMA AskFacts ==
    ASSUME TypeOK, AskInv
    PROVE  /\ AskedOnce
           /\ \A q \in Asks : /\ srv.input[q] # "none" => ask[q] # "none"
                              /\ srv.input[q] = "none" => q \notin answered
                              /\ srv.input[q] = "unacked" => srv.link = "attached"
                              /\ srv.input[q] = "outbox" => srv.link = "suspended"
           /\ \A x \in Range(toS) : x.t = "ask" =>
                 /\ ask[x.q] # "none" /\ srv.input[x.q] = "none"
                 /\ \A y \in Range(toC) : y.t = "result" => y.q # x.q
           /\ \A y \in Range(toC) : y.t = "result" =>
                 ask[y.q] # "none" /\ srv.input[y.q] \notin {"open", "answered"}
           /\ \A x \in Range(toS) : x.t = "ack" => ask[x.q] \in Settled
           /\ \A x \in Range(toS) : x.t = "cancel" => x.q \in withdrawn
  <1>0. toS \in Seq(ToServer)
    BY DEF TypeOK
  <1>1. DOMAIN toS = 1 .. Len(toS) /\ \A x \in Range(toS) : \E i \in 1 .. Len(toS) : toS[i] = x
    BY <1>0, LineFacts
  <1>2. \A i \in 1 .. Len(toS) : toS[i].t = "ask" =>
           /\ ask[toS[i].q] # "none" /\ srv.input[toS[i].q] = "none"
           /\ \A j \in 1 .. Len(toS) : toS[j].t = "ask" /\ toS[j].q = toS[i].q => j = i
           /\ \A y \in Range(toC) : y.t = "result" => y.q # toS[i].q
    BY <1>1 DEF AskInv, OnWay
  <1>3. AskedOnce
    BY <1>2 DEF AskedOnce
  <1>4. \A x \in Range(toS) : x.t = "ask" =>
           /\ ask[x.q] # "none" /\ srv.input[x.q] = "none"
           /\ \A y \in Range(toC) : y.t = "result" => y.q # x.q
    BY <1>1, <1>2
  <1>5. /\ \A y \in Range(toC) : y.t = "result" =>
              ask[y.q] # "none" /\ srv.input[y.q] \notin {"open", "answered"}
        /\ \A x \in Range(toS) : x.t = "ack" => ask[x.q] \in Settled
        /\ \A x \in Range(toS) : x.t = "cancel" => x.q \in withdrawn
    BY DEF AskInv, OnWay, Settled
  <1>6. \A q \in Asks : /\ srv.input[q] # "none" => ask[q] # "none"
                        /\ srv.input[q] = "none" => q \notin answered
                        /\ srv.input[q] = "unacked" => srv.link = "attached"
                        /\ srv.input[q] = "outbox" => srv.link = "suspended"
    BY DEF AskInv
  <1> QED
    BY <1>3, <1>4, <1>5, <1>6

\* The same of the state after a step.
LEMMA AskStep ==
    ASSUME TypeOK', AskedOnce',
           \A q \in Asks : /\ srv'.input[q] # "none" => ask'[q] # "none"
                           /\ srv'.input[q] = "none" => q \notin answered'
                           /\ srv'.input[q] = "unacked" => srv'.link = "attached"
                           /\ srv'.input[q] = "outbox" => srv'.link = "suspended",
           \A x \in Range(toS') : x.t = "ask" =>
              /\ ask'[x.q] # "none" /\ srv'.input[x.q] = "none"
              /\ \A y \in Range(toC') : y.t = "result" => y.q # x.q,
           \A y \in Range(toC') : y.t = "result" =>
              ask'[y.q] # "none" /\ srv'.input[y.q] \notin {"open", "answered"},
           \A x \in Range(toS') : x.t = "ack" => ask'[x.q] \in Settled,
           \A x \in Range(toS') : x.t = "cancel" => x.q \in withdrawn'
    PROVE  AskInv'
  <1> PICK c : c = toS'
    OBVIOUS
  <1>0. c \in Seq(ToServer)
    BY DEF TypeOK
  <1>1. DOMAIN c = 1 .. Len(c) /\ \A i \in 1 .. Len(c) : c[i] \in Range(c)
    BY ONLY <1>0, LineFacts
  <1>2. \A i \in DOMAIN toS' : toS'[i].t = "ask" =>
           /\ ask'[toS'[i].q] # "none" /\ srv'.input[toS'[i].q] = "none"
           /\ \A j \in DOMAIN toS' : toS'[j].t = "ask" /\ toS'[j].q = toS'[i].q => j = i
           /\ \A y \in OnWay(toC', "result") : y.q # toS'[i].q
    <2>1. \A i, j \in 1 .. Len(c) : c[i].t = "ask" /\ c[j].t = "ask" /\ c[i].q = c[j].q => i = j
      BY DEF AskedOnce
    <2> QED
      BY <1>1, <2>1 DEF OnWay
  <1>3. /\ \A y \in OnWay(toC', "result") :
              ask'[y.q] # "none" /\ srv'.input[y.q] \notin {"open", "answered"}
        /\ \A x \in OnWay(toS', "ack") : ask'[x.q] \in {"answered", "cancelled"}
        /\ \A x \in OnWay(toS', "cancel") : x.q \in withdrawn'
    BY DEF OnWay, Settled
  <1> QED
    BY <1>2, <1>3 DEF AskInv

\* No question is asked twice by a line that loses messages, or grows by others.
LEMMA OnceHeard ==
    ASSUME TypeOK, AskedOnce, toS # <<>>, toS' = Tail(toS)
    PROVE  AskedOnce'
  <1>1. toS \in Seq(ToServer)
    BY DEF TypeOK
  <1>2. /\ Len(toS') = Len(toS) - 1 /\ Len(toS) \in Nat /\ Len(toS) > 0
        /\ \A i \in 1 .. Len(toS) - 1 : toS'[i] = toS[i + 1]
    BY <1>1, HeardOne, LineFacts
  <1>3. ASSUME NEW i \in 1 .. Len(toS'), NEW j \in 1 .. Len(toS'),
               toS'[i].t = "ask", toS'[j].t = "ask", toS'[i].q = toS'[j].q
        PROVE  i = j
    <2>1. i + 1 \in 1 .. Len(toS) /\ j + 1 \in 1 .. Len(toS) /\ toS'[i] = toS[i + 1] /\ toS'[j] = toS[j + 1]
      BY <1>2
    <2>2. i + 1 = j + 1
      BY <1>3, <2>1 DEF AskedOnce
    <2> QED
      BY <1>2, <2>2
  <1> QED
    BY <1>3 DEF AskedOnce

LEMMA OnceSaid ==
    ASSUME TypeOK, AskedOnce, NEW m \in ToServer, toS' = toS \o <<m>>,
           m.t = "ask" => \A x \in Range(toS) : x.t = "ask" => x.q # m.q
    PROVE  AskedOnce'
  <1>1. toS \in Seq(ToServer) /\ Len(toS) \in Nat
    BY Counted DEF TypeOK
  <1> PICK c : c = toS \o <<m>>
    OBVIOUS
  <1>2. /\ Len(c) = Len(toS) + 1
        /\ \A i \in 1 .. Len(toS) : c[i] = toS[i] /\ toS[i] \in Range(toS)
        /\ c[Len(toS) + 1] = m
    BY <1>1, AddedOne, LineFacts
  <1>3. ASSUME NEW i \in 1 .. Len(c), NEW j \in 1 .. Len(c), c[i].t = "ask", c[j].t = "ask", c[i].q = c[j].q
        PROVE  i = j
    <2>1. CASE i \in 1 .. Len(toS) /\ j \in 1 .. Len(toS)
      BY <1>2, <1>3, <2>1 DEF AskedOnce
    <2>2. CASE i = Len(toS) + 1 /\ j \in 1 .. Len(toS)
      BY <1>2, <1>3, <2>2
    <2>3. CASE i \in 1 .. Len(toS) /\ j = Len(toS) + 1
      BY <1>2, <1>3, <2>3
    <2> QED
      BY <1>1, <1>2, <2>1, <2>2, <2>3
  <1>4. toS' = c
    OBVIOUS
  <1> QED
    BY <1>3, <1>4 DEF AskedOnce

LEMMA OnceGrows ==
    ASSUME TypeOK, AskedOnce, NEW T, SGrows(T), "ask" \notin T
    PROVE  AskedOnce'
  <1>1. CASE toS' = toS
    BY <1>1 DEF AskedOnce
  <1>2. ASSUME NEW m \in ToServer, m.t \in T, toS' = toS \o <<m>>
        PROVE  AskedOnce'
    BY <1>2, OnceSaid
  <1> QED
    BY <1>1, <1>2 DEF SGrows

LEMMA OnceNone ==
    ASSUME TypeOK', \A x \in Range(toS') : x.t # "ask"
    PROVE  AskedOnce'
  <1> PICK c : c = toS'
    OBVIOUS
  <1>0. c \in Seq(ToServer)
    BY DEF TypeOK
  <1>1. \A i \in 1 .. Len(c) : c[i] \in Range(c)
    BY ONLY <1>0, LineFacts
  <1> QED
    BY <1>1 DEF AskedOnce

\* What a step that asks nothing new does to the questions.
InputsGo == \A q \in Asks :
    /\ srv'.input[q] = "none" <=> srv.input[q] = "none"
    /\ srv'.input[q] \in {"open", "answered"} => srv.input[q] \in {"open", "answered"}
    /\ srv'.input[q] = "unacked" => srv'.link = "attached"
    /\ srv'.input[q] = "outbox" => srv'.link = "suspended"
AsksGo == \A q \in Asks :
    (ask[q] # "none" => ask'[q] # "none") /\ (ask[q] \in Settled => ask'[q] \in Settled)

LEMMA AskFrame ==
    ASSUME TypeOK, TypeOK', AskInv, InputsGo, AsksGo, AskedOnce',
           \A q \in Asks : q \in answered' => q \in answered \/ srv.input[q] # "none",
           withdrawn \subseteq withdrawn',
           \A y \in Range(toC') : y.t = "result" =>
              y \in Range(toC) \/ srv'.input[y.q] \notin {"none", "open", "answered"},
           \A x \in Range(toS') : \/ x \in Range(toS) \/ x.t \in {"resume", "answer", "runs"}
                                  \/ (x.t = "ack" /\ ask'[x.q] \in Settled)
                                  \/ (x.t = "cancel" /\ x.q \in withdrawn')
    PROVE  AskInv'
  <1>1. /\ \A q \in Asks : /\ srv.input[q] # "none" => ask[q] # "none"
                           /\ srv.input[q] = "none" => q \notin answered
        /\ \A x \in Range(toS) : x.t = "ask" =>
              /\ ask[x.q] # "none" /\ srv.input[x.q] = "none"
              /\ \A y \in Range(toC) : y.t = "result" => y.q # x.q
        /\ \A y \in Range(toC) : y.t = "result" =>
              ask[y.q] # "none" /\ srv.input[y.q] \notin {"open", "answered"}
        /\ \A x \in Range(toS) : x.t = "ack" => ask[x.q] \in Settled
        /\ \A x \in Range(toS) : x.t = "cancel" => x.q \in withdrawn
    BY AskFacts
  <1>2. /\ \A x \in Range(toS) : x \in ToServer /\ (x.t \in {"ask", "cancel", "ack"} => x.q \in Asks)
        /\ \A y \in Range(toC) : y \in ToClient /\ (y.t = "result" => y.q \in Asks)
        /\ \A y \in Range(toC') : y \in ToClient /\ (y.t = "result" => y.q \in Asks)
    <2>1. toS \in Seq(ToServer) /\ toC \in Seq(ToClient) /\ toC' \in Seq(ToClient)
      BY DEF TypeOK
    <2>2. Range(toS) \subseteq ToServer /\ Range(toC) \subseteq ToClient /\ Range(toC') \subseteq ToClient
      BY <2>1, LineFacts
    <2> QED
      BY <2>2, ToServerKinds, ToClientKinds
  <1>3. \A q \in Asks : /\ srv'.input[q] # "none" => ask'[q] # "none"
                        /\ srv'.input[q] = "none" => q \notin answered'
                        /\ srv'.input[q] = "unacked" => srv'.link = "attached"
                        /\ srv'.input[q] = "outbox" => srv'.link = "suspended"
    BY <1>1 DEF InputsGo, AsksGo
  <1>4. ASSUME NEW y \in Range(toC'), y.t = "result"
        PROVE  ask'[y.q] # "none" /\ srv'.input[y.q] \notin {"open", "answered"}
    <2>0. y.q \in Asks
      BY <1>2, <1>4
    <2>1. CASE y \in Range(toC)
      BY <1>1, <1>4, <2>0, <2>1 DEF InputsGo, AsksGo
    <2>2. CASE srv'.input[y.q] \notin {"none", "open", "answered"}
      BY <1>3, <2>0, <2>2
    <2> QED
      BY <1>4, <2>1, <2>2
  <1>5. ASSUME NEW x \in Range(toS'), x.t = "ask"
        PROVE  /\ ask'[x.q] # "none" /\ srv'.input[x.q] = "none"
               /\ \A y \in Range(toC') : y.t = "result" => y.q # x.q
    <2>1. x \in Range(toS) /\ x.q \in Asks
      BY <1>2, <1>5
    <2>2. ask'[x.q] # "none" /\ srv'.input[x.q] = "none"
      BY <1>1, <1>5, <2>1 DEF InputsGo, AsksGo
    <2>3. \A y \in Range(toC') : y.t = "result" => y.q # x.q
      BY <1>1, <1>5, <2>1, <2>2
    <2> QED
      BY <2>2, <2>3
  <1>6. ASSUME NEW x \in Range(toS')
        PROVE  (x.t = "ack" => ask'[x.q] \in Settled) /\ (x.t = "cancel" => x.q \in withdrawn')
    <2>1. CASE x \in Range(toS)
      BY <1>1, <1>2, <2>1 DEF AsksGo
    <2> QED
      BY <1>6, <2>1
  <1> QED
    BY <1>3, <1>4, <1>5, <1>6, AskStep

\* A question is heard.
LEMMA AskHeard ==
    ASSUME TypeOK, TypeOK', AskInv, NEW m, toS # <<>>, m = Head(toS), toS' = Tail(toS), m.t = "ask",
           srv' = Turned(srv, m.q, "open") \/ srv' = srv,
           \A y \in Range(toC') : y.t = "result" => y \in Range(toC) \/ (y.q = m.q /\ srv' = srv),
           UNCHANGED <<ask, answered, withdrawn>>
    PROVE  AskInv'
  <1>0. toS \in Seq(ToServer) /\ srv \in Sessions /\ "open" \in Inputs
    BY DEF TypeOK, Inputs
  <1>1. /\ AskedOnce
        /\ \A q \in Asks : /\ srv.input[q] # "none" => ask[q] # "none"
                           /\ srv.input[q] = "none" => q \notin answered
                           /\ srv.input[q] = "unacked" => srv.link = "attached"
                           /\ srv.input[q] = "outbox" => srv.link = "suspended"
        /\ \A x \in Range(toS) : x.t = "ask" =>
              /\ ask[x.q] # "none" /\ srv.input[x.q] = "none"
              /\ \A y \in Range(toC) : y.t = "result" => y.q # x.q
        /\ \A y \in Range(toC) : y.t = "result" =>
              ask[y.q] # "none" /\ srv.input[y.q] \notin {"open", "answered"}
        /\ \A x \in Range(toS) : x.t = "ack" => ask[x.q] \in Settled
        /\ \A x \in Range(toS) : x.t = "cancel" => x.q \in withdrawn
    BY AskFacts
  <1>2. /\ toS' \in Seq(ToServer) /\ Len(toS') = Len(toS) - 1 /\ Len(toS) > 0 /\ Len(toS) \in Nat
        /\ \A i \in 1 .. Len(toS) - 1 : toS'[i] = toS[i + 1]
        /\ m = toS[1] /\ m \in ToServer /\ m \in Range(toS) /\ Range(toS') \subseteq Range(toS)
    BY <1>0, HeardOne, LineFacts
  <1>3. m.q \in Asks
    BY <1>2, ToServerKinds
  <1>4. ASSUME NEW x \in Range(toS'), x.t = "ask"
        PROVE  x.q # m.q /\ x.q \in Asks
    <2> PICK c : c = toS'
      OBVIOUS
    <2>1. c \in Seq(ToServer) /\ x \in Range(c)
      BY <1>2
    <2>2. PICK i \in 1 .. Len(c) : c[i] = x
      BY ONLY <2>1, LineFacts
    <2>3. i + 1 \in 1 .. Len(toS) /\ toS[i + 1] = x /\ 1 \in 1 .. Len(toS) /\ i + 1 # 1
      BY <1>2, <2>2
    <2>4. x.q # m.q
      BY <1>1, <1>2, <1>4, <2>3 DEF AskedOnce
    <2>5. x \in ToServer
      BY <2>1, LineFacts
    <2> QED
      BY <1>4, <2>4, <2>5, ToServerKinds
  <1>5. /\ (srv'.link = srv.link /\ srv'.input[m.q] = "open") \/ srv' = srv
        /\ \A q \in Asks : q # m.q => srv'.input[q] = srv.input[q]
    <2>1. CASE srv' = srv
      BY <2>1
    <2>2. CASE srv' = Turned(srv, m.q, "open")
      BY <1>0, <1>3, <2>2, TurnedFacts
    <2> QED
      BY <2>1, <2>2
  <1>6. srv.input[m.q] = "none" /\ ask[m.q] # "none" /\ \A y \in Range(toC) : y.t = "result" => y.q # m.q
    BY <1>1, <1>2
  <1>7. \A q \in Asks : /\ srv'.input[q] # "none" => ask'[q] # "none"
                        /\ srv'.input[q] = "none" => q \notin answered'
                        /\ srv'.input[q] = "unacked" => srv'.link = "attached"
                        /\ srv'.input[q] = "outbox" => srv'.link = "suspended"
    BY <1>1, <1>5, <1>6
  <1>8. ASSUME NEW y \in Range(toC'), y.t = "result"
        PROVE  ask'[y.q] # "none" /\ srv'.input[y.q] \notin {"open", "answered"} /\ y.q \in Asks
    <2>1. y.q \in Asks
      <3>1. toC' \in Seq(ToClient)
        BY DEF TypeOK
      <3>2. Range(toC') \subseteq ToClient
        BY <3>1, LineFacts
      <3> QED
        BY <1>8, <3>2, ToClientKinds
    <2>2. CASE y \in Range(toC)
      BY <1>1, <1>5, <1>6, <1>8, <2>1, <2>2
    <2>3. CASE y.q = m.q /\ srv' = srv
      BY <1>6, <2>1, <2>3
    <2> QED
      BY <1>8, <2>1, <2>2, <2>3
  <1>9. \A x \in Range(toS') : x.t = "ask" =>
           /\ ask'[x.q] # "none" /\ srv'.input[x.q] = "none"
           /\ \A y \in Range(toC') : y.t = "result" => y.q # x.q
    BY <1>1, <1>2, <1>4, <1>5
  <1>10. AskedOnce'
    BY <1>1, OnceHeard
  <1>11. /\ \A x \in Range(toS') : x.t = "ack" => ask'[x.q] \in Settled
         /\ \A x \in Range(toS') : x.t = "cancel" => x.q \in withdrawn'
    BY <1>1, <1>2
  <1> QED
    BY <1>7, <1>8, <1>9, <1>10, <1>11, AskStep

\* A question is asked.
LEMMA AskAsked ==
    ASSUME TypeOK, TypeOK', AskInv, NEW q \in Asks, NEW m \in ToServer, m.t = "ask", m.q = q,
           toS' = toS \/ toS' = toS \o <<m>>, ask[q] = "none", ask'[q] = "pending",
           \A x \in Asks : x # q => ask'[x] = ask[x],
           UNCHANGED <<srv, toC, answered, withdrawn>>
    PROVE  AskInv'
  <1>0. toS \in Seq(ToServer) /\ toC \in Seq(ToClient)
    BY DEF TypeOK
  <1>1. /\ AskedOnce
        /\ \A x \in Asks : /\ srv.input[x] # "none" => ask[x] # "none"
                           /\ srv.input[x] = "none" => x \notin answered
                           /\ srv.input[x] = "unacked" => srv.link = "attached"
                           /\ srv.input[x] = "outbox" => srv.link = "suspended"
        /\ \A x \in Range(toS) : x.t = "ask" =>
              /\ ask[x.q] # "none" /\ srv.input[x.q] = "none"
              /\ \A y \in Range(toC) : y.t = "result" => y.q # x.q
        /\ \A y \in Range(toC) : y.t = "result" =>
              ask[y.q] # "none" /\ srv.input[y.q] \notin {"open", "answered"}
        /\ \A x \in Range(toS) : x.t = "ack" => ask[x.q] \in Settled
        /\ \A x \in Range(toS) : x.t = "cancel" => x.q \in withdrawn
    BY AskFacts
  <1>2. /\ \A x \in Range(toS) : x.t \in {"ask", "cancel", "ack"} => x.q \in Asks
        /\ \A y \in Range(toC) : y.t = "result" => y.q \in Asks
    <2>1. Range(toS) \subseteq ToServer /\ Range(toC) \subseteq ToClient
      BY <1>0, LineFacts
    <2> QED
      BY <2>1, ToServerKinds, ToClientKinds
  <1> PICK c : c = toS \o <<m>>
    OBVIOUS
  <1>3. Range(c) = Range(toS) \cup {m}
    BY <1>0, AddedOne
  <1>4. \A x \in Range(toS') : x \in Range(toS) \/ x = m
    BY <1>3
  <1>5. AskedOnce'
    <2>1. CASE toS' = toS
      BY <1>1, <2>1 DEF AskedOnce
    <2>2. CASE toS' = toS \o <<m>>
      <3>1. \A x \in Range(toS) : x.t = "ask" => x.q # m.q
        BY <1>1
      <3> QED
        BY <1>1, <2>2, <3>1, OnceSaid
    <2> QED
      BY <2>1, <2>2
  <1>6. srv.input[q] = "none" /\ \A y \in Range(toC) : y.t = "result" => y.q # q
    BY <1>1
  <1>7. \A x \in Asks : /\ srv'.input[x] # "none" => ask'[x] # "none"
                        /\ srv'.input[x] = "none" => x \notin answered'
                        /\ srv'.input[x] = "unacked" => srv'.link = "attached"
                        /\ srv'.input[x] = "outbox" => srv'.link = "suspended"
    BY <1>1
  <1>8. \A y \in Range(toC') : y.t = "result" =>
           ask'[y.q] # "none" /\ srv'.input[y.q] \notin {"open", "answered"}
    BY <1>1, <1>2, <1>6
  <1>9. ASSUME NEW x \in Range(toS')
        PROVE  /\ x.t = "ask" => /\ ask'[x.q] # "none" /\ srv'.input[x.q] = "none"
                                 /\ \A y \in Range(toC') : y.t = "result" => y.q # x.q
               /\ x.t = "ack" => ask'[x.q] \in Settled
               /\ x.t = "cancel" => x.q \in withdrawn'
    <2>1. CASE x \in Range(toS)
      <3>1. x.t \in {"ask", "ack"} => x.q # q \/ ask'[x.q] = "pending"
        OBVIOUS
      <3>2. x.t = "ack" => x.q # q
        BY <1>1, <2>1 DEF Settled
      <3> QED
        BY <1>1, <1>2, <2>1, <3>2
    <2>2. CASE x = m
      BY <1>6, <2>2
    <2> QED
      BY <1>4, <2>1, <2>2
  <1> QED
    BY <1>5, <1>7, <1>8, <1>9, AskStep

\* What the server does with its record of the questions.
LEMMA TurnedGo ==
    ASSUME TypeOK, AskInv, NEW q \in Asks, NEW i \in Inputs, srv' = Turned(srv, q, i), i # "none", srv.input[q] # "none",
           i \in {"open", "answered"} => srv.input[q] \in {"open", "answered"},
           i = "unacked" => srv.link = "attached", i = "outbox" => srv.link = "suspended"
    PROVE  InputsGo
  <1>1. srv \in Sessions
    BY DEF TypeOK
  <1>2. srv'.link = srv.link /\ srv'.input[q] = i /\ \A x \in Asks : x # q => srv'.input[x] = srv.input[x]
    BY <1>1, TurnedFacts
  <1>3. \A x \in Asks : /\ srv.input[x] = "unacked" => srv.link = "attached"
                        /\ srv.input[x] = "outbox" => srv.link = "suspended"
    BY AskFacts
  <1> QED
    BY <1>2, <1>3 DEF InputsGo

LEMMA SameGo ==
    ASSUME TypeOK, AskInv, srv'.input = srv.input, srv'.link = srv.link
    PROVE  InputsGo
  <1>1. \A x \in Asks : /\ srv.input[x] = "unacked" => srv.link = "attached"
                        /\ srv.input[x] = "outbox" => srv.link = "suspended"
    BY AskFacts
  <1> QED
    BY <1>1 DEF InputsGo

LEMMA EndedGo ==
    ASSUME TypeOK, \A q \in Asks : srv'.input[q] = Ended(srv.input[q])
    PROVE  InputsGo
  <1>1. srv.input \in [Asks -> Inputs]
    BY SrvFields DEF TypeOK
  <1>2. \A q \in Asks : /\ Ended(srv.input[q]) \in {"none", "aborted", "done"}
                        /\ Ended(srv.input[q]) = "none" <=> srv.input[q] = "none"
    BY <1>1, EndedStates DEF Inputs
  <1> QED
    BY <1>2 DEF InputsGo

LEMMA DroppedGo ==
    ASSUME TypeOK, AskInv, OpenInv, srv.link = "attached", srv' = Dropped(srv)
    PROVE  InputsGo
  <1> PICK d : d = Dropped(srv)
    OBVIOUS
  <1>1. srv \in Sessions
    BY DEF TypeOK
  <1>2. /\ d.open \in BOOLEAN
        /\ d.open => d.link = "suspended"
                     /\ \A q \in Asks : d.input[q] = IF srv.input[q] = "unacked" THEN "outbox" ELSE srv.input[q]
        /\ ~d.open => \A q \in Asks : d.input[q] = Ended(srv.input[q])
    BY <1>1, DroppedFacts, SrvFields
  <1>3. srv' = d
    OBVIOUS
  <1>4. CASE d.open
    BY <1>2, <1>3, <1>4 DEF InputsGo
  <1>5. CASE ~d.open
    BY <1>2, <1>3, <1>5, EndedGo
  <1> QED
    BY <1>4, <1>5

\* A client is back.
LEMMA ResumeGo ==
    ASSUME TypeOK, TypeOK', AskInv, OpenInv, NEW m \in ToServer, m.t = "resume", NEW s, Found(s),
           Refuses(m) \/ HandsOver(m, s) \/ Starts(m, s)
    PROVE  /\ InputsGo
           /\ \A y \in Range(toC') : y.t = "result" => srv'.input[y.q] \notin {"none", "open", "answered"}
  <1>0. srv \in Sessions /\ srv.input \in [Asks -> Inputs] /\ cl \in Nat \ {0} /\ n \in Nat /\ m.named \in SUBSET Asks
    BY SrvFields, Counted, ToServerKinds DEF TypeOK
  <1>1. CASE Refuses(m)
    <2>1. srv' = srv
      BY <1>1 DEF Refuses
    <2>2. InputsGo
      BY <2>1, SameGo
    <2> PICK x \in ToClient : x.t = "refused" /\ toC' = <<x>>
      BY <1>1 DEF Refuses
    <2>3. \A y \in Range(toC') : y.t # "result"
      BY DEF Range
    <2> QED
      BY <2>2, <2>3
  <1>2. CASE HandsOver(m, s)
    <2>1. s \in Sessions /\ s.link = "suspended" /\ srv' = Handed(s, m.named)
      BY <1>2, FoundFacts DEF HandsOver
    <2>2. \A q \in Asks : s.input[q] = IF srv.link = "attached" /\ srv.input[q] = "unacked" THEN "outbox"
                                       ELSE srv.input[q]
      BY <2>1, FoundFacts
    <2>3. /\ srv'.link = "attached"
          /\ \A q \in Asks :
                srv'.input[q] = IF s.input[q] = "outbox" THEN IF q \in m.named THEN "unacked" ELSE "done"
                                ELSE IF q \notin m.named /\ s.input[q] \in {"open", "answered"} THEN "aborted"
                                ELSE s.input[q]
      <3> PICK d : d = Handed(s, m.named)
        OBVIOUS
      <3>1. /\ d.link = "attached"
            /\ \A q \in Asks :
                  d.input[q] = IF s.input[q] = "outbox" THEN IF q \in m.named THEN "unacked" ELSE "done"
                               ELSE IF q \notin m.named /\ s.input[q] \in {"open", "answered"} THEN "aborted"
                               ELSE s.input[q]
        BY <1>0, <2>1, HandedFacts
      <3> QED
        BY <2>1, <3>1
    <2>4. InputsGo
      BY <2>2, <2>3 DEF InputsGo
    <2>5. ASSUME NEW y \in Range(toC'), y.t = "result"
          PROVE  srv'.input[y.q] \notin {"none", "open", "answered"}
      <3> PICK c : c = toC'
        OBVIOUS
      <3>1. c \in Seq(ToClient) /\ y \in Range(c)
        BY <2>5 DEF TypeOK
      <3>2. PICK i \in 1 .. Len(c) : c[i] = y
        BY ONLY <3>1, LineFacts
      <3>3. y.q \in m.named /\ s.input[y.q] = "outbox"
        BY <1>2, <2>1, <2>5, <3>2, HandedLine
      <3> QED
        BY <1>0, <2>3, <3>3
    <2> QED
      BY <2>4, <2>5
  <1>3. CASE Starts(m, s)
    <2>1. /\ srv'.link = "attached" /\ \A q \in Asks : srv'.input[q] = Ended(s.input[q])
          /\ s.link # "suspended" \/ ~m.has
      BY <1>3 DEF Starts
    <2>2. s \in Sessions /\ s.input \in [Asks -> Inputs]
      BY FoundFacts, SrvFields
    <2>3. \A q \in Asks : s.input[q] = "none" <=> srv.input[q] = "none"
      <3>1. \A q \in Asks : Ended(srv.input[q]) = "none" <=> srv.input[q] = "none"
        BY <1>0, EndedStates DEF Inputs
      <3>2. s.open \in BOOLEAN
        BY <2>2, SrvFields
      <3> QED
        BY <3>1, <3>2, FoundFacts
    <2>4. \A q \in Asks : /\ srv'.input[q] \in {"none", "aborted", "done"}
                          /\ srv'.input[q] = "none" <=> s.input[q] = "none"
      BY <2>1, <2>2, EndedStates DEF Inputs
    <2>5. InputsGo
      BY <2>3, <2>4 DEF InputsGo
    <2> PICK x \in ToClient : x.t = "resumed" /\ toC' = <<x>>
      BY <1>3 DEF Starts
    <2>6. \A y \in Range(toC') : y.t # "result"
      BY DEF Range
    <2> QED
      BY <2>5, <2>6
  <1> QED
    BY <1>1, <1>2, <1>3

-----------------------------------------------------------------------------
(* WaitKept.                                                               *)

\* The server has the question, or will hear of it, or the client will hear its end.
Asking   == {"open", "answered", "aborted"}
OnLine(q) == \/ \E x \in Range(toS) : x.t = "ask" /\ x.q = q
             \/ \E x \in Range(toC) : x.t = "result" /\ x.q = q
             \/ \E x \in Range(toC) : x.t = "refused"
Cared(q) == srv.input[q] \in Asking \/ OnLine(q)

LEMMA WaitFacts ==
    ASSUME WaitKept, NEW q \in Asks, Waits(q)
    PROVE  Cared(q)
  BY DEF WaitKept, Cared, OnLine, Asking, OnWay

LEMMA WaitStep ==
    ASSUME WaitKept,
           \A q \in Asks : Waits(q)' => Waits(q) \/ Cared(q)',
           \A q \in Asks : Waits(q)' /\ srv.input[q] \in Asking => Cared(q)',
           \A x \in Range(toS) : x.t = "ask" /\ Waits(x.q)' => x \in Range(toS') \/ Cared(x.q)',
           \A x \in Range(toC) : /\ x.t = "result" /\ Waits(x.q)' => x \in Range(toC') \/ Cared(x.q)'
                                 /\ x.t = "refused" => \/ x \in Range(toC')
                                                       \/ \A q \in Asks : Waits(q)' => Cared(q)'
    PROVE  WaitKept'
  <1>1. ASSUME NEW q \in Asks, Waits(q)'
        PROVE  Cared(q)'
    <2>1. CASE ~Waits(q)
      BY <1>1, <2>1
    <2>2. CASE Waits(q) /\ srv.input[q] \in Asking
      BY <1>1, <2>2
    <2>3. CASE Waits(q) /\ srv.input[q] \notin Asking
      <3>1. OnLine(q)
        BY <2>3, WaitFacts DEF Cared
      <3>2. CASE \E x \in Range(toS) : x.t = "ask" /\ x.q = q
        BY <1>1, <3>2 DEF Cared, OnLine
      <3>3. CASE \E x \in Range(toC) : x.t = "result" /\ x.q = q
        BY <1>1, <3>3 DEF Cared, OnLine
      <3>4. CASE \E x \in Range(toC) : x.t = "refused"
        BY <1>1, <3>4 DEF Cared, OnLine
      <3> QED
        BY <3>1, <3>2, <3>3, <3>4 DEF OnLine
    <2> QED
      BY <2>1, <2>2, <2>3
  <1>2. ASSUME NEW q \in Asks, Cared(q)'
        PROVE  \/ srv'.input[q] \in {"open", "answered", "aborted"}
               \/ \E m \in OnWay(toS', "ask") : m.q = q
               \/ \E m \in OnWay(toC', "result") : m.q = q
               \/ OnWay(toC', "refused") # {}
    BY <1>2 DEF Cared, OnLine, Asking, OnWay
  <1> QED
    BY <1>1, <1>2 DEF WaitKept

\* Nobody waits who did not.
LEMMA WaitsNoMore ==
    ASSUME UNCHANGED <<cl, up>>, srv'.home = srv.home, cst' = "on" => cst = "on",
           NEW q \in Asks, ask'[q] = "pending" => ask[q] = "pending",
           \A x \in Range(toC') : x.t = "resumed" => x \in Range(toC)
    PROVE  Waits(q)' => Waits(q)
  BY DEF Waits, OnWay

\* A step that keeps what is on the lines, questions and their results at least.
LEMMA WaitFrame ==
    ASSUME WaitKept, UNCHANGED <<cl, up>>, srv'.home = srv.home, cst' = "on" => cst = "on",
           \A q \in Asks : ask'[q] = "pending" => ask[q] = "pending",
           \A q \in Asks : srv.input[q] \in Asking => srv'.input[q] \in Asking,
           \A x \in Range(toS) : x.t = "ask" => x \in Range(toS'),
           \A x \in Range(toC) : x.t \in {"result", "refused"} => x \in Range(toC'),
           \A x \in Range(toC') : x.t = "resumed" => x \in Range(toC)
    PROVE  WaitKept'
  <1>1. \A q \in Asks : Waits(q)' => Waits(q)
    BY WaitsNoMore
  <1>2. \A q \in Asks : srv.input[q] \in Asking => Cared(q)'
    BY DEF Cared
  <1> QED
    BY <1>1, <1>2, WaitStep

\* No link, or another one, carries the session: nobody waits on it.
LEMMA WaitNone ==
    ASSUME \/ ~up'
           \/ srv'.home # cl'
           \/ cst' # "on" /\ \A x \in Range(toC') : x.t = "resumed" => x.asks = {}
    PROVE  WaitKept'
  BY DEF WaitKept, Waits, OnWay

\* A link whose session has ended at the server, with nobody waiting, or told so soon.
LEMMA WaitGone ==
    ASSUME TypeOK, LineInv, srv.link # "attached", UNCHANGED <<cl, up>>, srv'.home = srv.home,
           cst' = "on" => cst = "on",
           NEW q \in Asks, Waits(q)', \A x \in Range(toC') : x.t = "resumed" => x \in Range(toC),
           \A x \in Range(toC) : x.t = "refused" => x \in Range(toC')
    PROVE  Cared(q)'
  <1>1. up /\ srv.home = cl
    BY DEF Waits
  <1>2. cst = "gone" \/ OnWay(toC, "refused") # {}
    BY <1>1, LineFactsOf
  <1>3. CASE OnWay(toC, "refused") # {}
    BY <1>3 DEF OnWay, Cared, OnLine
  <1>4. CASE cst = "gone"
    <2>1. \A x \in Range(toC') : x.t # "resumed"
      BY <1>4, LineFactsOf
    <2> QED
      BY <1>4, <2>1 DEF Waits, OnWay
  <1> QED
    BY <1>2, <1>3, <1>4

\* A reply is sent, or kept for the next link.
LEMMA WaitReply ==
    ASSUME TypeOK, TypeOK', LineInv, WaitKept, NEW q \in Asks, NEW i \in Inputs, srv' = Turned(srv, q, i),
           NEW m \in ToClient, m.t = "result", m.q = q, toC' = IF Carried(srv) THEN toC \o <<m>> ELSE toC,
           UNCHANGED <<cl, up, toS, cst, ask>>
    PROVE  WaitKept'
  <1>0. srv \in Sessions /\ toC \in Seq(ToClient)
    BY DEF TypeOK
  <1>1. srv'.home = srv.home /\ \A x \in Asks : x # q => srv'.input[x] = srv.input[x]
    <2> PICK d : d = Turned(srv, q, i)
      OBVIOUS
    <2>1. d.home = srv.home /\ \A x \in Asks : x # q => d.input[x] = srv.input[x]
      BY <1>0, TurnedFacts
    <2> QED
      BY <2>1
  <1>2. CGrows({"result"})
    <2>1. m.t \in {"result"}
      OBVIOUS
    <2> QED
      BY <2>1 DEF CGrows, Carried
  <1>3. /\ \A x \in Range(toC) : x \in Range(toC')
        /\ \A x \in Range(toC') : x.t = "resumed" => x \in Range(toC)
    <2>1. \A x \in Range(toC') : x \notin Range(toC) => x.t = "result"
      BY <1>0, <1>2, CGrowsFacts
    <2>2. \A x \in Range(toC) : x \in Range(toC')
      BY <1>0, <1>2, CGrowsFacts
    <2> QED
      BY <2>1, <2>2
  <1>4. \A x \in Asks : Waits(x)' => Waits(x)
    BY <1>1, <1>3, WaitsNoMore
  <1>5. ASSUME NEW x \in Asks, Waits(x)', srv.input[x] \in Asking
        PROVE  Cared(x)'
    <2>1. CASE x # q
      BY <1>1, <1>5, <2>1 DEF Cared
    <2>2. CASE x = q /\ Carried(srv)
      <3>1. m \in Range(toC')
        BY <1>0, <2>2, AddedOne
      <3> QED
        BY <2>2, <3>1 DEF Cared, OnLine
    <2>3. CASE x = q /\ ~Carried(srv)
      <3>1. srv.link # "attached"
        BY <1>4, <1>5, <2>3 DEF Carried, Waits
      <3> QED
        BY <1>1, <1>3, <1>5, <3>1, WaitGone
    <2> QED
      BY <2>1, <2>2, <2>3
  <1>6. \A x \in Range(toS) : x \in Range(toS')
    OBVIOUS
  <1>7. \A x \in Asks : Waits(x)' => Waits(x) \/ Cared(x)'
    BY <1>4
  <1> QED
    BY <1>3, <1>5, <1>6, <1>7, WaitStep

\* The server hears a message, of which a question is the only one that somebody waits on.
LEMMA WaitHeard ==
    ASSUME TypeOK, WaitKept, toS # <<>>, NEW m, m = Head(toS), toS' = Tail(toS),
           UNCHANGED <<cl, up, cst, ask>>, srv'.home = srv.home, toC \in Seq(ToClient), CGrows(NewsC),
           \A q \in Asks : srv.input[q] \in Asking => srv'.input[q] \in Asking,
           m.t = "ask" => (Waits(m.q)' => Cared(m.q)')
    PROVE  WaitKept'
  <1>1. toS \in Seq(ToServer)
    BY DEF TypeOK
  <1>2. \A x \in Range(toS) : x = m \/ x \in Range(toS')
    BY <1>1, HeardOne
  <1>3. \A x \in Range(toC) : x \in Range(toC')
    BY CGrowsFacts
  <1>4. \A x \in Range(toC') : x.t = "resumed" => x \in Range(toC)
    BY CGrowsFacts DEF NewsC
  <1>5. \A q \in Asks : Waits(q)' => Waits(q)
    BY <1>4, WaitsNoMore
  <1>6. \A q \in Asks : Waits(q)' => Waits(q) \/ Cared(q)'
    BY <1>5
  <1>7. \A q \in Asks : srv.input[q] \in Asking => Cared(q)'
    BY DEF Cared
  <1>8. \A x \in Range(toS) : x.t = "ask" /\ Waits(x.q)' => x \in Range(toS') \/ Cared(x.q)'
    BY <1>2
  <1> QED
    BY <1>3, <1>6, <1>7, <1>8, WaitStep

\* A question is asked.
LEMMA WaitAsked ==
    ASSUME TypeOK, LineInv, WaitKept, cst = "on", NEW q \in Asks, NEW m \in ToServer, m.t = "ask", m.q = q,
           toS' = IF up /\ cst = "on" THEN toS \o <<m>> ELSE toS,
           \A x \in Asks : x # q => ask'[x] = ask[x],
           UNCHANGED <<srv, cl, up, toC, cst>>
    PROVE  WaitKept'
  <1>1. toS \in Seq(ToServer)
    BY DEF TypeOK
  <1>2. \A x \in Range(toS) : x \in Range(toS')
    <2>1. CASE up
      BY <1>1, <2>1, AddedOne
    <2>2. CASE ~up
      BY <2>2
    <2> QED
      BY <2>1, <2>2
  <1>3. up => m \in Range(toS')
    BY <1>1, AddedOne
  <1>4. Waits(q)' => Cared(q)'
    BY <1>3 DEF Waits, Cared, OnLine
  <1>5. \A x \in Asks : x # q => (Waits(x)' => Waits(x))
    BY WaitsNoMore
  <1>6. \A x \in Asks : Waits(x)' => Waits(x) \/ Cared(x)'
    BY <1>4, <1>5
  <1>7. \A x \in Asks : srv.input[x] \in Asking => Cared(x)'
    BY DEF Cared
  <1> QED
    BY <1>2, <1>6, <1>7, WaitStep

\* A client is back.
LEMMA WaitResume ==
    ASSUME TypeOK, TypeOK', LineInv, OpenInv, WaitKept, toS # <<>>, NEW m \in ToServer, m = Head(toS), m.t = "resume",
           toS' = Tail(toS), NEW s, Found(s), Refuses(m) \/ HandsOver(m, s) \/ Starts(m, s),
           UNCHANGED <<cl, up, cst, ask>>
    PROVE  WaitKept'
  <1>0. cst = "resuming" /\ srv.home # cl
    BY ResumeHeard
  <1>1. CASE Refuses(m)
    BY <1>0, <1>1, WaitNone DEF Refuses
  <1>2. CASE Starts(m, s)
    <2> PICK x \in ToClient : x.t = "resumed" /\ x.asks = {} /\ toC' = <<x>>
      BY <1>2 DEF Starts
    <2>1. \A y \in Range(toC') : y = x
      BY DEF Range
    <2> QED
      BY <1>0, <2>1, WaitNone
  <1>3. CASE HandsOver(m, s)
    <2>0. s \in Sessions /\ m.named \in SUBSET Asks /\ cl \in Nat \ {0} /\ n \in Nat
      BY FoundFacts, ToServerKinds, Counted
    <2>1. \A q \in Asks :
             srv'.input[q] = IF s.input[q] = "outbox" THEN IF q \in m.named THEN "unacked" ELSE "done"
                             ELSE IF q \notin m.named /\ s.input[q] \in {"open", "answered"} THEN "aborted"
                             ELSE s.input[q]
      <3> PICK d : d = Handed(s, m.named)
        OBVIOUS
      <3>1. \A q \in Asks :
               d.input[q] = IF s.input[q] = "outbox" THEN IF q \in m.named THEN "unacked" ELSE "done"
                            ELSE IF q \notin m.named /\ s.input[q] \in {"open", "answered"} THEN "aborted"
                            ELSE s.input[q]
        BY <2>0, HandedFacts
      <3> QED
        BY <1>3, <3>1 DEF HandsOver
    <2>5. /\ \A x \in Range(toC') : x.t = "resumed" => x.asks = m.named \cap (InInputs(s) \cup Again(s, m.named))
          /\ \A q \in m.named : s.input[q] = "outbox" => Replied(q)
      <3>1. TypeOK /\ m \in ToServer /\ m.t = "resume" /\ s \in Sessions /\ HandsOver(m, s)
        BY <1>3, <2>0
      <3> QED
        BY ONLY <3>1, HandedLine
    <2>2. ASSUME NEW q \in Asks, Waits(q)'
          PROVE  Cared(q)'
      <3>1. PICK x \in Range(toC') : x.t = "resumed" /\ q \in x.asks
        BY <1>0, <2>2 DEF Waits, OnWay
      <3>2. q \in m.named /\ (q \in InInputs(s) \/ q \in Again(s, m.named))
        BY <2>5, <3>1
      <3>3. CASE q \in InInputs(s)
        <4>1. s.input[q] \in {"open", "answered", "aborted"}
          BY <3>3 DEF InInputs
        <4>2. srv'.input[q] = s.input[q]
          BY <2>1, <3>2, <4>1
        <4> QED
          BY <4>1, <4>2 DEF Cared, Asking
      <3>4. CASE q \in Again(s, m.named)
        <4>1. s.input[q] = "outbox"
          BY <3>4 DEF Again
        <4>2. \E y \in Range(toC') : y.t = "result" /\ y.q = q
          BY <2>5, <3>2, <4>1 DEF Replied
        <4> QED
          BY <4>2 DEF Cared, OnLine
      <3> QED
        BY <3>2, <3>3, <3>4
    <2>3. ASSUME NEW q \in Asks, Cared(q)'
          PROVE  \/ srv'.input[q] \in {"open", "answered", "aborted"}
                 \/ \E y \in OnWay(toS', "ask") : y.q = q
                 \/ \E y \in OnWay(toC', "result") : y.q = q
                 \/ OnWay(toC', "refused") # {}
      BY <2>3 DEF Cared, OnLine, Asking, OnWay
    <2> QED
      BY <2>2, <2>3 DEF WaitKept
  <1> QED
    BY <1>1, <1>2, <1>3

\* The client hears a message.
LEMMA WaitHears ==
    ASSUME TypeOK, LineInv, WaitKept, toC # <<>>, NEW m, m = Head(toC), toC' = Tail(toC),
           UNCHANGED <<srv, cl, up>>,
           cst' = cst \/ (cst' = "on" /\ m.t = "resumed") \/ (cst' = "gone" /\ m.t = "refused"),
           m.t = "refused" => cst' = "gone",
           \A q \in Asks : ask'[q] = "pending" =>
              /\ ask[q] = "pending"
              /\ m.t = "resumed" => q \in m.asks
              /\ m.t = "result" => q # m.q,
           \A x \in Range(toS) : x.t = "ask" => x \in Range(toS')
    PROVE  WaitKept'
  <1>1. /\ m \in Range(toC)
        /\ \A x \in Range(toC') : x \in Range(toC) /\ x.t # "resumed"
        /\ \A x \in Range(toC) : x = m \/ x \in Range(toC')
    BY ClientHeard
  <1>2. ASSUME NEW q \in Asks, Waits(q)'
        PROVE  Waits(q) /\ m.t # "refused"
    <2>1. cst' = "on"
      BY <1>1, <1>2 DEF Waits, OnWay
    <2>2. ask[q] = "pending" /\ up /\ srv.home = cl /\ (m.t = "resumed" => q \in m.asks)
      BY <1>2 DEF Waits
    <2>3. CASE cst = "on"
      BY <2>1, <2>2, <2>3 DEF Waits
    <2>4. CASE m.t = "resumed"
      BY <1>1, <2>1, <2>2, <2>4 DEF Waits, OnWay
    <2> QED
      BY <2>1, <2>3, <2>4
  <1>3. \A x \in Range(toC) : /\ x.t = "result" /\ Waits(x.q)' => x \in Range(toC')
                              /\ x.t = "refused" => x \in Range(toC') \/ \A q \in Asks : ~Waits(q)'
    <2>1. ASSUME NEW x \in Range(toC), x.t = "result", Waits(x.q)'
          PROVE  x \in Range(toC')
      <3>1. x.q \in Asks
        <4> PICK c : c = toC
          OBVIOUS
        <4>1. c \in Seq(ToClient) /\ x \in Range(c)
          BY <2>1 DEF TypeOK
        <4>2. x \in ToClient
          BY ONLY <4>1, LineFacts
        <4> QED
          BY <2>1, <4>2, ToClientKinds
      <3>2. ask'[x.q] = "pending"
        BY <2>1 DEF Waits
      <3> QED
        BY <1>1, <2>1, <3>1, <3>2
    <2>2. ASSUME NEW x \in Range(toC), x.t = "refused"
          PROVE  x \in Range(toC') \/ \A q \in Asks : ~Waits(q)'
      BY <1>1, <1>2, <2>2
    <2> QED
      BY <2>1, <2>2
  <1>4. \A q \in Asks : Waits(q)' => Waits(q) \/ Cared(q)'
    BY <1>2
  <1>5. \A q \in Asks : srv.input[q] \in Asking => Cared(q)'
    BY DEF Cared
  <1> QED
    BY <1>3, <1>4, <1>5, WaitStep

-----------------------------------------------------------------------------
(* AnswerKept.                                                             *)

\* AnswerKept of one question.
Served == {"answered", "unacked", "outbox", "done"}
Kept(q) ==
    /\ srv.input[q] \in {"open", "answered"} => ask[q] = "pending"
    /\ srv.open => \A x \in Range(toS) : x.t = "ask" /\ x.q = q => ask[q] = "pending"
    /\ q \in answered =>
          /\ srv.input[q] \in Served
          /\ ask[q] \in {"pending", "answered"}
          /\ srv.input[q] = "done" => ask[q] = "answered"
          /\ ~srv.open => srv.input[q] = "done"
          /\ \A x \in Range(toC) : x.t = "result" /\ x.q = q => x.st = "answered"
    /\ ask[q] = "pending" /\ (q \in answered \/ srv.input[q] \in {"open", "answered"}) =>
          \A x \in Range(toC) : x.t = "resumed" => q \in x.asks

LEMMA KeptFacts ==
    ASSUME AnswerKept, NEW q \in Asks, Wanted(q)
    PROVE  Kept(q)
  BY DEF AnswerKept, Kept, OnWay, Served

LEMMA KeptStep ==
    ASSUME \A q \in Asks : Wanted(q)' => Kept(q)'
    PROVE  AnswerKept'
  <1>1. ASSUME NEW q \in Asks, Kept(q)'
        PROVE  /\ srv'.input[q] \in {"open", "answered"} => ask'[q] = "pending"
               /\ srv'.open => \A m \in OnWay(toS', "ask") : m.q = q => ask'[q] = "pending"
               /\ q \in answered' =>
                     /\ srv'.input[q] \in {"answered", "unacked", "outbox", "done"}
                     /\ ask'[q] \in {"pending", "answered"}
                     /\ srv'.input[q] = "done" => ask'[q] = "answered"
                     /\ ~srv'.open => srv'.input[q] = "done"
                     /\ \A m \in OnWay(toC', "result") : m.q = q => m.st = "answered"
               /\ \A m \in OnWay(toC', "resumed") :
                     ask'[q] = "pending" /\ (q \in answered' \/ srv'.input[q] \in {"open", "answered"})
                     => q \in m.asks
    BY <1>1 DEF Kept, OnWay, Served
  <1> QED
    BY <1>1 DEF AnswerKept

LEMMA WantedBefore ==
    ASSUME withdrawn \subseteq withdrawn', stopped => stopped', NEW q, Wanted(q)'
    PROVE  Wanted(q)
  BY DEF Wanted

\* A step that turns the question at the server at most.
LEMMA KeptFrame ==
    ASSUME AnswerKept, NEW q \in Asks, Wanted(q), srv'.open => srv.open,
           ask'[q] = ask[q], q \in answered' => q \in answered,
           srv'.input[q] \in {"open", "answered"} => srv'.input[q] = srv.input[q],
           q \in answered => /\ srv'.input[q] \in Served
                             /\ srv'.input[q] = "done" => srv.input[q] = "done" \/ ask[q] = "answered"
                             /\ ~srv'.open => srv'.input[q] = "done"
                             /\ \A x \in Range(toC') : x.t = "result" /\ x.q = q => x \in Range(toC) \/ x.st = "answered",
           \A x \in Range(toS') : x.t = "ask" => x \in Range(toS),
           \A x \in Range(toC') : x.t = "resumed" => x \in Range(toC)
    PROVE  Kept(q)'
  <1>1. Kept(q)
    BY KeptFacts
  <1>2. srv'.open => \A x \in Range(toS') : x.t = "ask" /\ x.q = q => ask'[q] = "pending"
    BY <1>1 DEF Kept
  <1>3. q \in answered' =>
          /\ srv'.input[q] \in Served
          /\ ask'[q] \in {"pending", "answered"}
          /\ srv'.input[q] = "done" => ask'[q] = "answered"
          /\ ~srv'.open => srv'.input[q] = "done"
          /\ \A x \in Range(toC') : x.t = "result" /\ x.q = q => x.st = "answered"
    BY <1>1 DEF Kept
  <1>4. ask'[q] = "pending" /\ (q \in answered' \/ srv'.input[q] \in {"open", "answered"}) =>
          \A x \in Range(toC') : x.t = "resumed" => q \in x.asks
    BY <1>1 DEF Kept
  <1>5. srv'.input[q] \in {"open", "answered"} => ask'[q] = "pending"
    BY <1>1 DEF Kept
  <1> QED
    BY <1>2, <1>3, <1>4, <1>5 DEF Kept

\* A question the server does not have open, and no member has answered.
LEMMA KeptIdle ==
    ASSUME NEW q \in Asks, q \notin answered', srv'.input[q] \notin {"open", "answered"},
           srv'.open => \A x \in Range(toS') : x.t = "ask" /\ x.q = q => ask'[q] = "pending"
    PROVE  Kept(q)'
  BY DEF Kept

\* A step that leaves the question and the session as they were.
LEMMA KeptSame ==
    ASSUME AnswerKept, NEW q \in Asks, Wanted(q), srv'.open = srv.open,
           ask'[q] = ask[q], q \in answered' => q \in answered, srv'.input[q] = srv.input[q],
           \A x \in Range(toS') : x.t = "ask" => x \in Range(toS),
           \A x \in Range(toC') : x.t \in {"result", "resumed"} => x \in Range(toC)
    PROVE  Kept(q)'
  <1>1. Kept(q)
    BY KeptFacts
  <1>2. q \in answered => /\ srv'.input[q] \in Served
                          /\ srv'.input[q] = "done" => srv.input[q] = "done" \/ ask[q] = "answered"
                          /\ ~srv'.open => srv'.input[q] = "done"
    BY <1>1 DEF Kept
  <1>3. srv'.open => srv.open
    OBVIOUS
  <1>4. q \in answered => \A x \in Range(toC') : x.t = "result" /\ x.q = q => x \in Range(toC) \/ x.st = "answered"
    OBVIOUS
  <1>5. \A x \in Range(toC') : x.t = "resumed" => x \in Range(toC)
    OBVIOUS
  <1> QED
    BY <1>2, <1>3, <1>4, <1>5, KeptFrame

LEMMA AnswerSame ==
    ASSUME AnswerKept, srv'.open = srv.open, srv'.input = srv.input,
           \A q \in Asks : q \notin withdrawn' => ask'[q] = ask[q],
           answered' = answered, withdrawn \subseteq withdrawn', stopped => stopped',
           \A x \in Range(toS') : x.t = "ask" => x \in Range(toS),
           \A x \in Range(toC') : x.t \in {"result", "resumed"} => x \in Range(toC)
    PROVE  AnswerKept'
  <1>1. ASSUME NEW q \in Asks, Wanted(q)'
        PROVE  Kept(q)'
    <2>1. Wanted(q)
      BY <1>1, WantedBefore
    <2>2. /\ ask'[q] = ask[q] /\ srv'.input[q] = srv.input[q] /\ (q \in answered' => q \in answered)
      BY <1>1 DEF Wanted
    <2> QED
      BY <2>1, <2>2, KeptSame
  <1> QED
    BY <1>1, KeptStep

\* A step about one question of the server's.
LEMMA AnswerTurned ==
    ASSUME TypeOK, AnswerKept, NEW q \in Asks, NEW i \in Inputs, srv' = Turned(srv, q, i),
           UNCHANGED <<ask, withdrawn, stopped>>, answered' \subseteq answered \cup {q},
           \A x \in Range(toS') : x.t = "ask" => x \in Range(toS),
           \A x \in Range(toC') : \/ x.t \notin {"result", "resumed"} \/ x \in Range(toC)
                                  \/ (x.t = "result" /\ x.q = q),
           Wanted(q) => Kept(q)'
    PROVE  AnswerKept'
  <1>1. srv'.open = srv.open /\ \A x \in Asks : x # q => srv'.input[x] = srv.input[x]
    <2>0. srv \in Sessions
      BY DEF TypeOK
    <2> PICK d : d = Turned(srv, q, i)
      OBVIOUS
    <2>1. d.open = srv.open /\ \A x \in Asks : x # q => d.input[x] = srv.input[x]
      BY <2>0, TurnedFacts
    <2> QED
      BY <2>1
  <1>2. ASSUME NEW z \in Asks, Wanted(z)', z # q
        PROVE  Kept(z)'
    <2>1. Wanted(z)
      BY <1>2, WantedBefore
    <2>2. ask'[z] = ask[z] /\ srv'.input[z] = srv.input[z] /\ (z \in answered' => z \in answered)
      BY <1>1, <1>2
    <2>3. Kept(z)
      BY <2>1, KeptFacts
    <2>4. z \in answered => /\ srv'.input[z] \in Served
                            /\ srv'.input[z] = "done" => srv.input[z] = "done" \/ ask[z] = "answered"
                            /\ ~srv'.open => srv'.input[z] = "done"
                            /\ \A x \in Range(toC') : x.t = "result" /\ x.q = z => x \in Range(toC) \/ x.st = "answered"
      BY <1>1, <1>2, <2>2, <2>3 DEF Kept
    <2>5. \A x \in Range(toC') : x.t = "resumed" => x \in Range(toC)
      OBVIOUS
    <2> QED
      BY <1>1, <2>1, <2>2, <2>4, <2>5, KeptFrame
  <1>3. Wanted(q)' => Kept(q)'
    BY WantedBefore
  <1> QED
    BY <1>2, <1>3, KeptStep

\* A member answers.
LEMMA AnswerGiven ==
    ASSUME TypeOK, OpenInv, AskInv, AnswerKept, NEW q \in Asks, srv.input[q] = "open", srv' = Turned(srv, q, "answered"),
           answered' = answered \cup {q}, UNCHANGED <<ask, withdrawn, stopped, toC, toS>>
    PROVE  AnswerKept'
  <1>0. srv \in Sessions /\ "answered" \in Inputs
    BY DEF TypeOK, Inputs
  <1>1. srv'.open = srv.open /\ srv'.input[q] = "answered"
    <2> PICK d : d = Turned(srv, q, "answered")
      OBVIOUS
    <2>1. d.open = srv.open /\ d.input[q] = "answered"
      BY <1>0, TurnedFacts
    <2> QED
      BY <2>1
  <1>2. srv.open
    BY OpenFacts
  <1>3. \A x \in Range(toC) : x.t = "result" => x.q # q
    BY AskFacts
  <1>4. Wanted(q) => Kept(q)'
    <2>1. ASSUME Wanted(q)
          PROVE  Kept(q)'
      <3>1. Kept(q)
        BY <2>1, KeptFacts
      <3>2. ask[q] = "pending" /\ \A x \in Range(toC) : x.t = "resumed" => q \in x.asks
        BY <3>1 DEF Kept
      <3> QED
        BY <1>1, <1>2, <1>3, <3>2 DEF Kept, Served
    <2> QED
      BY <2>1
  <1> QED
    BY <1>0, <1>4, AnswerTurned

\* A reply is sent, or kept.
LEMMA AnswerReplied ==
    ASSUME TypeOK, OpenInv, AnswerKept, NEW q \in Asks, srv.input[q] \in {"answered", "aborted"},
           NEW i \in {"unacked", "outbox", "done"}, srv' = Turned(srv, q, i), i = "done" => srv.link = "closed",
           \A x \in Range(toC') : \/ x.t \notin {"result", "resumed"} \/ x \in Range(toC)
                                  \/ /\ x.t = "result" /\ x.q = q
                                     /\ x.st = IF srv.input[q] = "answered" THEN "answered" ELSE "cancelled",
           UNCHANGED <<ask, answered, withdrawn, stopped, toS>>
    PROVE  AnswerKept'
  <1>0. srv \in Sessions /\ i \in Inputs
    BY DEF TypeOK, Inputs
  <1>1. srv'.open = srv.open /\ srv'.input[q] = i
    <2> PICK d : d = Turned(srv, q, i)
      OBVIOUS
    <2>1. d.open = srv.open /\ d.input[q] = i
      BY <1>0, TurnedFacts
    <2> QED
      BY <2>1
  <1>2. Wanted(q) => Kept(q)'
    <2>1. ASSUME Wanted(q)
          PROVE  Kept(q)'
      <3>1. Kept(q)
        BY <2>1, KeptFacts
      <3>2. q \in answered => srv.input[q] = "answered" /\ srv.open
        BY <3>1 DEF Kept, Served
      <3>3. srv.open => srv.link # "closed"
        BY OpenFacts
      <3>4. q \in answered => /\ srv'.input[q] \in Served
                              /\ srv'.input[q] # "done"
                              /\ srv'.open
                              /\ \A x \in Range(toC') : x.t = "result" /\ x.q = q => x \in Range(toC) \/ x.st = "answered"
        BY <1>1, <3>2, <3>3 DEF Served
      <3>5. srv'.input[q] \notin {"open", "answered"}
        BY <1>1
      <3>6. \A x \in Range(toC') : x.t = "resumed" => x \in Range(toC)
        OBVIOUS
      <3>7. ask'[q] = ask[q] /\ (q \in answered' => q \in answered) /\ \A x \in Range(toS') : x \in Range(toS)
        OBVIOUS
      <3> QED
        BY <1>1, <2>1, <3>4, <3>5, <3>6, <3>7, KeptFrame
    <2> QED
      BY <2>1
  <1> QED
    BY <1>0, <1>2, AnswerTurned

\* The client asks a question.
LEMMA AnswerAsked ==
    ASSUME TypeOK, LineInv, AskInv, AnswerKept, cst = "on", NEW q \in Asks, ask[q] = "none", ask'[q] = "pending",
           \A x \in Asks : x # q => ask'[x] = ask[x],
           \A x \in Range(toS') : x.t = "ask" => x \in Range(toS) \/ x.q = q,
           UNCHANGED <<srv, answered, withdrawn, stopped, toC>>
    PROVE  AnswerKept'
  <1>1. \A x \in Range(toC) : x.t # "resumed"
    BY LineFactsOf
  <1>2. srv.input[q] = "none" /\ q \notin answered
    BY AskFacts
  <1>3. Kept(q)'
    BY <1>2, KeptIdle
  <1>4. ASSUME NEW z \in Asks, Wanted(z)', z # q
        PROVE  Kept(z)'
    <2>1. Kept(z)
      BY <1>4, WantedBefore, KeptFacts
    <2>2. srv'.open => \A x \in Range(toS') : x.t = "ask" /\ x.q = z => ask'[z] = "pending"
      BY <1>4, <2>1 DEF Kept
    <2> QED
      BY <1>4, <2>1, <2>2 DEF Kept
  <1> QED
    BY <1>3, <1>4, KeptStep

\* The server hears a question.
LEMMA AnswerAskHeard ==
    ASSUME TypeOK, LineInv, AskInv, AnswerKept, toS # <<>>, NEW m, m = Head(toS), toS' = Tail(toS), m.t = "ask",
           \/ srv.open /\ srv' = Turned(srv, m.q, "open") /\ toC' = toC
           \/ srv' = srv,
           \A x \in Range(toC') : x.t \notin {"result", "resumed"} \/ x \in Range(toC) \/ (x.t = "result" /\ x.q = m.q),
           UNCHANGED <<ask, answered, withdrawn, stopped>>
    PROVE  AnswerKept'
  <1>0. srv \in Sessions /\ toS \in Seq(ToServer) /\ "open" \in Inputs
    BY DEF TypeOK, Inputs
  <1>1. m \in Range(toS) /\ Range(toS') \subseteq Range(toS) /\ m \in ToServer
    BY <1>0, HeardOne
  <1>2. m.q \in Asks
    BY <1>1, ToServerKinds
  <1>3. srv.input[m.q] = "none" /\ m.q \notin answered
    BY <1>1, <1>2, AskFacts
  <1>4. CASE srv.open /\ srv' = Turned(srv, m.q, "open") /\ toC' = toC
    <2>1. srv'.open = srv.open /\ srv'.input[m.q] = "open"
      <3> PICK d : d = Turned(srv, m.q, "open")
        OBVIOUS
      <3>1. d.open = srv.open /\ d.input[m.q] = "open"
        BY <1>0, <1>2, TurnedFacts
      <3> QED
        BY <1>4, <3>1
    <2>2. Wanted(m.q) => Kept(m.q)'
      <3>1. ASSUME Wanted(m.q)
            PROVE  Kept(m.q)'
        <4>1. ask[m.q] = "pending"
          BY <1>1, <1>2, <1>4, <3>1, KeptFacts DEF Kept
        <4>2. \A x \in Range(toC) : x.t # "resumed"
          BY LineFactsOf
        <4> QED
          BY <1>3, <1>4, <2>1, <4>1, <4>2 DEF Kept
      <3> QED
        BY <3>1
    <2> QED
      BY <1>0, <1>1, <1>2, <1>4, <2>2, AnswerTurned
  <1>5. CASE srv' = srv
    <2>1. ASSUME NEW z \in Asks, Wanted(z)'
          PROVE  Kept(z)'
      <3>1. Wanted(z) /\ Kept(z)
        BY <2>1, WantedBefore, KeptFacts
      <3>2. z \in answered =>
               /\ srv'.input[z] \in Served
               /\ srv'.input[z] = "done" => srv.input[z] = "done" \/ ask[z] = "answered"
               /\ ~srv'.open => srv'.input[z] = "done"
               /\ \A x \in Range(toC') : x.t = "result" /\ x.q = z => x \in Range(toC) \/ x.st = "answered"
        BY <1>3, <1>5, <3>1 DEF Kept
      <3>3. /\ srv'.open => srv.open
            /\ ask'[z] = ask[z] /\ (z \in answered' => z \in answered) /\ srv'.input[z] = srv.input[z]
            /\ \A x \in Range(toS') : x.t = "ask" => x \in Range(toS)
            /\ \A x \in Range(toC') : x.t = "resumed" => x \in Range(toC)
        BY <1>1, <1>5
      <3> QED
        BY <3>1, <3>2, <3>3, KeptFrame
    <2> QED
      BY <2>1, KeptStep
  <1> QED
    BY <1>4, <1>5

\* The server hears that a question is withdrawn, or that its answer arrived.
LEMMA AnswerHeard ==
    ASSUME TypeOK, AskInv, AnswerKept, toS # <<>>, NEW m, m = Head(toS), toS' = Tail(toS),
           \/ m.t = "cancel" /\ (srv' = srv \/ srv' = Turned(srv, m.q, "aborted"))
           \/ m.t = "ack" /\ (srv' = srv \/ srv' = Turned(srv, m.q, "done")),
           UNCHANGED <<toC, ask, answered, withdrawn, stopped>>
    PROVE  AnswerKept'
  <1>0. srv \in Sessions /\ toS \in Seq(ToServer) /\ {"aborted", "done"} \subseteq Inputs
    BY DEF TypeOK, Inputs
  <1>1. m \in Range(toS) /\ Range(toS') \subseteq Range(toS) /\ m \in ToServer
    BY <1>0, HeardOne
  <1>2. m.q \in Asks
    BY <1>1, ToServerKinds
  <1>3. CASE srv' = srv
    BY <1>1, <1>3, AnswerSame
  <1>4. CASE m.t = "cancel" /\ srv' = Turned(srv, m.q, "aborted")
    <2>1. m.q \in withdrawn
      BY <1>1, <1>4, AskFacts
    <2>2. Wanted(m.q) => Kept(m.q)'
      BY <2>1 DEF Wanted
    <2> QED
      BY <1>0, <1>1, <1>2, <1>4, <2>2, AnswerTurned
  <1>5. CASE m.t = "ack" /\ srv' = Turned(srv, m.q, "done")
    <2>1. ask[m.q] \in Settled
      BY <1>1, <1>5, AskFacts
    <2>2. srv'.open = srv.open /\ srv'.input[m.q] = "done"
      <3> PICK d : d = Turned(srv, m.q, "done")
        OBVIOUS
      <3>1. d.open = srv.open /\ d.input[m.q] = "done"
        BY <1>0, <1>2, TurnedFacts
      <3> QED
        BY <1>5, <3>1
    <2>3. Wanted(m.q) => Kept(m.q)'
      <3>1. ASSUME Wanted(m.q)
            PROVE  Kept(m.q)'
        <4>1. m.q \in answered => ask[m.q] = "answered"
          BY <1>2, <2>1, <3>1, KeptFacts DEF Kept, Settled
        <4> QED
          BY <1>1, <1>2, <2>2, <3>1, <4>1, KeptFrame DEF Served
      <3> QED
        BY <3>1
    <2> QED
      BY <1>0, <1>1, <1>2, <1>5, <2>3, AnswerTurned
  <1> QED
    BY <1>3, <1>4, <1>5

\* The link drops at the server.
LEMMA AnswerDrops ==
    ASSUME TypeOK, OpenInv, AskInv, AnswerKept, srv.link = "attached", srv' = Dropped(srv),
           UNCHANGED <<toC, toS, ask, answered, withdrawn, stopped>>
    PROVE  AnswerKept'
  <1>0. srv \in Sessions /\ srv.input \in [Asks -> Inputs] /\ srv.open \in BOOLEAN
    BY SrvFields DEF TypeOK
  <1>1. /\ srv'.open => /\ srv.open
                        /\ \A q \in Asks : srv'.input[q] = IF srv.input[q] = "unacked" THEN "outbox" ELSE srv.input[q]
        /\ ~srv'.open => /\ \A q \in Asks : srv'.input[q] = Ended(srv.input[q])
                         /\ srv.open => \A q \in Asks : srv.input[q] \in {"none", "outbox", "done"}
    <2> PICK d : d = Dropped(srv)
      OBVIOUS
    <2>1. /\ d.open => /\ srv.open
                       /\ \A q \in Asks : d.input[q] = IF srv.input[q] = "unacked" THEN "outbox" ELSE srv.input[q]
          /\ ~d.open => /\ \A q \in Asks : d.input[q] = Ended(srv.input[q])
                        /\ srv.open => \A q \in Asks : srv.input[q] \in {"none", "outbox", "done"}
      BY <1>0, DroppedFacts
    <2> QED
      BY <2>1
  <1>2. ASSUME NEW q \in Asks, Wanted(q)'
        PROVE  Kept(q)'
    <2>1. Wanted(q) /\ Kept(q)
      BY <1>2, WantedBefore, KeptFacts
    <2>2. srv.input[q] # "outbox"
      BY AskFacts
    <2>3. srv'.input[q] \in {"open", "answered"} => srv'.input[q] = srv.input[q]
      BY <1>0, <1>1, EndedStates
    <2>4. q \in answered => /\ srv'.input[q] \in Served
                            /\ srv'.input[q] = "done" => srv.input[q] = "done"
                            /\ ~srv'.open => srv'.input[q] = "done"
      <3>1. CASE srv'.open
        BY <1>1, <2>1, <3>1 DEF Kept, Served
      <3>2. CASE ~srv'.open
        <4>1. q \in answered => srv.input[q] = "done"
          BY <1>1, <2>1, <2>2, <3>2 DEF Kept, Served
        <4>2. srv'.input[q] = Ended(srv.input[q])
          BY <1>1, <3>2
        <4> QED
          BY <1>0, <4>1, <4>2, EndedStates DEF Served
      <3> QED
        BY <3>1, <3>2
    <2> QED
      BY <1>1, <2>1, <2>3, <2>4, KeptFrame
  <1> QED
    BY <1>2, KeptStep

\* The session is let go when nothing keeps it.
LEMMA AnswerReleases ==
    ASSUME TypeOK, AnswerKept, \A q \in Asks : srv.input[q] \in {"none", "done"}, srv' = Forgotten(srv),
           \A x \in Range(toC') : x.t \in {"result", "resumed"} => x \in Range(toC),
           UNCHANGED <<toS, ask, answered, withdrawn, stopped>>
    PROVE  AnswerKept'
  <1>0. srv \in Sessions /\ srv.input \in [Asks -> Inputs] /\ srv.open \in BOOLEAN
    BY SrvFields DEF TypeOK
  <1>1. srv'.open = FALSE /\ \A q \in Asks : srv'.input[q] = Ended(srv.input[q])
    <2> PICK d : d = Forgotten(srv)
      OBVIOUS
    <2>1. d.open = FALSE /\ \A q \in Asks : d.input[q] = Ended(srv.input[q])
      BY <1>0, ForgottenFacts
    <2> QED
      BY <2>1
  <1>2. ASSUME NEW q \in Asks, Wanted(q)'
        PROVE  Kept(q)'
    <2>1. Wanted(q) /\ Kept(q)
      BY <1>2, WantedBefore, KeptFacts
    <2>2. srv'.input[q] = srv.input[q]
      BY <1>0, <1>1, EndedStates
    <2>3. q \in answered => srv.input[q] = "done"
      BY <2>1 DEF Kept, Served
    <2>4. \A x \in Range(toC') : x.t = "resumed" => x \in Range(toC)
      OBVIOUS
    <2>5. q \in answered => \A x \in Range(toC') : x.t = "result" /\ x.q = q => x \in Range(toC) \/ x.st = "answered"
      OBVIOUS
    <2>6. q \in answered => /\ srv'.input[q] \in Served
                            /\ srv'.input[q] = "done" => srv.input[q] = "done"
                            /\ ~srv'.open => srv'.input[q] = "done"
      BY <2>2, <2>3 DEF Served
    <2> QED
      BY <1>1, <2>1, <2>2, <2>4, <2>5, <2>6, KeptFrame
  <1> QED
    BY <1>2, KeptStep

\* A client is back: of a session that is handed over.
LEMMA AnswerHanded ==
    ASSUME TypeOK, LineInv, OpenInv, AskInv, AnswerKept, toS # <<>>, NEW m \in ToServer, m = Head(toS), m.t = "resume",
           toS' = Tail(toS), NEW s, Found(s), HandsOver(m, s),
           UNCHANGED <<cl, has, ask, answered, withdrawn, stopped>>
    PROVE  AnswerKept'
  <1>0. /\ srv \in Sessions /\ s \in Sessions /\ m.named \in SUBSET Asks /\ cl \in Nat \ {0} /\ n \in Nat
        /\ srv.input \in [Asks -> Inputs]
    BY FoundFacts, ToServerKinds, Counted, SrvFields DEF TypeOK
  <1>1. toS' = <<>> /\ m.has = has /\ \A q \in Asks : has /\ ask[q] = "pending" => q \in m.named
    BY ResumeHeard
  <1>2. s.link = "suspended" /\ s.open /\ m.has /\ srv' = Handed(s, m.named)
    BY FoundFacts DEF HandsOver
  <1>3. /\ srv.open
        /\ \A q \in Asks : s.input[q] = IF srv.link = "attached" /\ srv.input[q] = "unacked" THEN "outbox"
                                        ELSE srv.input[q]
    BY <1>2, FoundFacts
  <1>4. /\ srv'.open
        /\ \A q \in Asks :
              srv'.input[q] = IF s.input[q] = "outbox" THEN IF q \in m.named THEN "unacked" ELSE "done"
                              ELSE IF q \notin m.named /\ s.input[q] \in {"open", "answered"} THEN "aborted"
                              ELSE s.input[q]
    <2> PICK d : d = Handed(s, m.named)
      OBVIOUS
    <2>1. /\ d.open = s.open
          /\ \A q \in Asks :
                d.input[q] = IF s.input[q] = "outbox" THEN IF q \in m.named THEN "unacked" ELSE "done"
                             ELSE IF q \notin m.named /\ s.input[q] \in {"open", "answered"} THEN "aborted"
                             ELSE s.input[q]
      BY <1>0, HandedFacts
    <2> QED
      BY <1>2, <2>1
  <1>5. /\ \A x \in Range(toC') : x.t = "resumed" => x.asks = m.named \cap (InInputs(s) \cup Again(s, m.named))
        /\ \A x \in Range(toC') : x.t = "result" =>
              x.q \in m.named /\ x.st = IF x.q \in answered THEN "answered" ELSE "cancelled"
    <2>1. /\ \A x \in Range(toC') : x.t = "resumed" => x.asks = m.named \cap (InInputs(s) \cup Again(s, m.named))
          /\ \A i \in 1 .. Len(toC') : toC'[i].t # "resumed" =>
                \/ toC'[i].t = "control"
                \/ toC'[i].q \in m.named /\ toC'[i].st = IF toC'[i].q \in answered THEN "answered" ELSE "cancelled"
          /\ toC' \in Seq(ToClient)
      BY <1>0, HandedLine
    <2> PICK c : c = toC'
      OBVIOUS
    <2>2. c \in Seq(ToClient)
      BY <2>1
    <2>3. \A x \in Range(c) : \E i \in 1 .. Len(c) : c[i] = x
      BY ONLY <2>2, LineFacts
    <2> QED
      BY <2>1, <2>3
  <1>6. ASSUME NEW q \in Asks, Wanted(q)'
        PROVE  Kept(q)'
    <2>1. Kept(q)
      BY <1>6, WantedBefore, KeptFacts
    <2>2. ask[q] = "pending" => q \in m.named
      BY <1>1, <1>2
    <2>3. srv'.input[q] \in {"open", "answered"} => srv.input[q] = srv'.input[q] /\ q \in m.named
      BY <1>3, <1>4
    <2>4. srv.input[q] = "answered" => srv'.input[q] = "answered" /\ q \in m.named
      BY <1>3, <1>4, <2>1, <2>2 DEF Kept
    <2>5. q \in answered => /\ srv'.input[q] \in Served
                            /\ srv'.input[q] = "done" => ask[q] = "answered"
      BY <1>3, <1>4, <2>1, <2>2, <2>4 DEF Kept, Served
    <2>6. \A x \in Range(toS') : FALSE
      BY <1>1, EmptyLine
    <2>7. ASSUME ask[q] = "pending", q \in answered \/ srv'.input[q] \in {"open", "answered"}
          PROVE  q \in m.named \cap (InInputs(s) \cup Again(s, m.named))
      <3>1. q \in m.named
        BY <2>2, <2>7
      <3>2. s.input[q] \in {"open", "answered", "outbox"}
        <4>1. CASE q \in answered
          <5>1. srv.input[q] \in {"answered", "unacked", "outbox"}
            BY <2>1, <2>7, <4>1 DEF Kept, Served
          <5>2. srv.input[q] = "unacked" => srv.link = "attached"
            BY AskFacts
          <5> QED
            BY <1>3, <5>1, <5>2
        <4>2. CASE srv'.input[q] \in {"open", "answered"}
          BY <1>3, <2>3, <4>2
        <4> QED
          BY <2>7, <4>1, <4>2
      <3> QED
        BY <3>1, <3>2 DEF InInputs, Again
    <2>8. srv'.input[q] \in {"open", "answered"} => ask[q] = "pending"
      BY <2>1, <2>3 DEF Kept
    <2>9. q \in answered => \A x \in Range(toC') : x.t = "result" /\ x.q = q => x.st = "answered"
      BY <1>5
    <2>10. q \in answered => ask[q] \in {"pending", "answered"}
      BY <2>1 DEF Kept
    <2> QED
      BY <1>4, <1>5, <2>5, <2>6, <2>7, <2>8, <2>9, <2>10 DEF Kept
  <1> QED
    BY <1>6, KeptStep

LEMMA AnswerResume ==
    ASSUME TypeOK, LineInv, OpenInv, AskInv, AnswerKept, toS # <<>>, NEW m \in ToServer, m = Head(toS), m.t = "resume",
           toS' = Tail(toS), NEW s, Found(s), Refuses(m) \/ HandsOver(m, s) \/ Starts(m, s),
           UNCHANGED <<cl, has, ask, answered, withdrawn, stopped>>
    PROVE  AnswerKept'
  <1>0. srv \in Sessions /\ srv.open \in BOOLEAN /\ srv.input \in [Asks -> Inputs]
    BY SrvFields DEF TypeOK
  <1>1. toC = <<>> /\ toS' = <<>> /\ m.has = has
    BY ResumeHeard
  <1>2. Range(toS') = {}
    BY <1>1, EmptyLine
  <1>3. CASE Refuses(m)
    <2>1. srv' = srv
      BY <1>3 DEF Refuses
    <2> PICK x \in ToClient : x.t = "refused" /\ toC' = <<x>>
      BY <1>3 DEF Refuses
    <2>2. \A y \in Range(toC') : y.t = "refused"
      BY DEF Range
    <2> QED
      BY <1>2, <2>1, <2>2, AnswerSame
  <1>4. CASE Starts(m, s)
    <2>0. s \in Sessions /\ s.input \in [Asks -> Inputs]
      BY FoundFacts, SrvFields
    <2>1. ~s.open
      <3>1. srv.open => has
        BY OpenFacts
      <3>2. s.open => srv.open /\ s.link = "suspended"
        BY FoundFacts
      <3> QED
        BY <1>1, <1>4, <3>1, <3>2 DEF Starts
    <2>2. /\ \A q \in Asks : s.input[q] = srv.input[q] \/ s.input[q] = Ended(srv.input[q])
          /\ srv.open => srv.link = "attached" /\ \A q \in Asks : srv.input[q] \in {"none", "outbox", "done"}
      BY <2>1, FoundFacts
    <2>3. srv'.open = FALSE /\ \A q \in Asks : srv'.input[q] = Ended(s.input[q])
      BY <1>4 DEF Starts
    <2> PICK x \in ToClient : x.t = "resumed" /\ toC' = <<x>>
      BY <1>4 DEF Starts
    <2>4. \A y \in Range(toC') : y.t = "resumed"
      BY DEF Range
    <2>5. ASSUME NEW q \in Asks, Wanted(q)'
          PROVE  Kept(q)'
      <3>1. Kept(q)
        BY <2>5, WantedBefore, KeptFacts
      <3>2. srv.input[q] = "outbox" => srv.link = "suspended"
        BY AskFacts
      <3>3. q \in answered => srv.input[q] = "done" /\ ask[q] = "answered"
        BY <1>0, <2>2, <3>1, <3>2 DEF Kept, Served
      <3>4. q \in answered => srv'.input[q] = "done"
        <4>1. q \in answered => s.input[q] = "done"
          BY <1>0, <2>2, <3>3, EndedStates
        <4> QED
          BY <2>0, <2>3, <4>1, EndedStates
      <3>5. srv'.input[q] \notin {"open", "answered"}
        BY <2>0, <2>3, EndedStates
      <3> QED
        BY <1>2, <2>3, <2>4, <3>3, <3>4, <3>5 DEF Kept, Served
    <2> QED
      BY <2>5, KeptStep
  <1> QED
    BY <1>3, <1>4, AnswerHanded

\* The client hears a result.
LEMMA AnswerResult ==
    ASSUME TypeOK, LineInv, AskInv, AnswerKept, toC # <<>>, NEW m, m = Head(toC), toC' = Tail(toC), m.t = "result",
           \A q \in Asks : ask'[q] = IF q = m.q /\ ask[q] = "pending" THEN m.st ELSE ask[q],
           \A x \in Range(toS') : x.t = "ask" => x \in Range(toS),
           UNCHANGED <<srv, answered, withdrawn, stopped>>
    PROVE  AnswerKept'
  <1>1. m \in ToClient /\ m \in Range(toC) /\ \A x \in Range(toC') : x \in Range(toC) /\ x.t # "resumed"
    BY ClientHeard
  <1>2. /\ m.q \in Asks /\ srv.input[m.q] \notin {"open", "answered"}
        /\ \A x \in Range(toS) : x.t = "ask" => x.q # m.q
    BY <1>1, ToClientKinds, AskFacts
  <1>3. ASSUME NEW q \in Asks, Wanted(q)'
        PROVE  Kept(q)'
    <2>1. Wanted(q) /\ Kept(q)
      BY <1>3, WantedBefore, KeptFacts
    <2>2. CASE q # m.q
      <3>1. ask'[q] = ask[q]
        BY <2>2
      <3> QED
        BY <1>1, <2>1, <3>1, KeptSame
    <2>3. CASE q = m.q
      <3>1. q \in answered => m.st = "answered"
        BY <1>1, <2>1, <2>3 DEF Kept
      <3>2. q \in answered => /\ ask'[q] = "answered"
                              /\ \A x \in Range(toC') : x.t = "result" /\ x.q = q => x.st = "answered"
                              /\ srv.input[q] \in Served /\ (~srv.open => srv.input[q] = "done")
        BY <1>1, <2>1, <2>3, <3>1 DEF Kept
      <3> QED
        BY <1>1, <1>2, <2>3, <3>2 DEF Kept
    <2> QED
      BY <2>2, <2>3
  <1> QED
    BY <1>3, KeptStep

\* The client hears that its session goes on, or does not.
LEMMA AnswerResumed ==
    ASSUME TypeOK, LineInv, AskInv, AnswerKept, toC # <<>>, NEW m, m = Head(toC), toC' = Tail(toC), m.t = "resumed",
           \A q \in Asks : ask'[q] = IF ask[q] = "pending" /\ q \notin m.asks THEN "cancelled" ELSE ask[q],
           \A x \in Range(toS') : x.t = "ask" => x \in Range(toS),
           UNCHANGED <<srv, answered, withdrawn, stopped>>
    PROVE  AnswerKept'
  <1>1. m \in Range(toC) /\ toS = <<>> /\ \A x \in Range(toC') : x \in Range(toC) /\ x.t # "resumed"
    BY ClientHeard
  <1>2. \A x \in Range(toS') : x.t # "ask"
    BY <1>1, EmptyLine
  <1>3. ASSUME NEW q \in Asks, Wanted(q)'
        PROVE  Kept(q)'
    <2>1. Wanted(q) /\ Kept(q)
      BY <1>3, WantedBefore, KeptFacts
    <2>2. CASE q \in answered \/ srv.input[q] \in {"open", "answered"}
      <3>1. ask'[q] = ask[q]
        BY <1>1, <2>1, <2>2 DEF Kept
      <3> QED
        BY <1>1, <2>1, <3>1, KeptSame
    <2>3. CASE q \notin answered /\ srv.input[q] \notin {"open", "answered"}
      BY <1>2, <2>3, KeptIdle
    <2> QED
      BY <2>2, <2>3
  <1> QED
    BY <1>3, KeptStep

\* The client hears that nothing resumes.
LEMMA AnswerRefused ==
    ASSUME TypeOK, LineInv, OpenInv, AnswerKept, toC # <<>>, NEW m, m = Head(toC), toC' = Tail(toC), m.t = "refused",
           \A q \in Asks : ask'[q] = IF ask[q] = "pending" THEN "cancelled" ELSE ask[q],
           UNCHANGED <<toS, srv, answered, withdrawn, stopped>>
    PROVE  AnswerKept'
  <1>1. m \in Range(toC) /\ \A x \in Range(toC') : x \in Range(toC) /\ x.t # "resumed"
    BY ClientHeard
  <1>2. ~srv.open /\ \A q \in Asks : srv.input[q] \notin {"open", "answered"}
    BY <1>1, OpenFacts
  <1>3. ASSUME NEW q \in Asks, Wanted(q)'
        PROVE  Kept(q)'
    <2>1. Wanted(q) /\ Kept(q)
      BY <1>3, WantedBefore, KeptFacts
    <2>2. CASE q \in answered
      <3>1. ask'[q] = ask[q]
        BY <1>2, <2>1, <2>2 DEF Kept
      <3> QED
        BY <1>1, <2>1, <3>1, KeptSame
    <2>3. CASE q \notin answered
      BY <1>2, <2>3, KeptIdle
    <2> QED
      BY <2>2, <2>3
  <1> QED
    BY <1>3, KeptStep

-----------------------------------------------------------------------------
(* Every step keeps all of them.                                           *)

LinkInd == /\ TypeOK /\ LineInv /\ OpenInv /\ HeardInv /\ EndInv
           /\ StopKept /\ ResumedKept /\ AskInv /\ WaitKept /\ AnswerKept

\* What a line that is left alone, or only grows, means to most of the lemmas.
LEMMA SameLines ==
    ASSUME TypeOK, toC' = toC, toS' = toS
    PROVE  /\ CGrows(NewsC) /\ SGrows(NewsS) /\ SendsLast
           /\ \A x \in Range(toC') : x \in Range(toC)
           /\ \A x \in Range(toC) : x \in Range(toC')
           /\ \A x \in Range(toS') : x \in Range(toS)
           /\ \A x \in Range(toS) : x \in Range(toS')
           /\ AskedOnce => AskedOnce'
  <1>1. AskedOnce => AskedOnce'
    BY DEF AskedOnce
  <1> QED
    BY <1>1 DEF CGrows, SGrows, SendsLast

LEMMA OwedAsBefore ==
    ASSUME srv'.owed = srv.owed, srv'.held = srv.held, NEW p, NEW r, Stands(p, r)
    PROVE  Stands(p, r)'
  BY DEF Stands

\* A turn ends, or nothing changes.
LEMMA IndSame ==
    ASSUME LinkInd, TypeOK',
           UNCHANGED <<srv, runs, cl, up, toC, toS, cst, has, crun, doing, ask, withdrawn, answered, stopped,
                       aim, told, heardTo, resumedTo, resumedBy>>
    PROVE  LinkInd'
  <1>0. /\ TypeOK /\ LineInv /\ OpenInv /\ HeardInv /\ EndInv
        /\ StopKept /\ ResumedKept /\ AskInv /\ WaitKept /\ AnswerKept
    BY DEF LinkInd
  <1>1. /\ CGrows(NewsC) /\ SGrows(NewsS) /\ SendsLast
        /\ \A x \in Range(toC') : x \in Range(toC)
        /\ \A x \in Range(toC) : x \in Range(toC')
        /\ \A x \in Range(toS') : x \in Range(toS)
        /\ \A x \in Range(toS) : x \in Range(toS')
    BY <1>0, SameLines
  <1>2. AskedOnce'
    BY <1>0, SameLines, AskFacts
  <1>3. n' = n /\ n \in Nat /\ ToldOn
    <2>1. ToldOn
      BY ToldSame
    <2>2. n \in Nat
      BY <1>0, Counted
    <2> QED
      BY <2>1, <2>2 DEF ToldOn
  <1>4. LineInv'
    <2>1. LineStep
      BY <1>1 DEF LineStep
    <2> QED
      BY <1>0, <2>1, LineFrame, LineFactsOf
  <1>5. OpenInv'
    BY <1>0, <1>1, OpenFrame
  <1>6. HeardInv'
    BY <1>0, <1>1, <1>3, HeardFrame, HeardFacts
  <1>7. EndInv'
    BY <1>0, <1>1, EndStep
  <1>8. StopKept'
    <2>1. \A r \in Runs : heardTo[r] \in Nat /\ resumedTo[r] \in Nat
      BY <1>0 DEF TypeOK
    <2> QED
      BY <1>0, <1>3, <2>1, StopFrame
  <1>9. ResumedKept'
    BY <1>0, ResumedStep
  <1>10. AskInv'
    <2>1. InputsGo
      BY <1>0, SameGo
    <2>2. AsksGo
      BY DEF AsksGo
    <2> QED
      BY <1>0, <1>1, <1>2, <2>1, <2>2, AskFrame
  <1>11. WaitKept'
    BY <1>0, <1>1, WaitFrame
  <1>12. AnswerKept'
    BY <1>0, <1>1, AnswerSame
  <1> QED
    BY <1>4, <1>5, <1>6, <1>7, <1>8, <1>9, <1>10, <1>11, <1>12 DEF LinkInd

\* The server notices that the network failed.
LEMMA ServerNoticesKeeps ==
    ASSUME LinkInd, ServerNotices
    PROVE  LinkInd'
  <1>0. /\ TypeOK /\ LineInv /\ OpenInv /\ HeardInv /\ EndInv
        /\ StopKept /\ ResumedKept /\ AskInv /\ WaitKept /\ AnswerKept
    BY DEF LinkInd
  <1>1. /\ TypeOK' /\ ToldOn /\ srv' = Dropped(srv) /\ srv.link = "attached" /\ ~(up /\ srv.home = cl)
        /\ UNCHANGED <<runs, answered, stopped, aim, heardTo, resumedTo, resumedBy, load>>
        /\ UNCHANGED <<cl, up, toC, toS, cst, has, crun, doing, ask, withdrawn>>
    BY <1>0, ServerNoticesFx
  <1>2. /\ CGrows(NewsC) /\ SGrows(NewsS) /\ SendsLast
        /\ \A x \in Range(toC') : x \in Range(toC)
        /\ \A x \in Range(toS') : x \in Range(toS)
    BY <1>0, <1>1, SameLines
  <1>3. /\ srv'.home = srv.home /\ srv'.owed = {} /\ srv'.waits = {} /\ srv'.late = {}
        /\ srv'.open => /\ srv.open /\ srv'.link = "suspended"
                        /\ \A r \in Runs :
                              (\E o \in srv.owed : Covers(o.run, r)) \/ (\E t \in srv.held : Covers(t, r))
                              => \E t \in srv'.held : Covers(t, r)
        /\ ~srv'.open => srv'.link = "closed" /\ \A q \in Asks : srv'.input[q] = Ended(srv.input[q])
    <2>0. srv \in Sessions
      BY <1>0 DEF TypeOK
    <2> PICK d : d = Dropped(srv)
      OBVIOUS
    <2>1. /\ d.home = srv.home /\ d.owed = {} /\ d.waits = {} /\ d.late = {}
          /\ d.open => /\ srv.open /\ d.link = "suspended"
                       /\ \A r \in Runs :
                             (\E o \in srv.owed : Covers(o.run, r)) \/ (\E t \in srv.held : Covers(t, r))
                             => \E t \in d.held : Covers(t, r)
          /\ ~d.open => d.link = "closed" /\ \A q \in Asks : d.input[q] = Ended(srv.input[q])
      BY <1>1, <2>0, DroppedFacts
    <2> QED
      BY <1>1, <2>1
  <1>4. LineInv'
    <2>1. LineStep
      BY <1>1, <1>2, <1>3 DEF LineStep
    <2> QED
      BY <1>0, <1>1, <2>1, LineFrame
  <1>5. OpenInv'
    <2>1. srv'.open \in BOOLEAN /\ srv.input \in [Asks -> Inputs]
      BY <1>0, <1>1 DEF TypeOK, Sessions
    <2>2. ~srv'.open => \A q \in Asks : srv'.input[q] \notin {"open", "answered"}
      BY <1>3, <2>1, EndedStates
    <2>3. srv'.open => srv.open /\ srv'.link # "closed" /\ has'
      BY <1>0, <1>1, <1>3, OpenFacts
    <2>4. srv'.link = "suspended" => srv'.open
      BY <1>3
    <2> QED
      BY <1>0, <1>2, <1>3, <2>2, <2>3, <2>4, OpenStep
  <1>6. HeardInv'
    <2>1. n' = n /\ n \in Nat
      BY <1>0, <1>1, Counted DEF ToldOn
    <2>2. \A r \in Runs : resumedTo'[r] <= n' /\ resumedBy'[r] <= n'
      BY <1>0, <1>1, <2>1, HeardFacts
    <2> QED
      BY <1>0, <1>1, <1>2, <1>3, <2>1, <2>2, HeardFrame
  <1>7. EndInv'
    BY <1>0, <1>1, <1>2, EndStep
  <1>8. StopKept'
    <2>1. \A r \in Runs : heardTo[r] \in Nat /\ resumedTo[r] \in Nat
      BY <1>0 DEF TypeOK
    <2>2. srv'.open => \A p \in 1 .. n : \A r \in aim[p] : Stands(p, r) => Stands(p, r)'
      <3>1. ASSUME srv'.open, NEW p \in 1 .. n, NEW r \in aim[p], Stands(p, r)
            PROVE  Stands(p, r)'
        <4>1. r \in Runs
          BY <1>0, <3>1, Counted
        <4>2. (\E o \in srv.owed : Covers(o.run, r)) \/ (\E t \in srv.held : Covers(t, r))
          BY <3>1 DEF Stands
        <4>3. \E t \in srv'.held : Covers(t, r)
          BY <1>3, <3>1, <4>1, <4>2
        <4> QED
          BY <4>3 DEF Stands, Covers
      <3> QED
        BY <3>1
    <2> QED
      BY <1>0, <1>1, <1>3, <2>1, <2>2, StopStep
  <1>9. ResumedKept'
    BY <1>0, <1>3, ResumedStep
  <1>10. AskInv'
    <2>1. InputsGo
      BY <1>0, <1>1, DroppedGo
    <2>2. AsksGo
      BY <1>1 DEF AsksGo
    <2>3. AskedOnce'
      BY <1>0, <1>1, SameLines, AskFacts
    <2> QED
      BY <1>0, <1>1, <1>2, <2>1, <2>2, <2>3, AskFrame
  <1>11. WaitKept'
    BY <1>1, <1>3, WaitNone
  <1>12. AnswerKept'
    BY <1>0, <1>1, AnswerDrops
  <1> QED
    BY <1>1, <1>4, <1>5, <1>6, <1>7, <1>8, <1>9, <1>10, <1>11, <1>12 DEF LinkInd

\* The session ends at the server.
LEMMA SessionEnds ==
    ASSUME LinkInd, TypeOK', ToldOn, srv'.home = srv.home, srv'.open = FALSE, srv'.link # "suspended",
           srv'.owed = {}, srv'.waits = {}, srv'.late = {}, \A q \in Asks : srv'.input[q] = Ended(srv.input[q]),
           CGrows({"destroy", "refused"}),
           up /\ srv.home = cl /\ srv'.link # "attached" => cst = "gone" \/ OnWay(toC', "refused") # {},
           UNCHANGED <<runs, heardTo, resumedTo, resumedBy>>,
           UNCHANGED <<cl, up, toS, cst, has, crun, doing, ask, withdrawn, answered>>,
           AnswerKept'
    PROVE  LinkInd'
  <1>0. /\ TypeOK /\ LineInv /\ OpenInv /\ HeardInv /\ EndInv
        /\ StopKept /\ ResumedKept /\ AskInv /\ WaitKept /\ AnswerKept
    BY DEF LinkInd
  <1>1. /\ srv \in Sessions /\ srv.input \in [Asks -> Inputs] /\ srv'.link \in {"attached", "suspended", "closed"}
        /\ toC \in Seq(ToClient) /\ n \in Nat
    BY <1>0, SrvFields, Counted DEF TypeOK, Sessions
  <1>2. n' = n
    BY DEF ToldOn
  <1>3. /\ \A x \in Range(toC) : x \in Range(toC')
        /\ \A x \in Range(toC') : x \in Range(toC) \/ x.t \in {"destroy", "refused"}
    <2>1. \A x \in Range(toC) : x \in Range(toC')
      BY <1>1, CGrowsFacts
    <2>2. \A x \in Range(toC') : x \notin Range(toC) => x.t \in {"destroy", "refused"}
      BY <1>1, CGrowsFacts
    <2> QED
      BY <2>1, <2>2
  <1>4. LineInv'
    <2>1. CGrows(NewsC)
      <3>1. ASSUME NEW m \in ToClient, m.t \in {"destroy", "refused"}
            PROVE  m.t \in NewsC
        BY <3>1 DEF NewsC
      <3> QED
        BY <3>1 DEF CGrows
    <2>2. LineStep
      BY <2>1 DEF LineStep, SGrows
    <2> QED
      BY <1>0, <1>1, <2>2, LineFrame
  <1>5. OpenInv'
    BY <1>0, <1>1, OpenEnds
  <1>6. HeardInv'
    <2>1. SendsLast
      BY SendsNoControl
    <2>2. \A r \in Runs : resumedTo'[r] <= n' /\ resumedBy'[r] <= n'
      BY <1>0, <1>2, HeardFacts
    <2> QED
      BY <1>0, <1>1, <1>2, <2>1, <2>2, HeardFrame
  <1>7. EndInv'
    BY <1>0, EndStep
  <1>8. StopKept'
    <2>1. \A r \in Runs : heardTo[r] \in Nat /\ resumedTo[r] \in Nat
      BY <1>0 DEF TypeOK
    <2> QED
      BY <1>0, <2>1, StopFrame
  <1>9. ResumedKept'
    BY <1>0, ResumedStep
  <1>10. AskInv'
    <2>1. InputsGo
      BY <1>0, EndedGo
    <2>2. AsksGo
      BY DEF AsksGo
    <2>3. AskedOnce'
      BY <1>0, AskFacts DEF AskedOnce
    <2>4. \A y \in Range(toC') : y.t = "result" => y \in Range(toC)
      BY <1>3
    <2> QED
      BY <1>0, <2>1, <2>2, <2>3, <2>4, AskFrame
  <1>11. WaitKept'
    <2>1. \A q \in Asks : srv.input[q] \in Asking => srv'.input[q] \in Asking
      BY <1>1, EndedStates DEF Asking
    <2>2. \A x \in Range(toC') : x.t = "resumed" => x \in Range(toC)
      BY <1>3
    <2> QED
      BY <1>0, <1>3, <2>1, <2>2, WaitFrame
  <1> QED
    BY <1>4, <1>5, <1>6, <1>7, <1>8, <1>9, <1>10, <1>11 DEF LinkInd

\* The document's ownership is ended.
LEMMA EndKeeps ==
    ASSUME LinkInd, End
    PROVE  LinkInd'
  <1>0. TypeOK /\ LineInv /\ srv \in Sessions
    BY DEF LinkInd, TypeOK
  <1>1. /\ TypeOK' /\ ToldOn /\ srv' = Closed(srv) /\ stopped' = TRUE /\ CGrows({"refused"})
        /\ Carried(srv) => OnWay(toC', "refused") # {}
        /\ UNCHANGED <<runs, cl, up, toS, client, answered, aim, heardTo, resumedTo, resumedBy, load>>
        /\ UNCHANGED <<cst, has, crun, doing, ask, withdrawn>>
    BY <1>0, EndFx
  <1>2. /\ srv'.home = srv.home /\ srv'.open = FALSE /\ srv'.link = "closed"
        /\ srv'.owed = {} /\ srv'.waits = {} /\ srv'.late = {}
        /\ \A q \in Asks : srv'.input[q] = Ended(srv.input[q])
    <2> PICK d : d = Closed(srv)
      OBVIOUS
    <2>1. /\ d.home = srv.home /\ d.open = FALSE /\ d.link = "closed"
          /\ d.owed = {} /\ d.waits = {} /\ d.late = {}
          /\ \A q \in Asks : d.input[q] = Ended(srv.input[q])
      BY <1>0, ClosedFacts
    <2> QED
      BY <1>1, <2>1
  <1>3. CGrows({"destroy", "refused"})
    BY <1>1 DEF CGrows
  <1>4. up /\ srv.home = cl => cst = "gone" \/ OnWay(toC', "refused") # {}
    <2>1. ASSUME up, srv.home = cl, srv.link # "attached"
          PROVE  cst = "gone" \/ OnWay(toC', "refused") # {}
      <3>1. cst = "gone" \/ OnWay(toC, "refused") # {}
        BY <1>0, <2>1, LineFactsOf
      <3>2. \A x \in Range(toC) : x \in Range(toC')
        <4>1. toC \in Seq(ToClient)
          BY <1>0 DEF TypeOK
        <4> QED
          BY <1>1, <4>1, CGrowsFacts
      <3> QED
        BY <3>1, <3>2 DEF OnWay
    <2> QED
      BY <1>1, <2>1 DEF Carried
  <1>5. AnswerKept'
    <2>1. \A q \in Asks : Wanted(q)' => Kept(q)'
      BY <1>1 DEF Wanted
    <2> QED
      BY <2>1, KeptStep
  <1> QED
    BY <1>1, <1>2, <1>3, <1>4, <1>5, SessionEnds

\* The session is released, or its question is stopped.
LEMMA LetGoKeeps ==
    ASSUME LinkInd, NEW b \in BOOLEAN, LetGo(b), srv.open, b \/ \A q \in Asks : srv.input[q] \in {"none", "done"}
    PROVE  LinkInd'
  <1>0. TypeOK /\ LineInv /\ OpenInv /\ AnswerKept /\ srv \in Sessions /\ stopped \in BOOLEAN /\ toC \in Seq(ToClient)
    BY DEF LinkInd, TypeOK
  <1>1. /\ TypeOK' /\ ToldOn /\ srv' = Forgotten(srv) /\ stopped' = (stopped \/ b) /\ CGrows({"destroy"})
        /\ UNCHANGED <<runs, cl, up, toS, answered, aim, heardTo, resumedTo, resumedBy, load>>
        /\ UNCHANGED <<cst, has, crun, doing, ask, withdrawn>>
    BY <1>0, LetGoFx
  <1>2. /\ srv'.home = srv.home /\ srv'.open = FALSE
        /\ srv'.link = IF srv.link = "suspended" THEN "closed" ELSE srv.link
        /\ srv'.owed = {} /\ srv'.waits = {} /\ srv'.late = {}
        /\ \A q \in Asks : srv'.input[q] = Ended(srv.input[q])
    <2> PICK d : d = Forgotten(srv)
      OBVIOUS
    <2>1. /\ d.home = srv.home /\ d.open = FALSE
          /\ d.link = IF srv.link = "suspended" THEN "closed" ELSE srv.link
          /\ d.owed = {} /\ d.waits = {} /\ d.late = {}
          /\ \A q \in Asks : d.input[q] = Ended(srv.input[q])
      <3>1. srv \in Sessions /\ d = Forgotten(srv)
        BY <1>0
      <3> QED
        BY ONLY <3>1, ForgottenFacts
    <2> QED
      BY <1>1, <2>1
  <1>3. CGrows({"destroy", "refused"})
    BY <1>1 DEF CGrows
  <1>4. up /\ srv.home = cl => srv'.link = "attached"
    <2>1. srv.link # "closed"
      BY <1>0, OpenFacts
    <2>2. up /\ srv.home = cl => srv.link = "attached"
      BY <1>0, <2>1, LineFactsOf
    <2> QED
      BY <1>2, <2>2
  <1>5. AnswerKept'
    <2>1. CASE b
      <3>1. \A q \in Asks : Wanted(q)' => Kept(q)'
        BY <1>1, <2>1 DEF Wanted
      <3> QED
        BY <3>1, KeptStep
    <2>2. CASE ~b
      <3>1. stopped' = stopped
        BY <1>0, <1>1, <2>2
      <3>2. \A q \in Asks : srv.input[q] \in {"none", "done"}
        BY <2>2
      <3>3. \A x \in Range(toC') : x.t \in {"result", "resumed"} => x \in Range(toC)
        <4>1. \A x \in Range(toC') : x \notin Range(toC) => x.t \in {"destroy"}
          BY <1>0, <1>1, CGrowsFacts
        <4> QED
          BY <4>1
      <3> QED
        BY <1>0, <1>1, <3>1, <3>2, <3>3, AnswerReleases
    <2> QED
      BY <2>1, <2>2
  <1>6. srv'.link # "suspended"
    BY <1>2
  <1> QED
    BY <1>1, <1>2, <1>3, <1>4, <1>5, <1>6, SessionEnds

\* What is sent of some kinds is sent of more.
LEMMA GrowsMore ==
    ASSUME NEW T, NEW S, T \subseteq S
    PROVE  (CGrows(T) => CGrows(S)) /\ (SGrows(T) => SGrows(S))
  BY DEF CGrows, SGrows

\* A step that leaves the session and its link where they are.
LEMMA LinkStays ==
    ASSUME TypeOK, LineInv, OpenInv, TypeOK', LineStep, UNCHANGED has,
           srv'.link = srv.link, srv'.open = srv.open, srv.link # "attached" => srv'.owed = srv.owed,
           ~srv.open => \A q \in Asks : srv'.input[q] \in {"open", "answered"} => srv.input[q] \in {"open", "answered"},
           cst # "on" => \A q \in Asks : ask'[q] = "pending" => ask[q] = "pending",
           \A x \in Range(toC') : x \in Range(toC) \/ x.t \in {"control", "result"}
    PROVE  LineInv' /\ OpenInv'
  <1>1. up /\ srv.home = cl /\ srv'.link # "attached" =>
              srv'.link = "closed" /\ (cst = "gone" \/ OnWay(toC', "refused") # {})
    <2>1. toC \in Seq(ToClient)
      BY DEF TypeOK
    <2>2. \A x \in Range(toC) : x \in Range(toC')
      BY <2>1, CGrowsFacts DEF LineStep
    <2>3. OnWay(toC, "refused") # {} => OnWay(toC', "refused") # {}
      BY <2>2 DEF OnWay
    <2> QED
      BY <2>3, LineFactsOf
  <1>2. LineInv'
    BY <1>1, LineFrame
  <1>3. OpenInv'
    BY OpenFrame
  <1> QED
    BY <1>2, <1>3

\* A Stop or Resume is pressed.
LEMMA PressKeeps ==
    ASSUME LinkInd, TypeOK', n' = n + 1, srv.open, srv'.home = srv.home, srv'.link = srv.link, srv'.open = srv.open,
           srv'.input = srv.input, srv.link # "attached" => srv'.owed = srv.owed, CGrows({"control"}),
           NEW w \in Requests, w.at = n + 1, srv'.waits \subseteq srv.waits \cup {w}, srv'.late = srv.late,
           \A o \in srv'.owed : o \in srv.owed \/ o.at = n + 1,
           toC' = toC \/ toC' = toC \o <<[t |-> "control", w |-> w]>>,
           UNCHANGED <<runs, cl, up, toS, answered, stopped, heardTo, resumedTo, resumedBy>>,
           UNCHANGED <<cst, has, crun, doing, ask, withdrawn>>, StopKept'
    PROVE  LinkInd'
  <1>0. /\ TypeOK /\ LineInv /\ OpenInv /\ HeardInv /\ EndInv
        /\ StopKept /\ ResumedKept /\ AskInv /\ WaitKept /\ AnswerKept
    BY DEF LinkInd
  <1>1. n \in Nat /\ toC \in Seq(ToClient) /\ n' \in Nat
    BY <1>0, Counted DEF TypeOK
  <1>2. /\ CGrows(NewsC) /\ SGrows(NewsS)
        /\ \A x \in Range(toC') : x \in Range(toC) \/ x.t = "control"
        /\ \A x \in Range(toC) : x \in Range(toC')
    <2>1. CGrows(NewsC)
      BY GrowsMore DEF NewsC
    <2>2. \A x \in Range(toC) : x \in Range(toC')
      BY <1>1, CGrowsFacts
    <2>3. \A x \in Range(toC') : x \notin Range(toC) => x.t \in {"control"}
      BY <1>1, CGrowsFacts
    <2> QED
      BY <2>1, <2>2, <2>3 DEF SGrows
  <1>3. LineInv' /\ OpenInv'
    <2>1. LineStep
      BY <1>2 DEF LineStep
    <2>2. \A x \in Range(toC') : x \in Range(toC) \/ x.t \in {"control", "result"}
      BY <1>2
    <2> QED
      BY <1>0, <2>1, <2>2, LinkStays
  <1>4. HeardInv'
    <2>1. SendsLast
      <3> PICK m : m = [t |-> "control", w |-> w]
        OBVIOUS
      <3>1. m \in ToClient /\ m.t = "control" /\ m.w = w
        BY ControlSent
      <3>2. n <= m.w.at /\ m.w.at <= n'
        BY <1>1, <3>1
      <3>3. toC' = toC \/ toC' = toC \o <<m>>
        OBVIOUS
      <3> QED
        BY <3>1, <3>2, <3>3 DEF SendsLast
    <2>2. \A r \in Runs : resumedTo'[r] <= n' /\ resumedBy'[r] <= n'
      <3>1. \A r \in Runs : resumedTo[r] \in Nat /\ resumedBy[r] \in Nat
        BY <1>0 DEF TypeOK
      <3> QED
        BY <1>0, <1>1, <3>1, HeardFacts
    <2>3. \A x \in srv'.owed \cup srv'.waits \cup srv'.late :
             x \in srv.owed \cup srv.waits \cup srv.late \/ x.at <= n'
      BY <1>1
    <2>4. n <= n'
      BY <1>1
    <2> QED
      BY <1>0, <2>1, <2>2, <2>3, <2>4, HeardFrame
  <1>5. EndInv'
    BY <1>0, EndStep
  <1>6. ResumedKept'
    <2>1. ASSUME NEW o \in srv'.owed, o.at = n + 1, NEW r \in Runs
          PROVE  resumedBy'[r] <= o.at
      <3>1. resumedBy[r] \in Nat
        BY <1>0 DEF TypeOK
      <3> QED
        BY <1>0, <1>1, <2>1, <3>1, HeardFacts
    <2> QED
      BY <1>0, <2>1, ResumedStep
  <1>7. AskInv'
    <2>1. InputsGo
      BY <1>0, SameGo
    <2>2. AsksGo
      BY DEF AsksGo
    <2>3. AskedOnce'
      BY <1>0, AskFacts DEF AskedOnce
    <2>4. \A y \in Range(toC') : y.t = "result" => y \in Range(toC)
      BY <1>2
    <2> QED
      BY <1>0, <2>1, <2>2, <2>3, <2>4, AskFrame
  <1>8. WaitKept'
    <2>1. \A x \in Range(toC') : x.t = "resumed" => x \in Range(toC)
      BY <1>2
    <2> QED
      BY <1>0, <1>2, <2>1, WaitFrame
  <1>9. AnswerKept'
    <2>1. \A x \in Range(toC') : x.t \in {"result", "resumed"} => x \in Range(toC)
      BY <1>2
    <2> QED
      BY <1>0, <2>1, AnswerSame
  <1> QED
    BY <1>3, <1>4, <1>5, <1>6, <1>7, <1>8, <1>9 DEF LinkInd

LEMMA StopKeeps ==
    ASSUME LinkInd, NEW t \in Targets, Stop(t)
    PROVE  LinkInd'
  <1>0. TypeOK /\ OpenInv /\ StopKept
    BY DEF LinkInd
  <1>1. /\ TypeOK' /\ srv.open /\ n' = n + 1
        /\ \A p \in 1 .. n : told'[p] = told[p] /\ aim'[p] = aim[p]
        /\ aim'[n + 1] = AimOf(t)
        /\ srv'.home = srv.home /\ srv'.link = srv.link /\ srv'.open = srv.open
        /\ srv'.late = srv.late /\ srv'.input = srv.input
        /\ CGrows({"control"})
        /\ UNCHANGED <<runs, cl, up, toS, answered, stopped, heardTo, resumedTo, resumedBy>>
        /\ UNCHANGED <<cst, has, crun, doing, ask, withdrawn>>
    BY <1>0, StopFx
  <1>2. n \in Nat /\ AimOf(t) \subseteq Runs /\ \A r \in AimOf(t) : Covers(t, r)
    BY <1>0, Counted DEF AimOf
  <1> PICK k : k = n + 1
    OBVIOUS
  <1>3. CASE /\ toC' = toC /\ srv'.owed = srv.owed /\ srv'.waits = srv.waits
             /\ \A r \in Runs : (\E h \in srv.held \cup {t} : Covers(h, r)) => \E h \in srv'.held : Covers(h, r)
    <2>1. \A p \in 1 .. n : \A r \in Runs : Stands(p, r) => Stands(p, r)'
      <3>1. ASSUME NEW p \in 1 .. n, NEW r \in Runs, Stands(p, r)
            PROVE  Stands(p, r)'
        BY <1>3, <3>1 DEF Stands, Covers
      <3> QED
        BY <3>1
    <2>2. \A r \in aim'[k] : Stands(k, r)'
      <3>1. ASSUME NEW r \in aim'[k]
            PROVE  Stands(k, r)'
        <4>1. r \in Runs /\ Covers(t, r)
          BY <1>1, <1>2, <3>1
        <4>2. \E h \in srv'.held : Covers(h, r)
          BY <1>3, <4>1
        <4> QED
          BY <4>2 DEF Stands, Covers
      <3> QED
        BY <3>1
    <2>3. StopKept'
      BY <1>0, <1>1, <2>1, <2>2, StopPress
    <2> PICK w \in Requests : w.at = n + 1
      <3>1. [act |-> "stop", run |-> t, at |-> n + 1] \in Requests
        BY <1>2 DEF Requests
      <3> QED
        BY <3>1
    <2>4. srv'.waits \subseteq srv.waits \cup {w} /\ (\A o \in srv'.owed : o \in srv.owed \/ o.at = n + 1)
      BY <1>3
    <2> QED
      BY <1>1, <1>3, <2>3, <2>4, PressKeeps
  <1>4. ASSUME NEW w \in Requests, NEW o \in OwedStops, srv.link # "suspended",
               w.act = "stop", w.run = t, w.at = n + 1, o.run = t, o.at = n + 1,
               srv'.owed = srv.owed \cup {o}, srv'.waits = srv.waits \cup {w}, srv'.held = srv.held,
               toC' = toC \/ toC' = toC \o <<[t |-> "control", w |-> w]>>
        PROVE  LinkInd'
    <2>1. \A p \in 1 .. n : \A r \in Runs : Stands(p, r) => Stands(p, r)'
      <3>1. ASSUME NEW p \in 1 .. n, NEW r \in Runs, Stands(p, r)
            PROVE  Stands(p, r)'
        BY <1>4, <3>1 DEF Stands, Covers
      <3> QED
        BY <3>1
    <2>2. \A r \in aim'[k] : Stands(k, r)'
      <3>1. ASSUME NEW r \in aim'[k]
            PROVE  Stands(k, r)'
        <4>1. Covers(o.run, r) /\ o \in srv'.owed /\ k <= o.at
          BY <1>1, <1>2, <1>4, <3>1
        <4> QED
          BY <4>1 DEF Stands, Covers
      <3> QED
        BY <3>1
    <2>3. StopKept'
      BY <1>0, <1>1, <2>1, <2>2, StopPress
    <2>4. srv.link = "attached"
      <3>1. srv.link \in {"attached", "suspended", "closed"}
        BY <1>0 DEF TypeOK, Sessions
      <3> QED
        BY <1>0, <1>1, <1>4, <3>1, OpenFacts
    <2>5. \A x \in srv'.owed : x \in srv.owed \/ x.at = n + 1
      BY <1>4
    <2> QED
      BY <1>1, <1>4, <2>3, <2>4, <2>5, PressKeeps
  <1>5. \/ /\ toC' = toC /\ srv'.owed = srv.owed /\ srv'.waits = srv.waits
           /\ \A r \in Runs : (\E h \in srv.held \cup {t} : Covers(h, r)) => \E h \in srv'.held : Covers(h, r)
        \/ \E w \in Requests, o \in OwedStops :
              /\ srv.link # "suspended"
              /\ w.act = "stop" /\ w.run = t /\ w.at = n + 1 /\ o.run = t /\ o.at = n + 1
              /\ srv'.owed = srv.owed \cup {o} /\ srv'.waits = srv.waits \cup {w}
              /\ srv'.held = srv.held
              /\ toC' = toC \/ toC' = toC \o <<[t |-> "control", w |-> w]>>
    BY <1>0, StopFx
  <1> QED
    BY <1>3, <1>4, <1>5

LEMMA ResumeKeeps ==
    ASSUME LinkInd, NEW t \in Targets, Resume(t)
    PROVE  LinkInd'
  <1>0. TypeOK /\ OpenInv /\ StopKept
    BY DEF LinkInd
  <1>1. /\ TypeOK' /\ srv.open /\ n' = n + 1
        /\ \A p \in 1 .. n : told'[p] = told[p] /\ aim'[p] = aim[p]
        /\ told'[n + 1] = "none"
        /\ srv'.home = srv.home /\ srv'.link = srv.link /\ srv'.open = srv.open
        /\ srv'.late = srv.late /\ srv'.input = srv.input
        /\ srv'.owed = srv.owed /\ srv'.held = srv.held
        /\ CGrows({"control"})
        /\ UNCHANGED <<runs, cl, up, toS, answered, stopped, heardTo, resumedTo, resumedBy>>
        /\ UNCHANGED <<cst, has, crun, doing, ask, withdrawn>>
    BY <1>0, ResumeFx
  <1> PICK k : k = n + 1
    OBVIOUS
  <1>2. StopKept'
    <2>1. \A p \in 1 .. n : \A r \in Runs : Stands(p, r) => Stands(p, r)'
      BY <1>1, OwedAsBefore
    <2>2. ~Pending(k)'
      BY <1>1 DEF Pending
    <2> QED
      BY <1>0, <1>1, <2>1, <2>2, StopPress
  <1>3. PICK w \in Requests :
           /\ w.act = "resume" /\ w.at = n + 1 /\ srv'.waits = srv.waits \cup {w}
           /\ toC' = toC \/ toC' = toC \o <<[t |-> "control", w |-> w]>>
    BY <1>0, ResumeFx
  <1>4. srv'.waits \subseteq srv.waits \cup {w} /\ \A o \in srv'.owed : o \in srv.owed \/ o.at = n + 1
    BY <1>1, <1>3
  <1> QED
    BY <1>1, <1>2, <1>3, <1>4, PressKeeps

\* A step that leaves the Stops where they are.
LEMMA StopsStay ==
    ASSUME LinkInd, TypeOK', ToldOn, srv'.open = srv.open, srv'.owed = srv.owed, srv'.held = srv.held,
           srv'.waits \cup srv'.late \subseteq srv.waits \cup srv.late, SendsLast,
           UNCHANGED <<heardTo, resumedTo, resumedBy>>,
           \A r \in Runs : crun[r] = "ended" => crun'[r] = "ended",
           \A d \in doing' : d \in doing,
           \A x \in Range(toS') : x.t = "answer" => x \in Range(toS) \/ \E d \in doing : x.w = d.w
    PROVE  HeardInv' /\ StopKept' /\ ResumedKept'
  <1>0. TypeOK /\ HeardInv /\ StopKept /\ ResumedKept
    BY DEF LinkInd
  <1>1. n' = n /\ n \in Nat
    BY <1>0, Counted DEF ToldOn
  <1>2. HeardInv'
    <2>1. \A r \in Runs : resumedTo'[r] <= n' /\ resumedBy'[r] <= n'
      BY <1>0, <1>1, HeardFacts
    <2>2. \A w \in srv'.owed \cup srv'.waits \cup srv'.late : w \in srv.owed \cup srv.waits \cup srv.late
      OBVIOUS
    <2> QED
      BY <1>0, <1>1, <2>1, <2>2, HeardFrame
  <1>3. StopKept'
    <2>1. \A r \in Runs : heardTo[r] \in Nat /\ resumedTo[r] \in Nat
      BY <1>0 DEF TypeOK
    <2> QED
      BY <1>0, <2>1, StopFrame
  <1>4. ResumedKept'
    BY <1>0, ResumedStep
  <1> QED
    BY <1>2, <1>3, <1>4

\* A Stop or Resume is not answered in time.
LEMMA TimeOutKeeps ==
    ASSUME LinkInd, NEW w, TimeOut(w)
    PROVE  LinkInd'
  <1>0. /\ TypeOK /\ LineInv /\ OpenInv /\ EndInv /\ AskInv /\ WaitKept /\ AnswerKept
    BY DEF LinkInd
  <1>1. /\ TypeOK' /\ ToldOn
        /\ srv'.home = srv.home /\ srv'.link = srv.link /\ srv'.open = srv.open
        /\ srv'.owed = srv.owed /\ srv'.held = srv.held /\ srv'.input = srv.input
        /\ srv'.waits \cup srv'.late \subseteq srv.waits \cup srv.late
        /\ UNCHANGED <<runs, answered, stopped, heardTo, resumedTo, resumedBy>>
        /\ UNCHANGED <<cl, up, toC, toS, cst, has, crun, doing, ask, withdrawn>>
    BY <1>0, TimeOutFx
  <1>2. /\ CGrows(NewsC) /\ SGrows(NewsS) /\ SendsLast
        /\ \A x \in Range(toC') : x \in Range(toC)
        /\ \A x \in Range(toC) : x \in Range(toC')
        /\ \A x \in Range(toS') : x \in Range(toS)
        /\ \A x \in Range(toS) : x \in Range(toS')
    BY <1>0, <1>1, SameLines
  <1>3. LineInv' /\ OpenInv'
    <2>1. LineStep
      BY <1>1, <1>2 DEF LineStep
    <2> QED
      BY <1>0, <1>1, <1>2, <2>1, LinkStays
  <1>4. HeardInv' /\ StopKept' /\ ResumedKept'
    BY <1>1, <1>2, StopsStay
  <1>5. EndInv'
    BY <1>0, <1>1, <1>2, EndStep
  <1>6. AskInv'
    <2>1. InputsGo
      BY <1>0, <1>1, SameGo
    <2>2. AsksGo
      BY <1>1 DEF AsksGo
    <2>3. AskedOnce'
      BY <1>0, <1>1, SameLines, AskFacts
    <2> QED
      BY <1>0, <1>1, <1>2, <2>1, <2>2, <2>3, AskFrame
  <1>7. WaitKept'
    BY <1>0, <1>1, <1>2, WaitFrame
  <1>8. AnswerKept'
    BY <1>0, <1>1, <1>2, AnswerSame
  <1> QED
    BY <1>1, <1>3, <1>4, <1>5, <1>6, <1>7, <1>8 DEF LinkInd

\* What a record of one question that is turned leaves as it was.
LEMMA TurnedRest ==
    ASSUME TypeOK, NEW q \in Asks, NEW i \in Inputs, srv' = Turned(srv, q, i)
    PROVE  /\ srv'.home = srv.home /\ srv'.link = srv.link /\ srv'.open = srv.open
           /\ srv'.owed = srv.owed /\ srv'.held = srv.held
           /\ srv'.waits \cup srv'.late \subseteq srv.waits \cup srv.late
           /\ srv'.input[q] = i /\ \A x \in Asks : x # q => srv'.input[x] = srv.input[x]
  <1>0. srv \in Sessions
    BY DEF TypeOK
  <1> PICK d : d = Turned(srv, q, i)
    OBVIOUS
  <1>1. /\ d.home = srv.home /\ d.link = srv.link /\ d.open = srv.open
        /\ d.owed = srv.owed /\ d.held = srv.held /\ d.waits = srv.waits /\ d.late = srv.late
        /\ d.input[q] = i /\ \A x \in Asks : x # q => d.input[x] = srv.input[x]
    BY <1>0, TurnedFacts
  <1> QED
    BY <1>1

\* A member answers a question.
LEMMA MemberAnswersKeeps ==
    ASSUME LinkInd, NEW q \in Asks, MemberAnswers(q)
    PROVE  LinkInd'
  <1>0. /\ TypeOK /\ LineInv /\ OpenInv /\ EndInv /\ AskInv /\ WaitKept /\ AnswerKept
    BY DEF LinkInd
  <1>1. /\ TypeOK' /\ srv.input[q] = "open" /\ srv' = Turned(srv, q, "answered")
        /\ answered' = answered \cup {q}
        /\ UNCHANGED <<runs, stopped, aim, told, heardTo, resumedTo, resumedBy>>
        /\ UNCHANGED <<cl, up, toC, toS, cst, has, crun, doing, ask, withdrawn>>
    BY <1>0, MemberAnswersFx
  <1>2. /\ CGrows(NewsC) /\ SGrows(NewsS) /\ SendsLast
        /\ \A x \in Range(toC') : x \in Range(toC)
        /\ \A x \in Range(toC) : x \in Range(toC')
        /\ \A x \in Range(toS') : x \in Range(toS)
        /\ \A x \in Range(toS) : x \in Range(toS')
    BY <1>0, <1>1, SameLines
  <1>3. /\ srv'.home = srv.home /\ srv'.link = srv.link /\ srv'.open = srv.open
        /\ srv'.owed = srv.owed /\ srv'.held = srv.held
        /\ srv'.waits \cup srv'.late \subseteq srv.waits \cup srv.late
        /\ srv'.input[q] = "answered" /\ \A x \in Asks : x # q => srv'.input[x] = srv.input[x]
    <2>1. "answered" \in Inputs
      BY DEF Inputs
    <2> QED
      BY <1>0, <1>1, <2>1, TurnedRest
  <1>4. LineInv' /\ OpenInv'
    <2>1. LineStep
      BY <1>1, <1>2, <1>3 DEF LineStep
    <2>2. srv.open
      BY <1>0, <1>1, OpenFacts
    <2> QED
      BY <1>0, <1>1, <1>2, <1>3, <2>1, <2>2, LinkStays
  <1>5. HeardInv' /\ StopKept' /\ ResumedKept'
    BY <1>1, <1>2, <1>3, ToldSame, StopsStay
  <1>6. EndInv'
    BY <1>0, <1>1, <1>2, EndStep
  <1>7. AskInv'
    <2>1. InputsGo
      <3>1. "answered" \in Inputs
        BY DEF Inputs
      <3> QED
        BY <1>0, <1>1, <3>1, TurnedGo
    <2>2. AsksGo
      BY <1>1 DEF AsksGo
    <2>3. AskedOnce'
      BY <1>0, <1>1, SameLines, AskFacts
    <2>4. \A x \in Asks : x \in answered' => x \in answered \/ srv.input[x] # "none"
      BY <1>1
    <2> QED
      BY <1>0, <1>1, <1>2, <2>1, <2>2, <2>3, <2>4, AskFrame
  <1>8. WaitKept'
    <2>1. \A x \in Asks : srv.input[x] \in Asking => srv'.input[x] \in Asking
      BY <1>3 DEF Asking
    <2> QED
      BY <1>0, <1>1, <1>2, <1>3, <2>1, WaitFrame
  <1>9. AnswerKept'
    BY <1>0, <1>1, AnswerGiven
  <1> QED
    BY <1>1, <1>4, <1>5, <1>6, <1>7, <1>8, <1>9 DEF LinkInd

\* A reply is sent, or kept for the next link.
LEMMA ReplyKeeps ==
    ASSUME LinkInd, NEW q \in Asks, Reply(q)
    PROVE  LinkInd'
  <1>0. /\ TypeOK /\ LineInv /\ OpenInv /\ EndInv /\ AskInv /\ WaitKept /\ AnswerKept /\ toC \in Seq(ToClient)
    BY DEF LinkInd, TypeOK
  <1>1. /\ TypeOK' /\ srv.input[q] \in {"answered", "aborted"} /\ CGrows({"result"})
        /\ UNCHANGED <<runs, answered, stopped, aim, told, heardTo, resumedTo, resumedBy>>
        /\ UNCHANGED <<cl, up, toS, cst, has, crun, doing, ask, withdrawn>>
    BY <1>0, ReplyFx
  <1>2. PICK m \in ToClient :
           /\ m.t = "result" /\ m.q = q
           /\ m.st = IF srv.input[q] = "answered" THEN "answered" ELSE "cancelled"
           /\ toC' = IF Carried(srv) THEN toC \o <<m>> ELSE toC
    BY <1>0, ReplyFx
  <1>3. PICK i \in {"unacked", "outbox", "done"} :
           /\ srv' = Turned(srv, q, i)
           /\ i = "unacked" => srv.link = "attached"
           /\ i = "outbox" => srv.link = "suspended"
           /\ i = "done" => srv.link = "closed"
    BY <1>0, ReplyFx
  <1>4. i \in Inputs
    BY DEF Inputs
  <1>5. /\ srv'.home = srv.home /\ srv'.link = srv.link /\ srv'.open = srv.open
        /\ srv'.owed = srv.owed /\ srv'.held = srv.held
        /\ srv'.waits \cup srv'.late \subseteq srv.waits \cup srv.late
        /\ srv'.input[q] = i /\ \A x \in Asks : x # q => srv'.input[x] = srv.input[x]
    BY <1>0, <1>3, <1>4, TurnedRest
  <1>6. Range(toC') \subseteq Range(toC) \cup {m}
    <2>1. Range(toC \o <<m>>) = Range(toC) \cup {m}
      BY <1>0, AddedOne
    <2> QED
      BY <1>2, <2>1
  <1>7. LineInv' /\ OpenInv'
    <2>1. CGrows(NewsC)
      BY <1>1, GrowsMore DEF NewsC
    <2>2. LineStep
      BY <1>1, <1>5, <2>1 DEF LineStep, SGrows
    <2>3. \A x \in Asks : srv'.input[x] \in {"open", "answered"} => srv.input[x] \in {"open", "answered"}
      BY <1>5
    <2>4. \A x \in Range(toC') : x \in Range(toC) \/ x.t \in {"control", "result"}
      BY <1>2, <1>6
    <2> QED
      BY <1>0, <1>1, <1>5, <2>2, <2>3, <2>4, LinkStays
  <1>8. HeardInv' /\ StopKept' /\ ResumedKept'
    <2>1. SendsLast
      BY <1>1, SendsNoControl
    <2>2. ToldOn
      BY <1>1, ToldSame
    <2> QED
      BY <1>1, <1>5, <2>1, <2>2, StopsStay
  <1>9. EndInv'
    BY <1>0, <1>1, EndStep
  <1>10. AskInv'
    <2>1. InputsGo
      BY <1>0, <1>1, <1>3, <1>4, TurnedGo
    <2>2. AsksGo
      BY <1>1 DEF AsksGo
    <2>3. AskedOnce'
      BY <1>0, <1>1, AskFacts DEF AskedOnce
    <2>4. \A y \in Range(toC') : y.t = "result" => y \in Range(toC) \/ srv'.input[y.q] \notin {"none", "open", "answered"}
      BY <1>2, <1>5, <1>6
    <2> QED
      BY <1>0, <1>1, <2>1, <2>2, <2>3, <2>4, AskFrame
  <1>11. WaitKept'
    BY <1>0, <1>1, <1>2, <1>3, <1>4, WaitReply
  <1>12. AnswerKept'
    <2>1. \A x \in Range(toC') : \/ x.t \notin {"result", "resumed"} \/ x \in Range(toC)
                                 \/ /\ x.t = "result" /\ x.q = q
                                    /\ x.st = IF srv.input[q] = "answered" THEN "answered" ELSE "cancelled"
      BY <1>2, <1>6
    <2> QED
      BY <1>0, <1>1, <1>3, <2>1, AnswerReplied
  <1> QED
    BY <1>1, <1>7, <1>8, <1>9, <1>10, <1>11, <1>12 DEF LinkInd

\* The client says something, and the server has not heard it.
LEMMA SaysKeeps ==
    ASSUME LinkInd, TypeOK', SGrows(NewsS),
           UNCHANGED <<srv, runs, cl, up, toC, cst, has, answered, stopped, aim, told, heardTo, resumedTo, resumedBy>>,
           \A r \in Runs : crun[r] = "ended" => crun'[r] = "ended",
           \A d \in doing' : d \in doing,
           cst # "on" => \A q \in Asks : ask'[q] = "pending" => ask[q] = "pending",
           \A x \in Range(toS') : /\ x.t = "answer" => x \in Range(toS) \/ \E d \in doing : x.w = d.w
                                  /\ x.t = "runs" => x \in Range(toS) \/ x.st = crun',
           AskInv', WaitKept', AnswerKept'
    PROVE  LinkInd'
  <1>0. /\ TypeOK /\ LineInv /\ OpenInv /\ EndInv
    BY DEF LinkInd
  <1>1. CGrows(NewsC) /\ SendsLast /\ ToldOn
    BY ToldSame DEF CGrows, SendsLast
  <1>2. LineInv' /\ OpenInv'
    <2>1. LineStep
      BY <1>1 DEF LineStep
    <2> QED
      BY <1>0, <2>1, LinkStays
  <1>3. HeardInv' /\ StopKept' /\ ResumedKept'
    BY <1>1, StopsStay
  <1>4. EndInv'
    BY <1>0, EndStep
  <1> QED
    BY <1>2, <1>3, <1>4 DEF LinkInd

\* What it says is neither a question nor its end.
LEMMA ReportKeeps ==
    ASSUME LinkInd, TypeOK', NEW T, SGrows(T), T \in {{"runs"}, {"answer"}},
           UNCHANGED <<srv, runs, cl, up, toC, cst, has, ask, withdrawn, answered, stopped, aim, told,
                       heardTo, resumedTo, resumedBy>>,
           \A r \in Runs : crun[r] = "ended" => crun'[r] = "ended",
           \A d \in doing' : d \in doing,
           \A x \in Range(toS') : /\ x.t = "answer" => x \in Range(toS) \/ \E d \in doing : x.w = d.w
                                  /\ x.t = "runs" => x \in Range(toS) \/ x.st = crun'
    PROVE  LinkInd'
  <1>0. /\ TypeOK /\ AskInv /\ WaitKept /\ AnswerKept /\ toS \in Seq(ToServer)
    BY DEF LinkInd, TypeOK
  <1>1. SGrows(NewsS)
    <2>1. T \subseteq NewsS
      BY DEF NewsS
    <2> QED
      BY <2>1, GrowsMore
  <1>2. /\ \A x \in Range(toS) : x \in Range(toS')
        /\ \A x \in Range(toS') : x \in Range(toS) \/ x.t \in {"runs", "answer"}
    <2>1. \A x \in Range(toS) : x \in Range(toS')
      BY <1>0, SGrowsFacts
    <2>2. \A x \in Range(toS') : x \notin Range(toS) => x.t \in T
      BY <1>0, SGrowsFacts
    <2> QED
      BY <2>1, <2>2
  <1>3. AskInv'
    <2>1. InputsGo
      BY <1>0, SameGo
    <2>2. AsksGo
      BY DEF AsksGo
    <2>3. AskedOnce'
      BY <1>0, AskFacts, OnceGrows
    <2> QED
      BY <1>0, <1>2, <2>1, <2>2, <2>3, AskFrame
  <1>4. WaitKept'
    BY <1>0, <1>2, WaitFrame
  <1>5. AnswerKept'
    <2>1. \A x \in Range(toS') : x.t = "ask" => x \in Range(toS)
      BY <1>2
    <2> QED
      BY <1>0, <2>1, AnswerSame
  <1> QED
    BY <1>1, <1>3, <1>4, <1>5, SaysKeeps

LEMMA AnswersKeeps ==
    ASSUME LinkInd, NEW d \in doing, Answers(d)
    PROVE  LinkInd'
  <1>0. TypeOK /\ toS \in Seq(ToServer)
    BY DEF LinkInd, TypeOK
  <1>1. /\ TypeOK' /\ doing' = doing \ {d} /\ SGrows({"answer"})
        /\ \A x \in Range(toS') : x \in Range(toS) \/ (x.t = "answer" /\ x.w = d.w)
        /\ UNCHANGED <<srv, runs, cl, up, toC, cst, has, crun, ask, withdrawn, answered>>
        /\ UNCHANGED <<stopped, aim, told, heardTo, resumedTo, resumedBy>>
    BY <1>0, AnswersFx
  <1>2. \A x \in Range(toS') : /\ x.t = "answer" => x \in Range(toS) \/ \E e \in doing : x.w = e.w
                               /\ x.t = "runs" => x \in Range(toS) \/ x.st = crun'
    BY <1>1
  <1> QED
    BY <1>1, <1>2, ReportKeeps

LEMMA RunEndsKeeps ==
    ASSUME LinkInd, NEW r \in Runs, RunEnds(r)
    PROVE  LinkInd'
  <1>0. TypeOK
    BY DEF LinkInd
  <1>1. /\ TypeOK' /\ Reports
        /\ \A x \in Runs : crun'[x] = "ended" <=> (x = r \/ crun[x] = "ended")
        /\ UNCHANGED <<srv, runs, cl, up, toC, cst, has, doing, ask, withdrawn, answered>>
        /\ UNCHANGED <<stopped, aim, told, heardTo, resumedTo, resumedBy>>
    BY <1>0, RunEndsFx
  <1>2. /\ SGrows({"runs"})
        /\ \A x \in Range(toS') : x \in Range(toS) \/ (x.t = "runs" /\ x.st = crun')
    BY <1>0, <1>1, ReportsFacts
  <1>3. \A x \in Range(toS') : /\ x.t = "answer" => x \in Range(toS) \/ \E e \in doing : x.w = e.w
                               /\ x.t = "runs" => x \in Range(toS) \/ x.st = crun'
    BY <1>2
  <1> QED
    BY <1>1, <1>2, <1>3, ReportKeeps

\* The client asks a question.
LEMMA ClientAsksKeeps ==
    ASSUME LinkInd, NEW q \in Asks, ClientAsks(q)
    PROVE  LinkInd'
  <1>0. /\ TypeOK /\ LineInv /\ AskInv /\ WaitKept /\ AnswerKept /\ toS \in Seq(ToServer)
    BY DEF LinkInd, TypeOK
  <1>1. /\ TypeOK' /\ cst = "on" /\ has /\ ask[q] = "none" /\ ask'[q] = "pending"
        /\ \A x \in Asks : x # q => ask'[x] = ask[x]
        /\ SGrows({"ask"})
        /\ UNCHANGED <<srv, runs, cl, up, toC, cst, has, crun, doing, withdrawn, answered>>
        /\ UNCHANGED <<stopped, aim, told, heardTo, resumedTo, resumedBy>>
    BY <1>0, ClientAsksFx
  <1>2. PICK m \in ToServer : m.t = "ask" /\ m.q = q /\ toS' = IF up /\ cst = "on" THEN toS \o <<m>> ELSE toS
    BY <1>0, ClientAsksFx
  <1>3. Range(toS') \subseteq Range(toS) \cup {m}
    <2>1. Range(toS \o <<m>>) = Range(toS) \cup {m}
      BY <1>0, AddedOne
    <2> QED
      BY <1>2, <2>1
  <1>4. AskInv'
    BY <1>0, <1>1, <1>2, AskAsked
  <1>5. WaitKept'
    BY <1>0, <1>1, <1>2, WaitAsked
  <1>6. AnswerKept'
    <2>1. \A x \in Range(toS') : x.t = "ask" => x \in Range(toS) \/ x.q = q
      BY <1>2, <1>3
    <2> QED
      BY <1>0, <1>1, <2>1, AnswerAsked
  <1>7. SGrows(NewsS)
    BY <1>1, GrowsMore DEF NewsS
  <1>8. \A x \in Range(toS') : /\ x.t = "answer" => x \in Range(toS) \/ \E d \in doing : x.w = d.w
                               /\ x.t = "runs" => x \in Range(toS) \/ x.st = crun'
    BY <1>2, <1>3
  <1> QED
    BY <1>1, <1>4, <1>5, <1>6, <1>7, <1>8, SaysKeeps

\* A caller withdraws its question.
LEMMA WithdrawsKeeps ==
    ASSUME LinkInd, NEW q \in Asks, Withdraws(q)
    PROVE  LinkInd'
  <1>0. /\ TypeOK /\ LineInv /\ AskInv /\ WaitKept /\ AnswerKept /\ toS \in Seq(ToServer)
    BY DEF LinkInd, TypeOK
  <1>1. /\ TypeOK' /\ ask[q] = "pending" /\ withdrawn' = withdrawn \cup {q}
        /\ \A x \in Asks : ask'[x] = IF x = q /\ cst # "on" THEN "cancelled" ELSE ask[x]
        /\ SGrows({"cancel"})
        /\ \A x \in Range(toS') : x \in Range(toS) \/ (x.t = "cancel" /\ x.q = q)
        /\ UNCHANGED <<srv, runs, cl, up, toC, cst, has, crun, doing, answered>>
        /\ UNCHANGED <<stopped, aim, told, heardTo, resumedTo, resumedBy>>
    BY <1>0, WithdrawsFx
  <1>2. \A x \in Range(toS) : x \in Range(toS')
    BY <1>0, <1>1, SGrowsFacts
  <1>3. AskInv'
    <2>1. InputsGo
      BY <1>0, <1>1, SameGo
    <2>2. AsksGo
      BY <1>1 DEF AsksGo, Settled
    <2>3. AskedOnce'
      BY <1>0, <1>1, AskFacts, OnceGrows
    <2>4. \A x \in Range(toS') : x \in Range(toS) \/ (x.t = "cancel" /\ x.q \in withdrawn')
      BY <1>1
    <2> QED
      BY <1>0, <1>1, <2>1, <2>2, <2>3, <2>4, AskFrame
  <1>4. \A x \in Asks : ask'[x] = "pending" => ask[x] = "pending"
    BY <1>1
  <1>5. WaitKept'
    BY <1>0, <1>1, <1>2, <1>4, WaitFrame
  <1>6. AnswerKept'
    <2>1. \A x \in Asks : x \notin withdrawn' => ask'[x] = ask[x]
      BY <1>1
    <2>2. \A x \in Range(toS') : x.t = "ask" => x \in Range(toS)
      BY <1>1
    <2>3. withdrawn \subseteq withdrawn'
      BY <1>1
    <2> QED
      BY <1>0, <1>1, <2>1, <2>2, <2>3, AnswerSame
  <1>7. SGrows(NewsS)
    BY <1>1, GrowsMore DEF NewsS
  <1>8. \A x \in Range(toS') : /\ x.t = "answer" => x \in Range(toS) \/ \E d \in doing : x.w = d.w
                               /\ x.t = "runs" => x \in Range(toS) \/ x.st = crun'
    BY <1>1
  <1> QED
    BY <1>1, <1>3, <1>4, <1>5, <1>6, <1>7, <1>8, SaysKeeps

\* What was on its way is lost: only the first message of a new link may be there.
LEMMA LinesLost ==
    ASSUME LinkInd, TypeOK', toC' = <<>>, \A x \in Range(toS') : x.t = "resume",
           UNCHANGED <<srv, runs, has, crun, doing, ask, withdrawn, answered>>,
           UNCHANGED <<stopped, aim, told, heardTo, resumedTo, resumedBy>>,
           ~up' \/ srv'.home # cl', LineInv'
    PROVE  LinkInd'
  <1>0. /\ TypeOK /\ OpenInv /\ HeardInv /\ EndInv
        /\ StopKept /\ ResumedKept /\ AskInv /\ WaitKept /\ AnswerKept
    BY DEF LinkInd
  <1>1. Range(toC') = {}
    BY EmptyLine
  <1>2. ToldOn
    BY ToldSame
  <1>3. OpenInv'
    BY <1>0, <1>1, OpenFrame
  <1>4. HeardInv'
    BY <1>0, <1>1, <1>2, HeardAnew DEF ToldOn
  <1>5. EndInv'
    BY <1>0, EndStep
  <1>6. StopKept'
    <2>1. \A r \in Runs : heardTo[r] \in Nat /\ resumedTo[r] \in Nat
      BY <1>0 DEF TypeOK
    <2> QED
      BY <1>0, <1>2, <2>1, StopFrame
  <1>7. ResumedKept'
    BY <1>0, ResumedStep
  <1>8. AskInv'
    <2>1. InputsGo
      BY <1>0, SameGo
    <2>2. AsksGo
      BY DEF AsksGo
    <2>3. AskedOnce'
      BY OnceNone
    <2> QED
      BY <1>0, <1>1, <2>1, <2>2, <2>3, AskFrame
  <1>9. WaitKept'
    BY WaitNone
  <1>10. AnswerKept'
    BY <1>0, <1>1, AnswerSame
  <1> QED
    BY <1>3, <1>4, <1>5, <1>6, <1>7, <1>8, <1>9, <1>10 DEF LinkInd

LEMMA BreakKeeps ==
    ASSUME LinkInd, Break
    PROVE  LinkInd'
  <1>0. TypeOK /\ LineInv
    BY DEF LinkInd
  <1>1. /\ TypeOK' /\ up' = FALSE /\ toC' = <<>> /\ toS' = <<>>
        /\ UNCHANGED <<srv, runs, cl, answered>>
        /\ UNCHANGED <<cst, has, crun, doing, ask, withdrawn>>
        /\ UNCHANGED <<stopped, aim, told, heardTo, resumedTo, resumedBy>>
    BY <1>0, BreakFx
  <1>2. LineInv'
    BY <1>0, <1>1, LineBreak
  <1>3. \A x \in Range(toS') : x.t = "resume"
    BY <1>1, EmptyLine
  <1> QED
    BY <1>1, <1>2, <1>3, LinesLost

LEMMA ReconnectKeeps ==
    ASSUME LinkInd, Reconnect
    PROVE  LinkInd'
  <1>0. TypeOK /\ LineInv
    BY DEF LinkInd
  <1>1. /\ TypeOK' /\ cst = "off" /\ cst' = "resuming" /\ cl' = cl + 1 /\ up' = TRUE /\ toC' = <<>>
        /\ UNCHANGED <<srv, runs, has, crun, doing, ask, withdrawn, answered>>
        /\ UNCHANGED <<stopped, aim, told, heardTo, resumedTo, resumedBy>>
    BY <1>0, ReconnectFx
  <1>2. PICK m \in ToServer : /\ m.t = "resume" /\ m.has = has /\ toS' = <<m>>
                              /\ \A q \in Asks : q \in m.named <=> has /\ ask[q] = "pending"
    BY <1>0, ReconnectFx
  <1>3. LineInv'
    BY <1>0, <1>1, <1>2, LineReconnect
  <1>4. \A x \in Range(toS') : x.t = "resume"
    BY <1>2 DEF Range
  <1>5. srv'.home # cl'
    <2>1. srv.home <= cl /\ srv.home \in Nat /\ cl \in Nat
      BY <1>0, LineFactsOf, Counted
    <2> QED
      BY <1>1, <2>1
  <1> QED
    BY <1>1, <1>3, <1>4, <1>5, LinesLost

LEMMA ClientNoticesKeeps ==
    ASSUME LinkInd, ClientNotices
    PROVE  LinkInd'
  <1>0. /\ TypeOK /\ LineInv /\ OpenInv /\ EndInv /\ AskInv /\ WaitKept /\ AnswerKept
    BY DEF LinkInd
  <1>1. /\ TypeOK' /\ ~up /\ cst' = "off" /\ doing' = {}
        /\ \A q \in Asks : ask'[q] = IF ask[q] = "pending" /\ q \in withdrawn THEN "cancelled" ELSE ask[q]
        /\ UNCHANGED <<srv, runs, has, crun, withdrawn, answered>>
        /\ UNCHANGED <<cl, up, toC, toS, stopped, aim, told, heardTo, resumedTo, resumedBy, load>>
    BY <1>0, ClientNoticesFx DEF net
  <1>2. /\ SendsLast
        /\ \A x \in Range(toC') : x \in Range(toC)
        /\ \A x \in Range(toC) : x \in Range(toC')
        /\ \A x \in Range(toS') : x \in Range(toS)
        /\ \A x \in Range(toS) : x \in Range(toS')
    BY <1>0, <1>1, SameLines
  <1>3. LineInv'
    BY <1>0, <1>1, LineNotices
  <1>4. OpenInv'
    BY <1>0, <1>1, <1>2, OpenFrame
  <1>5. HeardInv' /\ StopKept' /\ ResumedKept'
    BY <1>1, <1>2, ToldSame, StopsStay
  <1>6. EndInv'
    BY <1>0, <1>1, <1>2, EndStep
  <1>7. AskInv'
    <2>1. InputsGo
      BY <1>0, <1>1, SameGo
    <2>2. AsksGo
      BY <1>1 DEF AsksGo, Settled
    <2>3. AskedOnce'
      BY <1>0, <1>1, SameLines, AskFacts
    <2> QED
      BY <1>0, <1>1, <1>2, <2>1, <2>2, <2>3, AskFrame
  <1>8. WaitKept'
    BY <1>1, WaitNone
  <1>9. AnswerKept'
    <2>1. \A q \in Asks : q \notin withdrawn' => ask'[q] = ask[q]
      BY <1>1
    <2> QED
      BY <1>0, <1>1, <1>2, <2>1, AnswerSame
  <1> QED
    BY <1>1, <1>3, <1>4, <1>5, <1>6, <1>7, <1>8, <1>9 DEF LinkInd

\* The client hears a message of the server's.
LEMMA HearsKeeps ==
    ASSUME LinkInd, TypeOK', toC # <<>>, NEW m, m = Head(toC), toC' = Tail(toC), cst \in {"on", "resuming"},
           UNCHANGED <<srv, runs, cl, up, answered, stopped, aim, told, resumedTo, resumedBy, withdrawn>>,
           cst' = cst \/ (cst' = "on" /\ m.t = "resumed") \/ (cst' = "gone" /\ m.t = "refused"),
           m.t = "refused" => cst' = "gone",
           srv.open => has',
           \A r \in Runs : heardTo'[r] = IF m.t = "control" /\ m.w.act = "stop" /\ Covers(m.w.run, r)
                                         THEN m.w.at ELSE heardTo[r],
           \A r \in Runs : crun[r] = "ended" => crun'[r] = "ended",
           \A d \in doing' : d \in doing \/ (m.t = "control" /\ d.w = m.w),
           \A x \in Range(toS) : x \in Range(toS'),
           \A x \in Range(toS') : \/ x \in Range(toS)
                                  \/ x.t = "runs" /\ x.st = crun'
                                  \/ x.t = "ack" /\ ask'[x.q] \in Settled
                                  \/ x.t = "cancel" /\ x.q \in withdrawn,
           AskedOnce', AsksGo,
           \A q \in Asks : ask'[q] = "pending" =>
              /\ ask[q] = "pending"
              /\ m.t = "resumed" => q \in m.asks
              /\ m.t = "result" => q # m.q,
           AnswerKept'
    PROVE  LinkInd'
  <1>0. /\ TypeOK /\ LineInv /\ OpenInv /\ HeardInv /\ EndInv
        /\ StopKept /\ ResumedKept /\ AskInv /\ WaitKept
    BY DEF LinkInd
  <1>1. /\ m \in ToClient /\ m \in Range(toC)
        /\ \A x \in Range(toC') : x \in Range(toC)
    BY <1>0, ClientHeard
  <1>2. ToldOn
    BY ToldSame
  <1>3. LineInv'
    <2>1. \A x \in Range(toS') : x \in Range(toS) \/ x.t \in NewsS
      BY DEF NewsS
    <2>2. cst' = cst \/ (cst' = "on" /\ m.t = "resumed") \/ cst' = "gone"
      OBVIOUS
    <2> QED
      BY <1>0, <2>1, <2>2, LineClientHears
  <1>4. OpenInv'
    BY <1>0, <1>1, OpenFacts, OpenStep
  <1>5. HeardInv'
    <2>1. n' = n
      BY <1>2 DEF ToldOn
    <2>2. \A x \in Range(toS') : x.t = "answer" => x \in Range(toS)
      OBVIOUS
    <2> QED
      BY <1>0, <2>1, <2>2, HeardClient
  <1>6. EndInv'
    BY <1>0, EndStep
  <1>7. StopKept'
    <2>1. ASSUME NEW r \in Runs
          PROVE  heardTo[r] <= heardTo'[r] /\ resumedTo[r] <= resumedTo'[r]
      <3>1. heardTo[r] \in Nat /\ resumedTo[r] \in Nat
        BY <1>0 DEF TypeOK
      <3>2. m.t = "control" /\ m.w.act = "stop" => heardTo[r] <= m.w.at
        BY <1>0, <1>1, HeardFacts
      <3> QED
        BY <3>1, <3>2
    <2> QED
      BY <1>0, <1>2, <2>1, StopFrame
  <1>8. ResumedKept'
    BY <1>0, ResumedStep
  <1>9. AskInv'
    <2>1. InputsGo
      BY <1>0, SameGo
    <2>2. \A x \in Range(toS') : \/ x \in Range(toS) \/ x.t \in {"resume", "answer", "runs"}
                                 \/ (x.t = "ack" /\ ask'[x.q] \in Settled)
                                 \/ (x.t = "cancel" /\ x.q \in withdrawn')
      OBVIOUS
    <2> QED
      BY <1>0, <1>1, <2>1, <2>2, AskFrame
  <1>10. WaitKept'
    BY <1>0, WaitHears
  <1> QED
    BY <1>3, <1>4, <1>5, <1>6, <1>7, <1>8, <1>9, <1>10 DEF LinkInd

\* A Stop or Resume.
LEMMA ControlKeeps ==
    ASSUME LinkInd, toC # <<>>, NEW m, m = Head(toC), toC' = Tail(toC), cst \in {"on", "resuming"},
           m.t = "control", HearPress(m),
           UNCHANGED <<srv, runs, busy, cl, up, answered, stopped, aim, told, resumedTo, resumedBy, load>>
    PROVE  LinkInd'
  <1>0. /\ TypeOK /\ LineInv /\ OpenInv /\ AskInv /\ AnswerKept /\ toS \in Seq(ToServer)
    BY DEF LinkInd, TypeOK
  <1>1. /\ m \in ToClient /\ toC' \in Seq(ToClient)
        /\ \A x \in Range(toC') : x \in Range(toC)
    BY <1>0, ClientHeard
  <1>2. /\ TypeOK' /\ Reports
        /\ \A r \in Runs : crun'[r] = "ended" <=> crun[r] = "ended"
        /\ \A r \in Runs : heardTo'[r] = IF m.w.act = "stop" /\ Covers(m.w.run, r) THEN m.w.at ELSE heardTo[r]
        /\ UNCHANGED <<cst, has, ask, withdrawn>>
    BY <1>0, <1>1, HearPressFx
  <1>3. PICK d \in [w: Requests, ok: BOOLEAN] : d.w = m.w /\ doing' = doing \cup {d}
    BY <1>0, <1>1, HearPressFx
  <1>4. /\ SGrows({"runs"})
        /\ \A x \in Range(toS') : x \in Range(toS) \/ (x.t = "runs" /\ x.st = crun')
    BY <1>0, <1>2, ReportsFacts
  <1>5. /\ \A x \in Range(toS) : x \in Range(toS')
        /\ AskedOnce'
    <2>1. AskedOnce'
      BY <1>0, <1>4, AskFacts, OnceGrows
    <2> QED
      BY <1>0, <1>4, <2>1, SGrowsFacts
  <1>6. AsksGo
    BY <1>2 DEF AsksGo
  <1>7. AnswerKept'
    <2>1. \A x \in Range(toS') : x.t = "ask" => x \in Range(toS)
      BY <1>4
    <2> QED
      BY <1>0, <1>1, <1>2, <2>1, AnswerSame
  <1>8. srv.open => has'
    BY <1>0, <1>2, OpenFacts
  <1>9. \A d1 \in doing' : d1 \in doing \/ (m.t = "control" /\ d1.w = m.w)
    BY <1>3
  <1> QED
    BY <1>2, <1>4, <1>5, <1>6, <1>7, <1>8, <1>9, HearsKeeps

\* The result of a question.
LEMMA ResultKeeps ==
    ASSUME LinkInd, toC # <<>>, NEW m, m = Head(toC), toC' = Tail(toC), cst \in {"on", "resuming"},
           m.t = "result", HearResult(m),
           UNCHANGED <<srv, runs, busy, cl, up, answered, stopped, aim, told, resumedTo, resumedBy, load>>
    PROVE  LinkInd'
  <1>0. /\ TypeOK /\ LineInv /\ OpenInv /\ AskInv /\ AnswerKept /\ toS \in Seq(ToServer)
        /\ ask \in [Asks -> {"none", "pending", "answered", "cancelled"}]
    BY DEF LinkInd, TypeOK
  <1>1. /\ m \in ToClient /\ toC' \in Seq(ToClient) /\ m \in Range(toC)
        /\ \A x \in Range(toC') : x \in Range(toC)
    BY <1>0, ClientHeard
  <1>2. /\ TypeOK'
        /\ \A q \in Asks : ask'[q] = IF q = m.q /\ ask[q] = "pending" THEN m.st ELSE ask[q]
        /\ SGrows({"ack"})
        /\ UNCHANGED <<cst, has, crun, doing, withdrawn, heardTo>>
    BY <1>0, <1>1, HearResultFx
  <1>3. PICK y \in ToServer : /\ y.t = "ack" /\ y.q = m.q
                              /\ toS' = IF up /\ cst = "on" THEN toS \o <<y>> ELSE toS
    BY <1>0, <1>1, HearResultFx
  <1>4. m.q \in Asks /\ m.st \in Settled /\ ask[m.q] # "none"
    BY <1>0, <1>1, ToClientKinds, AskFacts DEF Settled
  <1>5. \A x \in Range(toS') : x \in Range(toS) \/ (x.t = "ack" /\ x.q = m.q)
    <2>1. Range(toS \o <<y>>) = Range(toS) \cup {y}
      BY <1>0, AddedOne
    <2> QED
      BY <1>3, <2>1
  <1>6. /\ \A x \in Range(toS) : x \in Range(toS')
        /\ AskedOnce'
    <2>1. AskedOnce'
      BY <1>0, <1>2, AskFacts, OnceGrows
    <2> QED
      BY <1>0, <1>2, <2>1, SGrowsFacts
  <1>7. ask'[m.q] \in Settled
    BY <1>0, <1>2, <1>4 DEF Settled
  <1>8. AsksGo
    <2>1. ASSUME NEW q \in Asks
          PROVE  (ask[q] # "none" => ask'[q] # "none") /\ (ask[q] \in Settled => ask'[q] \in Settled)
      BY <1>2, <1>4, <2>1 DEF Settled
    <2> QED
      BY <2>1 DEF AsksGo
  <1>9. AnswerKept'
    <2>1. \A x \in Range(toS') : x.t = "ask" => x \in Range(toS)
      BY <1>5
    <2> QED
      BY <1>0, <1>2, <2>1, AnswerResult
  <1>10. srv.open => has'
    BY <1>0, <1>2, OpenFacts
  <1>11. \A q \in Asks : ask'[q] = "pending" => ask[q] = "pending" /\ q # m.q
    BY <1>2, <1>7 DEF Settled
  <1>12. \A x \in Range(toS') : x \in Range(toS) \/ (x.t = "ack" /\ ask'[x.q] \in Settled)
    BY <1>5, <1>7
  <1> QED
    BY <1>2, <1>6, <1>8, <1>9, <1>10, <1>11, <1>12, HearsKeeps

\* What goes on of its session.
LEMMA ResumedKeeps ==
    ASSUME LinkInd, toC # <<>>, NEW m, m = Head(toC), toC' = Tail(toC), cst \in {"on", "resuming"},
           m.t = "resumed", HearResumed(m),
           UNCHANGED <<srv, runs, busy, cl, up, answered, stopped, aim, told, resumedTo, resumedBy, load>>
    PROVE  LinkInd'
  <1>0. /\ TypeOK /\ LineInv /\ OpenInv /\ AskInv /\ AnswerKept
    BY DEF LinkInd
  <1>1. /\ m \in ToClient /\ toC' \in Seq(ToClient) /\ m \in Range(toC) /\ toS = <<>>
        /\ \A x \in Range(toC') : x \in Range(toC)
    BY <1>0, ClientHeard
  <1>2. /\ TypeOK' /\ cst' = "on" /\ has' = m.has
        /\ \A q \in Asks : ask'[q] = IF ask[q] = "pending" /\ q \notin m.asks THEN "cancelled" ELSE ask[q]
        /\ \A r \in Runs : crun'[r] = IF m.has THEN crun[r] ELSE "ended"
        /\ \A x \in Range(toS) : x \in Range(toS')
        /\ \A x \in Range(toS') : \/ x \in Range(toS)
                                  \/ x.t = "cancel" /\ x.q \in withdrawn
                                  \/ x.t = "runs" /\ x.st = crun'
        /\ UNCHANGED <<doing, withdrawn, heardTo>>
    BY <1>0, <1>1, HearResumedFx
  <1>3. \A x \in Range(toS') : x.t # "ask"
    BY <1>1, <1>2, EmptyLine
  <1>4. AskedOnce'
    BY <1>2, <1>3, OnceNone
  <1>5. AsksGo
    BY <1>2 DEF AsksGo, Settled
  <1>6. AnswerKept'
    BY <1>0, <1>2, <1>3, AnswerResumed
  <1>7. srv.open => has'
    BY <1>0, <1>1, <1>2, OpenFacts
  <1>8. \A q \in Asks : ask'[q] = "pending" => ask[q] = "pending" /\ q \in m.asks
    BY <1>2
  <1>9. \A r \in Runs : crun[r] = "ended" => crun'[r] = "ended"
    BY <1>2
  <1> QED
    BY <1>2, <1>4, <1>5, <1>6, <1>7, <1>8, <1>9, HearsKeeps

\* That its session is let go.
LEMMA DestroyKeeps ==
    ASSUME LinkInd, toC # <<>>, NEW m, m = Head(toC), toC' = Tail(toC), cst \in {"on", "resuming"},
           m.t = "destroy", HearDestroy,
           UNCHANGED <<srv, runs, busy, cl, up, answered, stopped, aim, told, resumedTo, resumedBy, load>>
    PROVE  LinkInd'
  <1>0. /\ TypeOK /\ LineInv /\ OpenInv /\ AskInv /\ AnswerKept
    BY DEF LinkInd
  <1>1. /\ toC' \in Seq(ToClient) /\ m \in Range(toC)
        /\ \A x \in Range(toC') : x \in Range(toC)
    BY <1>0, ClientHeard
  <1>2. /\ TypeOK' /\ has' = FALSE /\ \A r \in Runs : crun'[r] = "ended"
        /\ UNCHANGED <<cst, doing, ask, withdrawn, heardTo, toS>>
    BY <1>0, <1>1, HearDestroyFx
  <1>3. AskedOnce'
    BY <1>0, <1>2, AskFacts DEF AskedOnce
  <1>4. AsksGo
    BY <1>2 DEF AsksGo
  <1>5. AnswerKept'
    BY <1>0, <1>1, <1>2, AnswerSame
  <1>6. ~srv.open
    BY <1>0, <1>1, OpenFacts
  <1> QED
    BY <1>2, <1>3, <1>4, <1>5, <1>6, HearsKeeps

\* That nothing resumes.
LEMMA RefusedKeeps ==
    ASSUME LinkInd, toC # <<>>, NEW m, m = Head(toC), toC' = Tail(toC), cst \in {"on", "resuming"},
           m.t = "refused", HearRefused,
           UNCHANGED <<srv, runs, busy, cl, up, answered, stopped, aim, told, resumedTo, resumedBy, load>>
    PROVE  LinkInd'
  <1>0. /\ TypeOK /\ LineInv /\ OpenInv /\ AskInv /\ AnswerKept
    BY DEF LinkInd
  <1>1. /\ toC' \in Seq(ToClient) /\ m \in Range(toC)
        /\ \A x \in Range(toC') : x \in Range(toC)
    BY <1>0, ClientHeard
  <1>2. /\ TypeOK' /\ cst' = "gone" /\ has' = FALSE /\ doing' = {} /\ \A r \in Runs : crun'[r] = "ended"
        /\ \A q \in Asks : ask'[q] = IF ask[q] = "pending" THEN "cancelled" ELSE ask[q]
        /\ UNCHANGED <<withdrawn, heardTo, toS>>
    BY <1>0, <1>1, HearRefusedFx
  <1>3. AskedOnce'
    BY <1>0, <1>2, AskFacts DEF AskedOnce
  <1>4. AsksGo
    BY <1>2 DEF AsksGo, Settled
  <1>5. AnswerKept'
    BY <1>0, <1>2, AnswerRefused
  <1>6. ~srv.open
    BY <1>0, <1>1, OpenFacts
  <1>7. \A q \in Asks : ask'[q] # "pending"
    BY <1>2
  <1> QED
    BY <1>2, <1>3, <1>4, <1>5, <1>6, <1>7, HearsKeeps

LEMMA ClientHearsKeeps ==
    ASSUME LinkInd, ClientHears
    PROVE  LinkInd'
  <1> PICK m : m = Head(toC)
    OBVIOUS
  <1>1. /\ toC # <<>> /\ cst \in {"on", "resuming"} /\ toC' = Tail(toC)
        /\ UNCHANGED <<srv, runs, busy, cl, up, answered, stopped, aim, told, resumedTo, resumedBy, load>>
    BY DEF ClientHears
  <1>2. \/ m.t = "control" /\ HearPress(m)
        \/ m.t = "result"  /\ HearResult(m)
        \/ m.t = "resumed" /\ HearResumed(m)
        \/ m.t = "destroy" /\ HearDestroy
        \/ m.t = "refused" /\ HearRefused
    BY DEF ClientHears
  <1> QED
    BY <1>1, <1>2, ControlKeeps, ResultKeeps, ResumedKeeps, DestroyKeeps, RefusedKeeps

\* The server hears a message of a link that is under way.
LEMMA NewsKeeps ==
    ASSUME LinkInd, TypeOK', toS # <<>>, NEW m, m = Head(toS), toS' = Tail(toS), m.t # "resume", CGrows({"result"}),
           srv'.home = srv.home, srv'.link = srv.link, srv'.open = srv.open,
           srv.link # "attached" => srv'.owed = srv.owed,
           ~srv.open => \A q \in Asks : srv'.input[q] \in {"open", "answered"} => srv.input[q] \in {"open", "answered"},
           runs' = runs \/ (m.t = "runs" /\ runs' = m.st),
           UNCHANGED <<cl, up, cst, has, crun, doing, ask, withdrawn>>,
           HeardInv', StopKept', ResumedKept', AskInv', WaitKept', AnswerKept'
    PROVE  LinkInd'
  <1>0. /\ TypeOK /\ LineInv /\ OpenInv /\ EndInv /\ toS \in Seq(ToServer) /\ toC \in Seq(ToClient)
    BY DEF LinkInd, TypeOK
  <1>1. m \in ToServer /\ m \in Range(toS) /\ Range(toS') \subseteq Range(toS)
    BY <1>0, HeardOne
  <1>2. m.t \in NewsS
    BY <1>1, ToServerKinds DEF NewsS
  <1>3. CGrows(NewsC)
    BY GrowsMore DEF NewsC
  <1>4. LineInv' /\ OpenInv'
    <2>1. LineStep
      BY <1>2, <1>3 DEF LineStep, SHears
    <2>2. \A x \in Range(toC') : x \in Range(toC) \/ x.t \in {"control", "result"}
      <3>1. \A x \in Range(toC') : x \notin Range(toC) => x.t \in {"result"}
        BY <1>0, CGrowsFacts
      <3> QED
        BY <3>1
    <2> QED
      BY <1>0, <2>1, <2>2, LinkStays
  <1>5. EndInv'
    BY <1>0, <1>1, EndStep
  <1> QED
    BY <1>4, <1>5 DEF LinkInd

\* One that leaves the Stops where they are.
LEMMA NewsOfQuestions ==
    ASSUME LinkInd, TypeOK', toS # <<>>, NEW m, m = Head(toS), toS' = Tail(toS), m.t # "resume", CGrows({"result"}),
           srv'.home = srv.home, srv'.link = srv.link, srv'.open = srv.open,
           srv'.owed = srv.owed, srv'.held = srv.held,
           srv'.waits \cup srv'.late \subseteq srv.waits \cup srv.late,
           ~srv.open => \A q \in Asks : srv'.input[q] \in {"open", "answered"} => srv.input[q] \in {"open", "answered"},
           runs' = runs \/ (m.t = "runs" /\ runs' = m.st),
           UNCHANGED <<stopped, aim, told, heardTo, resumedTo, resumedBy>>,
           UNCHANGED <<cl, up, cst, has, crun, doing, ask, withdrawn>>,
           AskInv', WaitKept', AnswerKept'
    PROVE  LinkInd'
  <1>0. toS \in Seq(ToServer)
    BY DEF LinkInd, TypeOK
  <1>1. Range(toS') \subseteq Range(toS)
    BY <1>0, HeardOne
  <1>2. ToldOn /\ SendsLast
    BY ToldSame, SendsNoControl
  <1>3. HeardInv' /\ StopKept' /\ ResumedKept'
    BY <1>1, <1>2, StopsStay
  <1> QED
    BY <1>3, NewsKeeps

\* The answer to a Stop or Resume.
LEMMA HearControlKeeps ==
    ASSUME LinkInd, toS # <<>>, NEW m, m = Head(toS), toS' = Tail(toS), m.t = "answer", HearControl(m),
           srv.link = "attached", UNCHANGED <<cl, up, client>>
    PROVE  LinkInd'
  <1>0. /\ TypeOK /\ LineInv /\ OpenInv /\ HeardInv /\ EndInv
        /\ StopKept /\ ResumedKept /\ AskInv /\ WaitKept /\ AnswerKept
        /\ toS \in Seq(ToServer) /\ toC \in Seq(ToClient) /\ srv \in Sessions
    BY DEF LinkInd, TypeOK
  <1>1. /\ m \in ToServer /\ m \in Range(toS) /\ toS' \in Seq(ToServer) /\ Range(toS') \subseteq Range(toS)
        /\ \A x \in Range(toS) : x = m \/ x \in Range(toS')
    BY <1>0, HeardOne
  <1>2. /\ TypeOK' /\ ToldOn
        /\ srv'.home = srv.home /\ srv'.link = srv.link /\ srv'.open = srv.open
        /\ srv'.held = srv.held /\ srv'.input = srv.input
        /\ srv'.waits \cup srv'.late \subseteq srv.waits \cup srv.late
        /\ UNCHANGED <<runs, answered, stopped, aim, heardTo, load, toC>>
        /\ UNCHANGED <<cl, up, cst, has, crun, doing, ask, withdrawn>>
    BY <1>0, <1>1, HearControlFx
  <1>3. \/ /\ srv'.owed = UndoStops(srv.owed, m.w.run)
           /\ resumedTo' = [r \in Runs |-> IF Covers(m.w.run, r) THEN n ELSE resumedTo[r]]
           /\ resumedBy' = [r \in Runs |-> IF Covers(m.w.run, r) /\ m.w.at > resumedBy[r]
                                           THEN m.w.at ELSE resumedBy[r]]
        \/ /\ srv'.owed = srv.owed \/ (m.w.act = "stop" /\ srv'.owed = Answered(srv.owed, m.w))
           /\ resumedTo' = resumedTo /\ resumedBy' = resumedBy
    BY <1>0, <1>1, HearControlFx
  <1>4. StopKept' /\ ResumedKept' /\ \A r \in Runs : resumedTo'[r] <= n /\ resumedBy'[r] <= n
    BY <1>0, <1>1, <1>2, <1>3, AnswerKeepsStops
  <1>5. CGrows({"result"}) /\ SendsLast
    BY <1>2 DEF CGrows, SendsLast
  <1>6. HeardInv'
    <2>1. n' = n /\ n \in Nat
      BY <1>0, <1>2, Counted DEF ToldOn
    <2>2. \A o \in srv'.owed : o.at <= n
      <3>1. CASE srv'.owed = UndoStops(srv.owed, m.w.run)
        <4>1. srv.owed \in SUBSET OwedStops /\ m.w.run \in Targets
          BY <1>0, <1>1, SrvFields, ToServerKinds, RequestFields
        <4> PICK os, t, us : os = srv.owed /\ t = m.w.run /\ us = UndoStops(os, t)
          OBVIOUS
        <4>2. os \in SUBSET OwedStops /\ t \in Targets /\ us = UndoStops(os, t)
          BY <4>1
        <4>3. \A u \in us : OwedAt(os, u.at)
          BY ONLY <4>2, UndoStopsFacts
        <4> QED
          BY <1>0, <3>1, <4>3, HeardFacts DEF OwedAt
      <3>2. CASE srv'.owed = srv.owed \/ (m.w.act = "stop" /\ srv'.owed = Answered(srv.owed, m.w))
        BY <1>0, <3>2, HeardFacts DEF Answered
      <3> QED
        BY <1>3, <3>1, <3>2
    <2>3. \A w \in srv'.owed \cup srv'.waits \cup srv'.late : w \in srv.owed \cup srv.waits \cup srv.late \/ w.at <= n'
      BY <1>2, <2>1, <2>2
    <2>4. \A r \in Runs : resumedTo'[r] <= n' /\ resumedBy'[r] <= n'
      BY <1>4, <2>1
    <2> QED
      BY <1>0, <1>1, <1>2, <1>5, <2>1, <2>3, <2>4, HeardFrame
  <1>7. AskInv'
    <2>1. InputsGo
      BY <1>0, <1>2, SameGo
    <2>2. AsksGo
      BY <1>2 DEF AsksGo
    <2>3. AskedOnce'
      BY <1>0, AskFacts, OnceHeard
    <2> QED
      BY <1>0, <1>1, <1>2, <2>1, <2>2, <2>3, AskFrame
  <1>8. WaitKept'
    <2>1. CGrows(NewsC)
      BY <1>2 DEF CGrows
    <2> QED
      BY <1>0, <1>2, <2>1, WaitHeard
  <1>9. AnswerKept'
    BY <1>0, <1>1, <1>2, AnswerSame
  <1> QED
    BY <1>2, <1>4, <1>5, <1>6, <1>7, <1>8, <1>9, NewsKeeps

\* A question.
LEMMA HearAskKeeps ==
    ASSUME LinkInd, toS # <<>>, NEW m, m = Head(toS), toS' = Tail(toS), m.t = "ask", HearAsk(m),
           srv.link = "attached", srv.home = cl, UNCHANGED <<cl, up, client>>
    PROVE  LinkInd'
  <1>0. /\ TypeOK /\ LineInv /\ OpenInv /\ AskInv /\ WaitKept /\ AnswerKept
        /\ toS \in Seq(ToServer) /\ toC \in Seq(ToClient) /\ srv \in Sessions
    BY DEF LinkInd, TypeOK
  <1>1. /\ m \in ToServer /\ m \in Range(toS) /\ toS' \in Seq(ToServer) /\ up
    BY <1>0, HeardOne, LineFactsOf
  <1>2. m.q \in Asks /\ "open" \in Inputs
    BY <1>1, ToServerKinds DEF Inputs
  <1>3. /\ TypeOK' /\ CGrows({"result"})
        /\ srv.open => srv' = Turned(srv, m.q, "open") /\ toC' = toC
        /\ ~srv.open => srv' = srv
        /\ UNCHANGED <<runs, answered>>
        /\ UNCHANGED <<stopped, aim, told, heardTo, resumedTo, resumedBy, load>>
        /\ UNCHANGED <<cl, up, cst, has, crun, doing, ask, withdrawn>>
    BY <1>0, <1>1, HearAskFx
  <1>4. ASSUME ~srv.open
        PROVE  \E y \in ToClient : y.t = "result" /\ y.q = m.q /\ y.st = "cancelled" /\ toC' = toC \o <<y>>
    BY <1>0, <1>1, <1>4, HearAskFx DEF Carried
  <1>5. /\ srv'.home = srv.home /\ srv'.link = srv.link /\ srv'.open = srv.open
        /\ srv'.owed = srv.owed /\ srv'.held = srv.held
        /\ srv'.waits \cup srv'.late \subseteq srv.waits \cup srv.late
        /\ \A x \in Asks : x # m.q => srv'.input[x] = srv.input[x]
        /\ srv.open => srv'.input[m.q] = "open"
        /\ ~srv.open => srv'.input = srv.input
    <2>1. CASE srv.open
      BY <1>0, <1>2, <1>3, <2>1, TurnedRest
    <2>2. CASE ~srv.open
      BY <1>3, <2>2
    <2> QED
      BY <2>1, <2>2
  <1>6. \A y \in Range(toC') : y \in Range(toC) \/ (y.t = "result" /\ y.q = m.q /\ ~srv.open)
    <2>1. CASE srv.open
      BY <1>3, <2>1
    <2>2. CASE ~srv.open
      <3> PICK y \in ToClient : y.t = "result" /\ y.q = m.q /\ toC' = toC \o <<y>>
        BY <1>4, <2>2
      <3>1. Range(toC') = Range(toC) \cup {y}
        BY <1>0, AddedOne
      <3> QED
        BY <2>2, <3>1
    <2> QED
      BY <2>1, <2>2
  <1>7. AskInv'
    <2>1. \A y \in Range(toC') : y.t = "result" => y \in Range(toC) \/ (y.q = m.q /\ srv' = srv)
      BY <1>3, <1>6
    <2>2. srv' = Turned(srv, m.q, "open") \/ srv' = srv
      BY <1>3
    <2> QED
      BY <1>0, <1>3, <2>1, <2>2, AskHeard
  <1>8. WaitKept'
    <2>1. CGrows(NewsC)
      BY <1>3, GrowsMore DEF NewsC
    <2>2. Cared(m.q)'
      <3>1. CASE srv.open
        BY <1>5, <3>1 DEF Cared, Asking
      <3>2. CASE ~srv.open
        <4> PICK y \in ToClient : y.t = "result" /\ y.q = m.q /\ toC' = toC \o <<y>>
          BY <1>4, <3>2
        <4>1. y \in Range(toC')
          BY <1>0, AddedOne
        <4> QED
          BY <4>1 DEF Cared, OnLine
      <3> QED
        BY <3>1, <3>2
    <2>3. \A x \in Asks : srv.input[x] \in Asking => srv'.input[x] \in Asking
      BY <1>5 DEF Asking
    <2> QED
      BY <1>0, <1>3, <1>5, <2>1, <2>2, <2>3, WaitHeard
  <1>9. AnswerKept'
    <2>1. \/ srv.open /\ srv' = Turned(srv, m.q, "open") /\ toC' = toC
          \/ srv' = srv
      BY <1>3
    <2>2. \A y \in Range(toC') : y.t \notin {"result", "resumed"} \/ y \in Range(toC) \/ (y.t = "result" /\ y.q = m.q)
      BY <1>6
    <2> QED
      BY <1>0, <1>3, <2>1, <2>2, AnswerAskHeard
  <1>10. ~srv.open => \A q \in Asks : srv'.input[q] \in {"open", "answered"} => srv.input[q] \in {"open", "answered"}
    BY <1>5
  <1>11. m.t # "resume"
    OBVIOUS
  <1> QED
    BY <1>3, <1>5, <1>7, <1>8, <1>9, <1>10, <1>11, NewsOfQuestions

\* A withdrawal or an acknowledgement.
LEMMA QuestionEnds ==
    ASSUME LinkInd, TypeOK', toS # <<>>, NEW m, m = Head(toS), toS' = Tail(toS),
           \/ m.t = "cancel" /\ (\/ srv' = srv
                                 \/ srv.input[m.q] \in {"open", "answered"} /\ srv' = Turned(srv, m.q, "aborted"))
           \/ m.t = "ack" /\ (\/ srv' = srv
                              \/ srv.input[m.q] = "unacked" /\ srv' = Turned(srv, m.q, "done")),
           UNCHANGED <<runs, toC, answered>>, UNCHANGED <<stopped, aim, told, heardTo, resumedTo, resumedBy>>,
           UNCHANGED <<cl, up, cst, has, crun, doing, ask, withdrawn>>
    PROVE  LinkInd'
  <1>0. /\ TypeOK /\ AskInv /\ WaitKept /\ AnswerKept /\ toS \in Seq(ToServer) /\ toC \in Seq(ToClient)
    BY DEF LinkInd, TypeOK
  <1>1. /\ m \in ToServer /\ m \in Range(toS) /\ Range(toS') \subseteq Range(toS)
    BY <1>0, HeardOne
  <1>2. m.q \in Asks /\ {"aborted", "done"} \subseteq Inputs
    BY <1>1, ToServerKinds DEF Inputs
  <1>3. /\ srv'.home = srv.home /\ srv'.link = srv.link /\ srv'.open = srv.open
        /\ srv'.owed = srv.owed /\ srv'.held = srv.held
        /\ srv'.waits \cup srv'.late \subseteq srv.waits \cup srv.late
        /\ \A x \in Asks : \/ srv'.input[x] = srv.input[x]
                           \/ srv'.input[x] = "aborted" /\ srv.input[x] \in {"open", "answered"}
                           \/ srv'.input[x] = "done" /\ srv.input[x] = "unacked"
    <2>1. CASE srv' = srv
      BY <2>1
    <2>2. CASE srv.input[m.q] \in {"open", "answered"} /\ srv' = Turned(srv, m.q, "aborted")
      BY <1>0, <1>2, <2>2, TurnedRest
    <2>3. CASE srv.input[m.q] = "unacked" /\ srv' = Turned(srv, m.q, "done")
      BY <1>0, <1>2, <2>3, TurnedRest
    <2> QED
      BY <2>1, <2>2, <2>3
  <1>4. CGrows({"result"}) /\ CGrows(NewsC)
    BY DEF CGrows
  <1>5. AskInv'
    <2>1. InputsGo
      BY <1>0, <1>3, AskFacts DEF InputsGo
    <2>2. AsksGo
      BY DEF AsksGo
    <2>3. AskedOnce'
      BY <1>0, AskFacts, OnceHeard
    <2> QED
      BY <1>0, <1>1, <2>1, <2>2, <2>3, AskFrame
  <1>6. WaitKept'
    <2>1. \A q \in Asks : srv.input[q] \in Asking => srv'.input[q] \in Asking
      BY <1>3 DEF Asking
    <2> QED
      BY <1>0, <1>3, <1>4, <2>1, WaitHeard
  <1>7. AnswerKept'
    <2>1. \/ m.t = "cancel" /\ (srv' = srv \/ srv' = Turned(srv, m.q, "aborted"))
          \/ m.t = "ack" /\ (srv' = srv \/ srv' = Turned(srv, m.q, "done"))
      OBVIOUS
    <2> QED
      BY <1>0, <2>1, AnswerHeard
  <1>8. \A q \in Asks : srv'.input[q] \in {"open", "answered"} => srv.input[q] \in {"open", "answered"}
    BY <1>3
  <1>9. m.t # "resume"
    OBVIOUS
  <1> QED
    BY <1>3, <1>4, <1>5, <1>6, <1>7, <1>8, <1>9, NewsOfQuestions

LEMMA HearCancelKeeps ==
    ASSUME LinkInd, toS # <<>>, NEW m, m = Head(toS), toS' = Tail(toS), m.t = "cancel", HearCancel(m),
           UNCHANGED <<cl, up, client>>
    PROVE  LinkInd'
  <1>0. TypeOK /\ toS \in Seq(ToServer)
    BY DEF LinkInd, TypeOK
  <1>1. m \in ToServer /\ toS' \in Seq(ToServer)
    BY <1>0, HeardOne
  <1>2. /\ TypeOK'
        /\ \/ srv' = srv
           \/ srv.input[m.q] \in {"open", "answered"} /\ srv' = Turned(srv, m.q, "aborted")
        /\ UNCHANGED <<runs, toC, answered>> /\ UNCHANGED <<stopped, aim, told, heardTo, resumedTo, resumedBy>>
        /\ UNCHANGED <<cl, up, cst, has, crun, doing, ask, withdrawn>>
    BY <1>0, <1>1, HearCancelFx
  <1> QED
    BY <1>2, QuestionEnds

LEMMA HearAckKeeps ==
    ASSUME LinkInd, toS # <<>>, NEW m, m = Head(toS), toS' = Tail(toS), m.t = "ack", HearAck(m),
           UNCHANGED <<cl, up, client>>
    PROVE  LinkInd'
  <1>0. TypeOK /\ toS \in Seq(ToServer)
    BY DEF LinkInd, TypeOK
  <1>1. m \in ToServer /\ toS' \in Seq(ToServer)
    BY <1>0, HeardOne
  <1>2. /\ TypeOK'
        /\ \/ srv' = srv
           \/ srv.input[m.q] = "unacked" /\ srv' = Turned(srv, m.q, "done")
        /\ UNCHANGED <<runs, toC, answered>> /\ UNCHANGED <<stopped, aim, told, heardTo, resumedTo, resumedBy>>
        /\ UNCHANGED <<cl, up, cst, has, crun, doing, ask, withdrawn>>
    BY <1>0, <1>1, HearAckFx
  <1> QED
    BY <1>2, QuestionEnds

\* A report of the runs.
LEMMA HearRunsKeeps ==
    ASSUME LinkInd, toS # <<>>, NEW m, m = Head(toS), toS' = Tail(toS), m.t = "runs", HearRuns(m),
           UNCHANGED <<cl, up, client>>
    PROVE  LinkInd'
  <1>0. /\ TypeOK /\ AskInv /\ WaitKept /\ AnswerKept /\ toS \in Seq(ToServer) /\ toC \in Seq(ToClient)
    BY DEF LinkInd, TypeOK
  <1>1. m \in ToServer /\ toS' \in Seq(ToServer) /\ Range(toS') \subseteq Range(toS)
    BY <1>0, HeardOne
  <1>2. /\ TypeOK' /\ (runs' = runs \/ runs' = m.st)
        /\ UNCHANGED <<srv, toC, answered>> /\ UNCHANGED <<stopped, aim, told, heardTo, resumedTo, resumedBy>>
        /\ UNCHANGED <<cl, up, cst, has, crun, doing, ask, withdrawn>>
    BY <1>0, <1>1, HearRunsFx
  <1>3. CGrows({"result"}) /\ CGrows(NewsC)
    BY <1>2 DEF CGrows
  <1>4. AskInv'
    <2>1. InputsGo
      BY <1>0, <1>2, SameGo
    <2>2. AsksGo
      BY <1>2 DEF AsksGo
    <2>3. AskedOnce'
      BY <1>0, AskFacts, OnceHeard
    <2> QED
      BY <1>0, <1>1, <1>2, <2>1, <2>2, <2>3, AskFrame
  <1>5. WaitKept'
    BY <1>0, <1>2, <1>3, WaitHeard
  <1>6. AnswerKept'
    BY <1>0, <1>1, <1>2, AnswerSame
  <1> QED
    BY <1>2, <1>3, <1>4, <1>5, <1>6, NewsOfQuestions

\* A link that was ended, or that the session has left, drops what it still receives.
LEMMA DroppedMessageKeeps ==
    ASSUME LinkInd, toS # <<>>, NEW m, m = Head(toS), toS' = Tail(toS), m.t # "resume",
           ~(srv.link = "attached" /\ srv.home = cl),
           UNCHANGED <<srv, runs, busy, answered, ghosts, toC>>, UNCHANGED <<cl, up, client>>
    PROVE  LinkInd'
  <1>0. /\ TypeOK /\ LineInv /\ AskInv /\ WaitKept /\ AnswerKept
        /\ toS \in Seq(ToServer) /\ toC \in Seq(ToClient)
    BY DEF LinkInd, TypeOK
  <1>1. m \in ToServer /\ toS' \in Seq(ToServer) /\ Range(toS') \subseteq Range(toS)
    BY <1>0, HeardOne
  <1>2. /\ UNCHANGED <<srv, runs, busy, toC, answered>>
        /\ UNCHANGED <<stopped, aim, told, heardTo, resumedTo, resumedBy, load>>
        /\ UNCHANGED <<cl, up, cst, has, crun, doing, ask, withdrawn>>
    BY DEF ghosts, client
  <1>3. TypeOK'
    BY <1>0, <1>1, <1>2 DEF TypeOK, n
  <1>4. CGrows({"result"}) /\ CGrows(NewsC)
    BY <1>2 DEF CGrows
  <1>5. AskInv'
    <2>1. InputsGo
      BY <1>0, <1>2, SameGo
    <2>2. AsksGo
      BY <1>2 DEF AsksGo
    <2>3. AskedOnce'
      BY <1>0, AskFacts, OnceHeard
    <2> QED
      BY <1>0, <1>1, <1>2, <1>3, <2>1, <2>2, <2>3, AskFrame
  <1>6. WaitKept'
    <2>1. ASSUME m.t = "ask", Waits(m.q)'
          PROVE  Cared(m.q)'
      <3>1. m.q \in Asks
        BY <1>1, <2>1, ToServerKinds
      <3>2. srv.link # "attached"
        BY <1>2, <2>1 DEF Waits
      <3> QED
        BY <1>0, <1>2, <2>1, <3>1, <3>2, WaitGone
    <2> QED
      BY <1>0, <1>2, <1>4, <2>1, WaitHeard
  <1>7. AnswerKept'
    BY <1>0, <1>1, <1>2, AnswerSame
  <1> QED
    BY <1>2, <1>3, <1>4, <1>5, <1>6, <1>7, NewsOfQuestions

\* A resume: whether the session goes on, starts again or is refused.
LEMMA ResumeOpens ==
    ASSUME TypeOK, OpenInv, NEW m \in ToServer, m.t = "resume", m.has = has, NEW s, Found(s),
           Refuses(m) \/ HandsOver(m, s) \/ Starts(m, s), toC = <<>>, cl \in Nat \ {0}, UNCHANGED has
    PROVE  OpenInv'
  <1>0. /\ s \in Sessions /\ (s.link = "suspended" <=> s.open) /\ (s.open => srv.open)
        /\ ~s.open => \A q \in Asks : s.input[q] \in {"none", "aborted", "unacked", "outbox", "done"}
    BY FoundFacts
  <1>1. /\ srv.open => srv.link # "closed" /\ has
        /\ srv.link = "suspended" => srv.open
        /\ srv.link # "attached" => srv.owed = {}
        /\ ~srv.open => \A q \in Asks : srv.input[q] \notin {"open", "answered"}
    BY OpenFacts
  <1>2. CASE Refuses(m)
    <2>1. srv' = srv /\ ~srv.open
      BY <1>1, <1>2 DEF Refuses
    <2> QED
      BY <1>1, <2>1, OpenStep
  <1>3. CASE HandsOver(m, s)
    <2>1. srv' = Handed(s, m.named) /\ s.open /\ has
      BY <1>0, <1>3 DEF HandsOver
    <2>2. m.named \in SUBSET Asks /\ n \in Nat
      BY ToServerKinds, Counted
    <2>3. srv'.link = "attached" /\ srv'.open
      BY <1>0, <2>1, <2>2, HandedFacts
    <2>4. \A x \in Range(toC') : x.t \in {"control", "result"} \/ (x.t = "resumed" /\ x.has)
      <3> PICK c : c = toC'
        OBVIOUS
      <3>1. /\ \A i \in 1 .. Len(c) : c[i].t # "resumed" => c[i].t \in {"control", "result"}
            /\ \A x \in Range(c) : x.t = "resumed" => x.has = TRUE
            /\ c \in Seq(ToClient)
        BY <1>0, <1>3, HandedLine
      <3>2. \A x \in Range(c) : \E i \in 1 .. Len(c) : c[i] = x
        BY ONLY <3>1, LineFacts
      <3>3. \A x \in Range(c) : x.t \in {"control", "result"} \/ (x.t = "resumed" /\ x.has)
        BY <3>1, <3>2
      <3> QED
        BY <3>3
    <2> QED
      BY <1>0, <1>1, <2>1, <2>3, <2>4, OpenStep
  <1>4. CASE Starts(m, s)
    <2>1. /\ srv'.open = FALSE /\ srv'.link # "suspended" /\ srv'.owed = {}
          /\ \A q \in Asks : srv'.input[q] = Ended(s.input[q])
      BY <1>4 DEF Starts
    <2> QED
      BY <1>0, <2>1, OpenEnds
  <1> QED
    BY <1>2, <1>3, <1>4

\* Only Stops that were held are sent, and they count as pressed by now.
LEMMA ResumeHears ==
    ASSUME TypeOK, TypeOK', HeardInv, NEW m \in ToServer, m.t = "resume", NEW s, Found(s), s \in Sessions,
           Refuses(m) \/ HandsOver(m, s) \/ Starts(m, s), toC = <<>>, toS' = <<>>, cl \in Nat \ {0}, n' = n,
           UNCHANGED <<heardTo, resumedTo, resumedBy, doing>>
    PROVE  HeardInv'
  <1>0. srv \in Sessions /\ n \in Nat
    BY Counted DEF TypeOK
  <1>1. \A x \in Range(toS') : x.t # "answer"
    BY EmptyLine
  <1>2. CASE Refuses(m)
    <2>1. srv' = srv /\ \E x \in ToClient : x.t = "refused" /\ toC' = <<x>>
      BY <1>2 DEF Refuses
    <2> PICK x \in ToClient : x.t = "refused" /\ toC' = <<x>>
      BY <2>1
    <2>2. Range(toC') = {x}
      BY DEF Range
    <2>3. \A y \in Range(toC') : y.t # "control"
      BY <2>2
    <2> QED
      BY <1>1, <2>1, <2>3, HeardAnew
  <1>3. CASE HandsOver(m, s)
    <2>1. srv' = Handed(s, m.named)
      BY <1>3 DEF HandsOver
    <2>2. m.named \in SUBSET Asks
      BY ToServerKinds
    <2>3. /\ \A o \in srv'.owed : o.at = n
          /\ srv'.late = s.late /\ \A w \in srv'.waits : w.at = n
      BY <1>0, <2>1, <2>2, HandedFacts
    <2>4. s.late \subseteq srv.late
      <3>1. CASE srv.link = "attached"
        <4>1. s = Dropped(srv)
          BY <3>1 DEF Found
        <4>2. s.late = {}
          BY <1>0, <3>1, <4>1, DroppedFacts
        <4> QED
          BY <4>2
      <3>2. CASE srv.link # "attached"
        BY <3>2 DEF Found
      <3> QED
        BY <3>1, <3>2
    <2>5. \A y \in Range(toC') : y.t = "control" => y.w.at = n
      <3> PICK c : c = toC'
        OBVIOUS
      <3>1. /\ \A i \in 1 .. Len(c) : c[i].t # "resumed" =>
                  \/ c[i].t = "control" /\ c[i].w.at = n
                  \/ c[i].t = "result"
            /\ c \in Seq(ToClient)
        BY <1>3, HandedLine
      <3>2. \A x \in Range(c) : \E i \in 1 .. Len(c) : c[i] = x
        BY ONLY <3>1, LineFacts
      <3>3. \A x \in Range(c) : x.t = "control" => x.w.at = n
        BY <3>1, <3>2
      <3> QED
        BY <3>3
    <2>6. \A w \in srv'.owed \cup srv'.waits \cup srv'.late : w \in srv.owed \cup srv.waits \cup srv.late \/ w.at = n
      BY <2>3, <2>4
    <2> QED
      BY <1>1, <2>5, <2>6, HeardAnew
  <1>4. CASE Starts(m, s)
    <2>1. /\ srv'.owed = {} /\ srv'.waits = {} /\ srv'.late = {}
          /\ \E x \in ToClient : x.t = "resumed" /\ toC' = <<x>>
      BY <1>4 DEF Starts
    <2> PICK x \in ToClient : x.t = "resumed" /\ toC' = <<x>>
      BY <2>1
    <2>2. Range(toC') = {x}
      BY DEF Range
    <2>3. \A y \in Range(toC') : y.t # "control"
      BY <2>2
    <2> QED
      BY <1>1, <2>1, <2>3, HeardAnew
  <1> QED
    BY <1>2, <1>3, <1>4

LEMMA HearResumeKeeps ==
    ASSUME LinkInd, toS # <<>>, NEW m, m = Head(toS), toS' = Tail(toS), m.t = "resume", HearResume(m),
           UNCHANGED <<cl, up, client>>
    PROVE  LinkInd'
  <1>0. /\ TypeOK /\ LineInv /\ OpenInv /\ HeardInv /\ EndInv
        /\ StopKept /\ ResumedKept /\ AskInv /\ WaitKept /\ AnswerKept /\ toS \in Seq(ToServer)
    BY DEF LinkInd, TypeOK
  <1>1. /\ m \in ToServer /\ toC = <<>> /\ toS' = <<>> /\ m.has = has
    BY <1>0, ResumeHeard
  <1>a. toS' \in Seq(ToServer)
    BY <1>0, HeardOne
  <1> PICK s : s = IF srv.link = "attached" THEN Dropped(srv) ELSE srv
    OBVIOUS
  <1>2. Found(s)
    BY DEF Found
  <1>3. /\ TypeOK' /\ ToldOn /\ s \in Sessions /\ toC' \in Seq(ToClient)
        /\ Refuses(m) \/ HandsOver(m, s) \/ Starts(m, s)
        /\ UNCHANGED <<runs, answered, stopped, aim, heardTo, resumedTo, resumedBy, load>>
        /\ UNCHANGED <<cl, up, cst, has, crun, doing, ask, withdrawn>>
    BY <1>0, <1>1, <1>2, <1>a, HearResumeFx
  <1>4. cl \in Nat \ {0} /\ n' = n
    BY <1>0, <1>3, Counted DEF ToldOn
  <1>5. LineInv'
    BY <1>0, <1>1, <1>3, LineResume
  <1>6. OpenInv'
    BY <1>0, <1>1, <1>2, <1>3, <1>4, ResumeOpens
  <1>7. HeardInv'
    BY <1>0, <1>1, <1>2, <1>3, <1>4, ResumeHears
  <1>8. \A x \in Range(toS') : FALSE
    BY <1>1, EmptyLine
  <1>9. EndInv'
    BY <1>0, <1>3, <1>8, EndStep
  <1>10. StopKept' /\ ResumedKept'
    BY <1>0, <1>1, <1>2, <1>3, ResumeKeepsStops
  <1>11. AskInv'
    <2>1. /\ InputsGo
          /\ \A y \in Range(toC') : y.t = "result" => srv'.input[y.q] \notin {"none", "open", "answered"}
      BY <1>0, <1>1, <1>2, <1>3, ResumeGo
    <2>2. AsksGo
      BY <1>3 DEF AsksGo
    <2>3. AskedOnce'
      BY <1>3, <1>8, OnceNone
    <2> QED
      BY <1>0, <1>3, <1>8, <2>1, <2>2, <2>3, AskFrame
  <1>12. WaitKept'
    BY <1>0, <1>1, <1>2, <1>3, WaitResume
  <1>13. AnswerKept'
    BY <1>0, <1>1, <1>2, <1>3, AnswerResume
  <1> QED
    BY <1>3, <1>5, <1>6, <1>7, <1>9, <1>10, <1>11, <1>12, <1>13 DEF LinkInd

LEMMA ServerHearsKeeps ==
    ASSUME LinkInd, ServerHears
    PROVE  LinkInd'
  <1> PICK m : m = Head(toS)
    OBVIOUS
  <1>1. toS # <<>> /\ toS' = Tail(toS) /\ UNCHANGED <<cl, up, client>>
    BY DEF ServerHears
  <1>2. \/ m.t = "resume" /\ HearResume(m)
        \/ /\ srv.link = "attached" /\ srv.home = cl
           /\ \/ m.t = "answer" /\ HearControl(m)
              \/ m.t = "ask"    /\ HearAsk(m)
              \/ m.t = "cancel" /\ HearCancel(m)
              \/ m.t = "ack"    /\ HearAck(m)
              \/ m.t = "runs"   /\ HearRuns(m)
        \/ /\ m.t # "resume" /\ ~(srv.link = "attached" /\ srv.home = cl)
           /\ UNCHANGED <<srv, runs, busy, answered, ghosts, toC>>
    BY DEF ServerHears
  <1>3. CASE m.t = "resume" /\ HearResume(m)
    BY <1>1, <1>3, HearResumeKeeps
  <1>4. CASE srv.link = "attached" /\ m.t = "answer" /\ HearControl(m)
    BY <1>1, <1>4, HearControlKeeps
  <1>5. CASE srv.link = "attached" /\ srv.home = cl /\ m.t = "ask" /\ HearAsk(m)
    BY <1>1, <1>5, HearAskKeeps
  <1>6. CASE m.t = "cancel" /\ HearCancel(m)
    BY <1>1, <1>6, HearCancelKeeps
  <1>7. CASE m.t = "ack" /\ HearAck(m)
    BY <1>1, <1>7, HearAckKeeps
  <1>8. CASE m.t = "runs" /\ HearRuns(m)
    BY <1>1, <1>8, HearRunsKeeps
  <1>9. CASE /\ m.t # "resume" /\ ~(srv.link = "attached" /\ srv.home = cl)
             /\ UNCHANGED <<srv, runs, busy, answered, ghosts, toC>>
    BY <1>1, <1>9, DroppedMessageKeeps
  <1> QED
    BY <1>2, <1>3, <1>4, <1>5, <1>6, <1>7, <1>8, <1>9

LEMMA TurnEndsKeeps ==
    ASSUME LinkInd, TurnEnds
    PROVE  LinkInd'
  <1>0. TypeOK
    BY DEF LinkInd
  <1>1. /\ TypeOK' /\ UNCHANGED <<srv, runs, answered>>
        /\ UNCHANGED <<cl, up, toC, toS, cst, has, crun, doing, ask, withdrawn>>
        /\ UNCHANGED <<stopped, aim, told, heardTo, resumedTo, resumedBy>>
    BY <1>0, TurnEndsFx
  <1> QED
    BY <1>1, IndSame

LEMMA StutterKeeps ==
    ASSUME LinkInd, UNCHANGED vars
    PROVE  LinkInd'
  <1>1. /\ UNCHANGED <<srv, runs, busy, answered, load>>
        /\ UNCHANGED <<cl, up, toC, toS, cst, has, crun, doing, ask, withdrawn>>
        /\ UNCHANGED <<stopped, aim, told, heardTo, resumedTo, resumedBy>>
    BY DEF vars, net, client, ghosts
  <1>2. TypeOK'
    BY <1>1 DEF LinkInd, TypeOK, n
  <1> QED
    BY <1>1, <1>2, IndSame

LEMMA NextKeeps ==
    ASSUME LinkInd, [Next]_vars
    PROVE  LinkInd'
  <1>1. CASE ServerNotices
    BY <1>1, ServerNoticesKeeps
  <1>2. CASE End
    BY <1>2, EndKeeps
  <1>3. CASE Release
    BY <1>3, LetGoKeeps DEF Release
  <1>4. CASE StopQuestion
    BY <1>4, LetGoKeeps DEF StopQuestion
  <1>5. CASE TurnEnds
    BY <1>5, TurnEndsKeeps
  <1>6. ASSUME NEW t \in Targets, Stop(t) \/ Resume(t)
        PROVE  LinkInd'
    BY <1>6, StopKeeps, ResumeKeeps
  <1>7. ASSUME NEW w \in srv.waits, TimeOut(w)
        PROVE  LinkInd'
    BY <1>7, TimeOutKeeps
  <1>8. ASSUME NEW q \in Asks, MemberAnswers(q) \/ Reply(q) \/ ClientAsks(q) \/ Withdraws(q)
        PROVE  LinkInd'
    BY <1>8, MemberAnswersKeeps, ReplyKeeps, ClientAsksKeeps, WithdrawsKeeps
  <1>9. CASE ServerHears
    BY <1>9, ServerHearsKeeps
  <1>10. CASE ClientHears
    BY <1>10, ClientHearsKeeps
  <1>11. ASSUME NEW d \in doing, Answers(d)
         PROVE  LinkInd'
    BY <1>11, AnswersKeeps
  <1>12. ASSUME NEW r \in Runs, RunEnds(r)
         PROVE  LinkInd'
    BY <1>12, RunEndsKeeps
  <1>13. CASE Break
    BY <1>13, BreakKeeps
  <1>14. CASE ClientNotices
    BY <1>14, ClientNoticesKeeps
  <1>15. CASE Reconnect
    BY <1>15, ReconnectKeeps
  <1>16. CASE UNCHANGED vars
    BY <1>16, StutterKeeps
  <1> QED
    BY <1>1, <1>2, <1>3, <1>4, <1>5, <1>6, <1>7, <1>8, <1>9, <1>10, <1>11, <1>12, <1>13, <1>14, <1>15, <1>16
       DEF Next

-----------------------------------------------------------------------------
(* The properties, of every behaviour.                                     *)

\* A session begins on its first link, with nothing owed and nothing on its way.
LEMMA InitHolds ==
    ASSUME Init
    PROVE  LinkInd
  <1>1. /\ load \in Loads
        /\ load.runs \subseteq Runs /\ load.links \in Nat \ {0} /\ load.presses \in Nat
        /\ load \in [runs: SUBSET Runs, finishing: SUBSET Runs, asks: SUBSET Asks, links: Nat \ {0},
                     presses: Nat, timeouts: Nat, endings: BOOLEAN]
    BY LinkAssumption DEF Init
  <1>2. /\ srv.home = 1 /\ srv.link = "attached" /\ srv.open = TRUE /\ srv.owed = {} /\ srv.held = {}
        /\ srv.waits = {} /\ srv.late = {} /\ \A q \in Asks : srv.input[q] = "none"
        /\ srv \in Sessions
    <2>1. [q \in Asks |-> "none"] \in [Asks -> Inputs]
      BY DEF Inputs
    <2>2. srv = [home |-> 1, link |-> "attached", open |-> TRUE, owed |-> {}, held |-> {},
                 waits |-> {}, late |-> {}, input |-> [q \in Asks |-> "none"]]
      BY DEF Init
    <2> QED
      BY <2>1, <2>2 DEF Sessions
  <1>3. toC = <<>> /\ toS = <<>> /\ told = <<>> /\ aim = <<>> /\ n = 0
    BY DEF Init, n
  <1>4. /\ cl = 1 /\ up = TRUE /\ cst = "on" /\ has = TRUE /\ doing = {} /\ answered = {} /\ withdrawn = {}
        /\ stopped = FALSE /\ busy = TRUE /\ ask = [q \in Asks |-> "none"]
        /\ crun = runs /\ runs = [r \in Runs |-> IF r \in load.runs THEN "running" ELSE "ended"]
        /\ heardTo = [r \in Runs |-> 0] /\ resumedTo = heardTo /\ resumedBy = heardTo
    BY DEF Init
  <1>5. TypeOK
    <2>1. runs \in RunStates
      BY <1>4 DEF RunStates, Live
    <2>2. cl \in 1 .. load.links
      BY <1>1, <1>4
    <2>3. ask \in [Asks -> {"none", "pending", "answered", "cancelled"}] /\ heardTo \in [Runs -> Nat]
      BY <1>4
    <2>4. /\ toC \in Seq(ToClient) /\ toS \in Seq(ToServer) /\ told \in Seq(Outcomes) /\ aim \in Seq(SUBSET Runs)
          /\ Len(aim) = n /\ n <= load.presses
      BY <1>1, <1>3
    <2> QED
      BY <1>1, <1>2, <1>4, <2>1, <2>2, <2>3, <2>4 DEF TypeOK
  <1>6. Range(toC) = {} /\ Range(toS) = {} /\ \A t : OnWay(toC, t) = {} /\ OnWay(toS, t) = {}
    BY <1>3, EmptyLine DEF OnWay
  <1>7. DOMAIN toC = {} /\ DOMAIN toS = {}
    BY <1>3
  <1>8. LineInv
    BY <1>2, <1>4, <1>6, <1>7 DEF LineInv
  <1>9. OpenInv
    BY <1>2, <1>4, <1>6 DEF OpenInv
  <1>10. HeardInv
    BY <1>2, <1>3, <1>4, <1>6, <1>7 DEF HeardInv
  <1>11. EndInv
    BY <1>4, <1>6 DEF EndInv
  <1>12. StopKept /\ ResumedKept
    BY <1>2, <1>3 DEF StopKept, ResumedKept
  <1>13. AskInv
    BY <1>2, <1>4, <1>6, <1>7 DEF AskInv
  <1>14. WaitKept
    BY <1>4 DEF WaitKept, Waits
  <1>15. AnswerKept
    BY <1>2, <1>4, <1>6 DEF AnswerKept
  <1> QED
    BY <1>5, <1>8, <1>9, <1>10, <1>11, <1>12, <1>13, <1>14, <1>15 DEF LinkInd

LEMMA AlwaysInd == Spec => []LinkInd
  <1>1. Init => LinkInd
    BY InitHolds
  <1>2. LinkInd /\ [Next]_vars => LinkInd'
    BY NextKeeps
  <1> QED
    BY <1>1, <1>2, PTL DEF Spec

LEMMA KeptIsNotLost ==
    ASSUME StopKept
    PROVE  StopNotLost
  BY DEF StopKept, StopNotLost, Owed

LEMMA KeptIsAnswered ==
    ASSUME TypeOK, WaitKept
    PROVE  WaitIsAnswered
  <1>1. SUFFICES ASSUME NEW q \in Asks, ask[q] = "pending", cst = "on", up, srv.home = cl
                 PROVE  \/ srv.input[q] \in {"open", "answered", "aborted", "unacked", "outbox"}
                        \/ \E i \in 1 .. Len(toS) : toS[i].t = "ask" /\ toS[i].q = q
                        \/ \E i \in 1 .. Len(toC) : \/ toC[i].t = "refused"
                                                    \/ toC[i].t = "result" /\ toC[i].q = q
    BY DEF WaitIsAnswered
  <1>2. Waits(q)
    BY <1>1 DEF Waits
  <1>3. Cared(q)
    BY <1>2, WaitFacts
  <1>4. toC \in Seq(ToClient) /\ toS \in Seq(ToServer)
    BY DEF TypeOK
  <1>5. /\ \A x \in Range(toC) : \E i \in 1 .. Len(toC) : toC[i] = x
        /\ \A x \in Range(toS) : \E i \in 1 .. Len(toS) : toS[i] = x
    BY <1>4, LineFacts
  <1> QED
    BY <1>3, <1>5 DEF Cared, OnLine, Asking

LEMMA KeptStaysResumed ==
    ASSUME ResumedKept
    PROVE  ResumedStaysResumed
  BY DEF ResumedKept, ResumedStaysResumed

LEMMA KeptNotCancelled ==
    ASSUME TypeOK, AnswerKept
    PROVE  AnswerNotCancelled
  <1>1. answered \subseteq Asks
    BY DEF TypeOK
  <1>2. SUFFICES ASSUME NEW q \in answered, ask[q] = "cancelled", ~(q \in withdrawn \/ stopped)
                 PROVE  FALSE
    BY DEF AnswerNotCancelled
  <1>3. Kept(q)
    BY <1>1, <1>2, KeptFacts DEF Wanted
  <1> QED
    BY <1>2, <1>3 DEF Kept

\* What the two ends of a link owe each other (link.ts, #unanswered and #held for Stops,
\* #input and #answer for questions): however often the network fails, on whichever link
\* the client is back, and in whatever order its answers come, a Stop is heard, undone,
\* owed or reported as failed, and a client that waits on a question will be answered.
THEOREM LinkHolds == Spec => []LinkInv
  <1>1. LinkInd => LinkInv
    BY KeptIsNotLost, KeptIsAnswered DEF LinkInd, LinkInv
  <1> QED
    BY <1>1, AlwaysInd, PTL

\* A run that a person has resumed stays resumed (link.ts, #undoStops): no Stop pressed
\* before the Resume is owed for it any more, so no later link sends one.
THEOREM ResumedStays == Spec => []ResumedStaysResumed
  <1>1. LinkInd => ResumedStaysResumed
    BY KeptStaysResumed DEF LinkInd
  <1> QED
    BY <1>1, AlwaysInd, PTL

\* An answer a member gave reaches the client as that answer or not yet (link.ts, #answer
\* and owesInput): neither a drop, nor a resume, nor the release of an idle session turns
\* it into a cancellation.
THEOREM AnswersStay == Spec => []AnswerNotCancelled
  <1>1. LinkInd => AnswerNotCancelled
    BY KeptNotCancelled DEF LinkInd
  <1> QED
    BY <1>1, AlwaysInd, PTL
=============================================================================
