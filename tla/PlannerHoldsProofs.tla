------------------------- MODULE PlannerHoldsProofs -------------------------
(***************************************************************************)
(* Proofs about PlannerHolds, for any links, logins and loads: one link is *)
(* the Planner, what a dropped one kept is parked with the hold and not    *)
(* ended by an earlier deadline (HoldsInv), and a hold is backed by a live *)
(* login and by its ownership in storage (HoldIsBacked).                   *)
(***************************************************************************)
EXTENDS PlannerHolds, TLAPS

\* What may become of the links other than K when the hold changes: a link that waits for its
\* answer is left alone, one that had it is never asked about again, and none is bound twice.
Moves(d, e, K) ==
    \A n \in Links \ K :
       /\ d.links[n] \in {"asking", "taking"} => e.links[n] = d.links[n]
       /\ e.links[n] \in {"met", "taking"} => e.links[n] = d.links[n]
       /\ d.links[n] \in Answered => e.links[n] \in Answered
       /\ d.links[n] \in Answered \ {"landing"} => e.links[n] # "landing"

\* The states a link goes through before it is answered.
Waiting == {"new", "located", "asking", "met", "taking"}

-----------------------------------------------------------------------------
(* The operators on the hold and its links.                                *)

\* The hold that is none has no link, no deadline and no login.
LEMMA NoHoldFields ==
    /\ NoHold.id = NoLink /\ NoHold.link = NoLink /\ NoHold.parked = NoLink
    /\ NoHold.login = NoLogin /\ NoHold.timer = "off" /\ NoHold.gen = 0
    /\ NoHold \notin Holds
  BY HoldsAssumption DEF NoHold, Holds

\* The fields of a document's hold.
LEMMA DocFields ==
    ASSUME NEW d \in Docs
    PROVE  /\ d.hold \in Holds \cup {NoHold} /\ d.links \in [Links -> States]
           /\ d.hold.link \in Links \cup {NoLink} /\ d.hold.parked \in Links \cup {NoLink}
           /\ d.hold.timer \in {"off", "on", "fired"}
           /\ d.hold # NoHold => d.hold \in Holds /\ d.hold.id \in Links /\ d.hold.login \in Logins
                                 /\ d.hold.gen \in Gens
           /\ d.hold.id = NoLink => d.hold = NoHold
           /\ d.hold.login = NoLogin => d.hold = NoHold
  BY HoldsAssumption DEF Docs, Holds, NoHold, Gens

\* Put changes the state of one link.
LEMMA PutFields ==
    ASSUME NEW d \in Docs, NEW k \in Links \cup {NoLink}, NEW s \in States
    PROVE  /\ Put(d, k, s) \in Docs /\ Put(d, k, s).hold = d.hold
           /\ \A n \in Links : Put(d, k, s).links[n] = IF n = k THEN s ELSE d.links[n]
  <1> USE HoldsAssumption
  <1>1. CASE k = NoLink
    BY <1>1 DEF Put
  <1>2. CASE k # NoLink
    BY <1>2 DEF Put, Docs
  <1> QED
    BY <1>1, <1>2

\* A hold that replaces another.
LEMMA HoldFields ==
    ASSUME NEW d \in Docs, NEW h \in Holds \cup {NoHold}
    PROVE  /\ [d EXCEPT !.hold = h] \in Docs /\ [d EXCEPT !.hold = h].hold = h
           /\ [d EXCEPT !.hold = h].links = d.links
  BY DEF Docs

\* Drop forgets the hold and ends what was kept.
LEMMA DropFields ==
    ASSUME NEW d \in Docs
    PROVE  /\ Drop(d) \in Docs /\ Drop(d).hold = NoHold
           /\ \A n \in Links : Drop(d).links[n] = IF n = d.hold.parked THEN "closed" ELSE d.links[n]
  <1> DEFINE e == Put(d, d.hold.parked, "closed")
  <1>0. d.hold.parked \in Links \cup {NoLink} /\ "closed" \in States
    BY DocFields DEF States
  <1>1. e \in Docs /\ \A n \in Links : e.links[n] = IF n = d.hold.parked THEN "closed" ELSE d.links[n]
    BY <1>0, PutFields
  <1>2. Drop(d) = [e EXCEPT !.hold = NoHold]
    BY DEF Drop
  <1> HIDE DEF e
  <1> QED
    BY <1>1, <1>2, HoldFields

\* Invalidate closes the attached link as well.
LEMMA InvalidateFields ==
    ASSUME NEW d \in Docs
    PROVE  /\ Invalidate(d) \in Docs /\ Invalidate(d).hold = NoHold
           /\ \A n \in Links : Invalidate(d).links[n] =
                 IF n \in {d.hold.parked, d.hold.link} THEN "closed" ELSE d.links[n]
  <1>1. /\ Drop(d) \in Docs /\ Drop(d).hold = NoHold
        /\ \A n \in Links : Drop(d).links[n] = IF n = d.hold.parked THEN "closed" ELSE d.links[n]
    BY DropFields
  <1>2. d.hold.link \in Links \cup {NoLink} /\ "closed" \in States
    BY DocFields DEF States
  <1> QED
    BY <1>1, <1>2, PutFields DEF Invalidate

\* Forgetting the hold leaves nothing attached and nothing kept.
LEMMA InvalidateDoc ==
    ASSUME NEW d \in Docs, HoldLinks(d)
    PROVE  /\ Invalidate(d) \in Docs /\ HoldLinks(Invalidate(d)) /\ Invalidate(d).hold = NoHold
           /\ Moves(d, Invalidate(d), {})
  BY InvalidateFields, NoHoldFields, DocFields, HoldsAssumption DEF HoldLinks, Moves, Answered

\* The same for a hold that has no link.
LEMMA DropDoc ==
    ASSUME NEW d \in Docs, HoldLinks(d), d.hold.link = NoLink
    PROVE  /\ Drop(d) \in Docs /\ HoldLinks(Drop(d)) /\ Drop(d).hold = NoHold
           /\ Moves(d, Drop(d), {})
  BY DropFields, NoHoldFields, DocFields, HoldsAssumption DEF HoldLinks, Moves, Answered

\* A link that is not answered yet moves on, or is refused.
LEMMA PutDoc ==
    ASSUME NEW d \in Docs, HoldLinks(d), NEW k \in Links, d.links[k] \in Waiting \cup {"closed"},
           NEW s \in Waiting \cup {"closed"}, d.links[k] = "closed" => s = "closed"
    PROVE  /\ Put(d, k, s) \in Docs /\ HoldLinks(Put(d, k, s)) /\ Put(d, k, s).hold = d.hold
           /\ Moves(d, Put(d, k, s), {k}) /\ Put(d, k, s).links[k] = s
  <1>1. s \in States
    BY DEF States, Waiting
  <1>2. /\ Put(d, k, s) \in Docs /\ Put(d, k, s).hold = d.hold
        /\ \A n \in Links : Put(d, k, s).links[n] = IF n = k THEN s ELSE d.links[n]
    BY <1>1, PutFields
  <1> QED
    BY <1>2, DocFields, HoldsAssumption DEF HoldLinks, Moves, Answered, Waiting

\* A link that does not wait for its answer moves on unnoticed.
LEMMA PutQuiet ==
    ASSUME NEW d \in Docs, NEW k \in Links, d.links[k] \in {"new", "located", "met"},
           NEW s \in {"located", "closed"}
    PROVE  Moves(d, Put(d, k, s), {})
  <1>1. s \in States
    BY DEF States
  <1>2. \A n \in Links : Put(d, k, s).links[n] = IF n = k THEN s ELSE d.links[n]
    BY <1>1, PutFields
  <1> QED
    BY <1>2 DEF Moves, Answered

\* The links that are not put.
LEMMA PutElse ==
    ASSUME NEW d \in Docs, NEW k \in Links, NEW s \in States
    PROVE  \A n \in Links \ {k} : Put(d, k, s).links[n] = d.links[n]
  BY PutFields

\* A link is bound to a hold that has none.
LEMMA BoundDoc ==
    ASSUME NEW d \in Docs, HoldLinks(d), d.hold.link = NoLink, d.hold # NoHold,
           NEW k \in Links, d.links[k] \in Waiting
    PROVE  /\ Bound(d, k) \in Docs /\ HoldLinks(Bound(d, k)) /\ Bound(d, k).links[k] = "landing"
           /\ Bound(d, k).hold = [d.hold EXCEPT !.link = k, !.timer = "off"]
           /\ Bound(d, k).hold # NoHold
           /\ Moves(d, Bound(d, k), {k})
  <1> DEFINE e == Put(d, k, "landing")
             h == [d.hold EXCEPT !.link = k, !.timer = "off"]
  <1>1. e \in Docs /\ e.hold = d.hold /\ \A n \in Links : e.links[n] = IF n = k THEN "landing" ELSE d.links[n]
    BY PutFields DEF States
  <1>2. h \in Holds /\ h.link = k /\ h.timer = "off" /\ h.parked = d.hold.parked /\ h.id = d.hold.id
    BY DocFields DEF Holds
  <1>3. Bound(d, k) = [e EXCEPT !.hold = h]
    BY <1>1 DEF Bound, Docs
  <1> HIDE DEF e, h
  <1>4. /\ Bound(d, k) \in Docs /\ Bound(d, k).hold = h
        /\ \A n \in Links : Bound(d, k).links[n] = IF n = k THEN "landing" ELSE d.links[n]
    BY <1>1, <1>2, <1>3, HoldFields
  <1>5. HoldLinks(Bound(d, k))
    BY <1>2, <1>4, DocFields, NoHoldFields, HoldsAssumption DEF HoldLinks, Answered, Waiting
  <1>6. Moves(d, Bound(d, k), {k})
    BY <1>4 DEF Moves
  <1> QED
    BY <1>2, <1>4, <1>5, <1>6, NoHoldFields DEF h

\* A new hold, bound to the link that claimed it.
Given(d, h) == Bound([d EXCEPT !.hold = h], h.id)

\* It is made on a document that is free.
LEMMA NewHoldDoc ==
    ASSUME NEW d \in Docs, HoldLinks(d), d.hold = NoHold,
           NEW h \in Holds, h.link = NoLink, h.parked = NoLink, d.links[h.id] \in Waiting
    PROVE  /\ Given(d, h) \in Docs /\ HoldLinks(Given(d, h))
           /\ Given(d, h).links[h.id] = "landing" /\ Moves(d, Given(d, h), {h.id})
           /\ Given(d, h).hold = [h EXCEPT !.link = h.id, !.timer = "off"]
  <1> DEFINE b == [d EXCEPT !.hold = h]
             f == Put(b, h.id, "landing")
             i == [h EXCEPT !.link = h.id, !.timer = "off"]
             e == Given(d, h)
  <1>1. h.id \in Links /\ h \in Holds \cup {NoHold} /\ "landing" \in States
    BY DEF Holds, States
  <1>2. /\ i \in Holds /\ i.id = h.id /\ i.link = h.id /\ i.parked = NoLink /\ i.timer = "off"
        /\ i \in Holds \cup {NoHold}
    BY <1>1 DEF Holds
  <1>3. b \in Docs /\ b.hold = h /\ b.links = d.links
    BY <1>1, HoldFields
  <1> HIDE DEF b
  <1>4. f \in Docs /\ f.hold = h /\ \A n \in Links : f.links[n] = IF n = h.id THEN "landing" ELSE d.links[n]
    BY <1>1, <1>3, PutFields
  <1>5. e = [f EXCEPT !.hold = i]
    <2>1. e = [f EXCEPT !.hold.link = h.id, !.hold.timer = "off"]
      BY DEF Bound, Given, b
    <2> HIDE DEF f, e
    <2> QED
      BY <1>4, <2>1 DEF Docs
  <1> HIDE DEF f, i, e
  <1>6. e \in Docs /\ e.hold = i /\ \A n \in Links : e.links[n] = IF n = h.id THEN "landing" ELSE d.links[n]
    BY <1>2, <1>4, <1>5, HoldFields
  <1>7. HoldLinks(e)
    BY <1>1, <1>2, <1>6, DocFields, NoHoldFields, HoldsAssumption DEF HoldLinks, Answered, Waiting
  <1>8. Moves(d, e, {h.id})
    BY <1>6 DEF Moves
  <1> QED
    BY <1>1, <1>6, <1>7, <1>8 DEF e, i

\* The attached link drops, and keeps its sessions or not.
LEMMA DetachedDoc ==
    ASSUME NEW d \in Docs, HoldLinks(d), NEW k \in Links, d.hold.link = k, NEW kept \in BOOLEAN
    PROVE  /\ Detached(d, k, kept) \in Docs /\ HoldLinks(Detached(d, k, kept))
           /\ Moves(d, Detached(d, k, kept), {})
           /\ Detached(d, k, kept).hold # NoHold /\ Detached(d, k, kept).hold.id = d.hold.id
           /\ Detached(d, k, kept).hold.login = d.hold.login /\ Detached(d, k, kept).hold.gen = d.hold.gen
           /\ Detached(d, k, kept).hold.link = NoLink
  <1> DEFINE s == IF kept THEN "suspended" ELSE "closed"
             e == [Put(d, k, s) EXCEPT !.hold.link = NoLink]
             r == Detached(d, k, kept)
  <1>1. d.hold # NoHold /\ d.hold \in Holds /\ d.hold.timer = "off" /\ d.links[k] \in {"landing", "bound"}
    BY DocFields, NoHoldFields, HoldsAssumption DEF HoldLinks
  <1>2. d.hold.parked # NoLink => d.hold.parked \in Links /\ d.links[d.hold.parked] = "suspended"
    BY DocFields DEF HoldLinks
  <1>3. s \in {"suspended", "closed"} /\ s \in States
    BY DEF States
  <1> HIDE DEF s
  <1>4. /\ Put(d, k, s) \in Docs /\ Put(d, k, s).hold = d.hold
        /\ \A n \in Links : Put(d, k, s).links[n] = IF n = k THEN s ELSE d.links[n]
    BY <1>3, PutFields
  <1>5. /\ e \in Docs /\ e.hold = [d.hold EXCEPT !.link = NoLink]
        /\ \A n \in Links : e.links[n] = IF n = k THEN s ELSE d.links[n]
    <2> DEFINE f == Put(d, k, s)
    <2> HIDE DEF f
    <2> QED
      BY <1>1, <1>4 DEF f, Docs, Holds
  <1>6. /\ e.hold \in Holds /\ e.hold.link = NoLink /\ e.hold.parked = d.hold.parked
        /\ e.hold.timer = "off" /\ e.hold.id = d.hold.id /\ e.hold.login = d.hold.login
        /\ e.hold.gen = d.hold.gen
    BY <1>1, <1>5 DEF Holds
  <1>7. CASE kept
    <2> DEFINE f == Put(e, d.hold.parked, "closed")
               g == [f EXCEPT !.hold.parked = k]
    <2>1. s = "suspended"
      BY <1>7 DEF s
    <2>2. r = g
      BY <1>7 DEF Detached, s
    <2> HIDE DEF e
    <2>3. /\ f \in Docs /\ f.hold = e.hold
          /\ \A n \in Links : f.links[n] = IF n = d.hold.parked THEN "closed" ELSE e.links[n]
      <3> "closed" \in States /\ d.hold.parked \in Links \cup {NoLink}
        BY DocFields DEF States
      <3> QED
        BY <1>5, PutFields
    <2> HIDE DEF f
    <2>4. g \in Docs /\ g.hold = [e.hold EXCEPT !.parked = k] /\ g.links = f.links
      BY <2>3, <1>6 DEF Docs, Holds
    <2>5. /\ g.hold \in Holds /\ g.hold.link = NoLink /\ g.hold.parked = k /\ g.hold.timer = "off"
          /\ g.hold.id = d.hold.id /\ g.hold.login = d.hold.login /\ g.hold.gen = d.hold.gen
      BY <2>4, <1>6 DEF Holds
    <2>6. \A n \in Links : g.links[n] = IF n = k THEN "suspended"
                                         ELSE IF n = d.hold.parked THEN "closed" ELSE d.links[n]
      BY <2>1, <2>3, <2>4, <1>5, <1>2, <1>1, HoldsAssumption
    <2> HIDE DEF g, r
    <2>7. HoldLinks(g) /\ Moves(d, g, {})
      BY <2>5, <2>6, <1>1, <1>2, DocFields, NoHoldFields, HoldsAssumption DEF HoldLinks, Moves, Answered
    <2> QED
      BY <2>2, <2>4, <2>5, <2>7, NoHoldFields DEF r
  <1>8. CASE ~kept
    <2> DEFINE g == IF e.hold.parked # NoLink THEN e ELSE StartGrace(e)
    <2>1. s = "closed"
      BY <1>8 DEF s
    <2>2. r = g
      BY <1>8 DEF Detached, s
    <2> HIDE DEF e
    <2>3. /\ g \in Docs /\ g.hold \in Holds /\ g.hold.link = NoLink /\ g.hold.parked = d.hold.parked
          /\ g.hold.timer # "off" => d.hold.parked = NoLink
          /\ g.hold.id = d.hold.id /\ g.hold.login = d.hold.login /\ g.hold.gen = d.hold.gen
          /\ \A n \in Links : g.links[n] = IF n = k THEN "closed" ELSE d.links[n]
      <3>1. CASE e.hold.parked # NoLink
        BY <3>1, <2>1, <1>5, <1>6
      <3>2. CASE e.hold.parked = NoLink
        BY <3>2, <2>1, <1>5, <1>6 DEF StartGrace, Docs, Holds
      <3> QED
        BY <3>1, <3>2
    <2> HIDE DEF g, r
    <2>4. HoldLinks(g) /\ Moves(d, g, {})
      BY <2>3, <1>1, <1>2, DocFields, NoHoldFields, HoldsAssumption DEF HoldLinks, Moves, Answered
    <2> QED
      BY <2>2, <2>3, <2>4, NoHoldFields DEF r
  <1> QED
    BY <1>7, <1>8

\* What a dropped link kept is ended or taken over by the attached one, or lapses.
LEMMA UnparkDoc ==
    ASSUME NEW d \in Docs, HoldLinks(d), NEW k \in Links, d.hold.parked = k
    PROVE  LET e == [Put(d, k, "closed") EXCEPT !.hold.parked = NoLink] IN
           /\ e \in Docs /\ HoldLinks(e) /\ Moves(d, e, {})
           /\ e.hold = [d.hold EXCEPT !.parked = NoLink] /\ e.hold \in Holds
           /\ e.links[k] = "closed"
  <1> DEFINE f == Put(d, k, "closed")
             e == [f EXCEPT !.hold.parked = NoLink]
  <1>1. d.hold # NoHold /\ d.hold \in Holds /\ d.hold.timer = "off" /\ d.links[k] = "suspended"
    BY DocFields, NoHoldFields, HoldsAssumption DEF HoldLinks
  <1>2. f \in Docs /\ f.hold = d.hold /\ \A n \in Links : f.links[n] = IF n = k THEN "closed" ELSE d.links[n]
    BY PutFields DEF States
  <1> HIDE DEF f
  <1>3. /\ e \in Docs /\ e.hold = [d.hold EXCEPT !.parked = NoLink] /\ e.hold \in Holds
        /\ \A n \in Links : e.links[n] = IF n = k THEN "closed" ELSE d.links[n]
    BY <1>1, <1>2 DEF Docs, Holds
  <1>4. /\ e.hold.link = d.hold.link /\ e.hold.parked = NoLink /\ e.hold.timer = "off"
        /\ e.hold.id = d.hold.id
    BY <1>1, <1>3 DEF Holds
  <1> HIDE DEF e
  <1>5. HoldLinks(e) /\ Moves(d, e, {})
    BY <1>1, <1>3, <1>4, DocFields, NoHoldFields, HoldsAssumption DEF HoldLinks, Moves, Answered
  <1> QED
    BY <1>3, <1>5 DEF e, f

\* A grace period starts, or runs out, only while nothing is attached and nothing is kept.
LEMMA TimerDoc ==
    ASSUME NEW d \in Docs, HoldLinks(d), d.hold # NoHold, d.hold.link = NoLink, d.hold.parked = NoLink,
           NEW t \in {"on", "fired"}
    PROVE  LET e == [d EXCEPT !.hold.timer = t] IN
           /\ e \in Docs /\ HoldLinks(e) /\ Moves(d, e, {}) /\ e.hold \in Holds
           /\ e.hold = [d.hold EXCEPT !.timer = t] /\ e.links = d.links
  <1> DEFINE e == [d EXCEPT !.hold.timer = t]
  <1>1. d.hold \in Holds
    BY DocFields
  <1>2. /\ e \in Docs /\ e.hold \in Holds /\ e.links = d.links
        /\ e.hold = [d.hold EXCEPT !.timer = t]
        /\ e.hold.link = NoLink /\ e.hold.parked = NoLink /\ e.hold.id = d.hold.id
    BY <1>1 DEF Docs, Holds
  <1> HIDE DEF e
  <1>3. HoldLinks(e) /\ Moves(d, e, {})
    BY <1>2, NoHoldFields DEF HoldLinks, Moves
  <1> QED
    BY <1>2, <1>3 DEF e

\* #lapsed.
LEMMA LapseDoc ==
    ASSUME NEW d \in Docs, HoldLinks(d), NEW k \in Links, d.links[k] = "suspended"
    PROVE  LET f == [Put(d, k, "closed") EXCEPT !.hold.parked = NoLink]
               e == IF d.hold.parked # k THEN Put(d, k, "closed")
                    ELSE IF f.hold.link # NoLink THEN f ELSE StartGrace(f) IN
           /\ e \in Docs /\ HoldLinks(e) /\ Moves(d, e, {}) /\ e.hold \in Holds
           /\ e.hold.id = d.hold.id /\ e.hold.login = d.hold.login /\ e.hold.gen = d.hold.gen
           /\ e.hold.link = d.hold.link
  <1> DEFINE f == [Put(d, k, "closed") EXCEPT !.hold.parked = NoLink]
             e == IF d.hold.parked # k THEN Put(d, k, "closed")
                  ELSE IF f.hold.link # NoLink THEN f ELSE StartGrace(f)
  <1>1. d.hold.parked = k /\ d.hold \in Holds
    BY DocFields, NoHoldFields, HoldsAssumption DEF HoldLinks
  <1>2. /\ f \in Docs /\ HoldLinks(f) /\ Moves(d, f, {})
        /\ f.hold = [d.hold EXCEPT !.parked = NoLink] /\ f.hold \in Holds
    BY <1>1, UnparkDoc
  <1>3. e = IF f.hold.link # NoLink THEN f ELSE StartGrace(f)
    BY <1>1
  <1> HIDE DEF f, e
  <1>4. /\ f.hold.id = d.hold.id /\ f.hold.login = d.hold.login /\ f.hold.gen = d.hold.gen
        /\ f.hold.link = d.hold.link /\ f.hold.parked = NoLink /\ f.hold # NoHold
    BY <1>1, <1>2, NoHoldFields DEF Holds
  <1>5. CASE f.hold.link # NoLink
    BY <1>2, <1>3, <1>4, <1>5 DEF e, f
  <1>6. CASE f.hold.link = NoLink
    <2>1. e = [f EXCEPT !.hold.timer = "on"]
      BY <1>3, <1>6 DEF StartGrace
    <2>2. /\ e \in Docs /\ HoldLinks(e) /\ Moves(f, e, {}) /\ e.hold \in Holds
          /\ e.hold = [f.hold EXCEPT !.timer = "on"] /\ e.links = f.links
      BY <2>1, <1>2, <1>4, <1>6, TimerDoc
    <2>3. /\ e.hold.id = f.hold.id /\ e.hold.login = f.hold.login /\ e.hold.gen = f.hold.gen
          /\ e.hold.link = f.hold.link
      BY <2>2, <1>2 DEF Holds
    <2>4. Moves(d, e, {})
      BY <2>2, <1>2 DEF Moves
    <2> QED
      BY <2>2, <2>3, <2>4, <1>4 DEF e, f
  <1> QED
    BY <1>5, <1>6

\* The grant reaches the link.
LEMMA LandDoc ==
    ASSUME NEW d \in Docs, HoldLinks(d), NEW k \in Links, d.links[k] = "landing"
    PROVE  /\ Put(d, k, "bound") \in Docs /\ HoldLinks(Put(d, k, "bound"))
           /\ Moves(d, Put(d, k, "bound"), {}) /\ Put(d, k, "bound").hold = d.hold
           /\ Put(d, k, "bound").links[k] = "bound"
  <1>1. "bound" \in States
    BY DEF States
  <1>2. /\ Put(d, k, "bound") \in Docs /\ Put(d, k, "bound").hold = d.hold
        /\ \A n \in Links : Put(d, k, "bound").links[n] = IF n = k THEN "bound" ELSE d.links[n]
    BY <1>1, PutFields
  <1> QED
    BY <1>2, DocFields, HoldsAssumption DEF HoldLinks, Moves, Answered

LEMMA MovesOn ==
    ASSUME NEW d, NEW e, NEW f, NEW K, Moves(d, e, {}), Moves(e, f, K)
    PROVE  Moves(d, f, K)
  BY DEF Moves

LEMMA MovesNot ==
    ASSUME NEW d, NEW K
    PROVE  Moves(d, d, K)
  BY DEF Moves

-----------------------------------------------------------------------------
(* What a step does to the queue and to the links.                         *)

\* Nobody's turn changes.
Quiet == queue' = queue /\ met' = met /\ Moves(doc, doc', {})

\* A link asks, or asks to take over from the one it met.
Asks ==
    \E k \in Links, do \in {"attach", "takeover"} :
       /\ queue' = Append(queue, [do |-> do, of |-> k]) /\ met' = met /\ Moves(doc, doc', {k})
       /\ \/ do = "attach" /\ doc.links[k] = "located" /\ doc'.links[k] = "asking"
          \/ do = "takeover" /\ doc.links[k] = "met" /\ doc'.links[k] = "taking" /\ Settled

\* Something that ends a hold waits its turn.
Adds ==
    \E j \in Jobs :
       /\ queue' = Append(queue, j) /\ met' = met /\ Moves(doc, doc', {})
       /\ \/ j.do = "expire" /\ j.of \in Links /\ doc.links[j.of] \in Answered
          \/ j.do = "end"
          \/ j.do = "stop" /\ j.of \in Logins

\* A turn is over: an ending's, or that of a link, which has its answer or met another.
Finishes ==
    /\ queue # <<>> /\ queue' = Tail(queue)
    /\ \/ met' = met /\ Moves(doc, doc', {})
       \/ \E k \in Links :
             /\ queue[1].of = k /\ queue[1].do \in {"attach", "takeover"} /\ Moves(doc, doc', {k})
             /\ \/ doc'.links[k] \in {"closed", "landing"} /\ met' = met
                \/ \E m \in Links :
                      /\ doc'.links[k] = "met" /\ doc'.links[m] \in Answered
                      /\ met' = [met EXCEPT ![k] = [link |-> m, endings |-> endings]]

Shape == /\ doc' \in Docs /\ HoldLinks(doc')
         /\ Quiet \/ Asks \/ Adds \/ Finishes

Inv == HoldsInv /\ HoldIsBacked

\* It waits for its login, or its turn is over.
Begins(d, k) ==
    \/ /\ op' = [NoOp EXCEPT !.at = "login", !.link = k, !.held = d.hold.id,
                             !.ids = IF d.hold = NoHold THEN {} ELSE {d.hold.login}]
       /\ queue' = queue /\ doc' = d /\ (d.hold = NoHold \/ d.hold.link = NoLink)
    \/ /\ op' = NoOp /\ queue' = Tail(queue) /\ doc'.hold = d.hold
       /\ \A n \in Links \ {k} : doc'.links[n] = d.links[n]

\* #attach, up to its first wait.
LEMMA BeginShape ==
    ASSUME Inv, NEW d \in Docs, HoldLinks(d), Moves(doc, d, {}), NEW k \in Links, NEW again \in BOOLEAN,
           queue # <<>>, queue[1].of = k, queue[1].do \in {"attach", "takeover"}, Begin(d, k, again)
    PROVE  /\ Shape
           /\ Begins(d, k)
  <1>0. doc.links[k] \in {"asking", "taking"} /\ d.links[k] \in {"asking", "taking"}
    <2>1. 1 \in 1 .. Len(queue)
      BY DEF Inv, HoldsInv, TypeOK
    <2>2. doc.links[k] \in {"asking", "taking"}
      BY <2>1 DEF Inv, HoldsInv, QueueInv
    <2> QED
      BY <2>2 DEF Moves
  <1>1. CASE d.hold = NoHold \/ (d.hold.link = NoLink /\ UserOf[d.hold.login] = UserOf[LoginOf[k]])
    BY <1>1 DEF Begin, Begins, Shape, Quiet
  <1>2. ASSUME Refuse(d, k), UNCHANGED met
        PROVE  /\ Shape
               /\ op' = NoOp /\ queue' = Tail(queue) /\ doc'.hold = d.hold
               /\ \A n \in Links \ {k} : doc'.links[n] = d.links[n]
    <2>1. doc' = Put(d, k, "closed") /\ op' = NoOp /\ queue' = Tail(queue)
      BY <1>2 DEF Refuse, Finish
    <2>2. /\ Put(d, k, "closed") \in Docs /\ HoldLinks(Put(d, k, "closed")) /\ Put(d, k, "closed").hold = d.hold
          /\ Moves(d, Put(d, k, "closed"), {k}) /\ Put(d, k, "closed").links[k] = "closed"
      BY <1>0, PutDoc DEF Waiting
    <2>3. \A n \in Links \ {k} : doc'.links[n] = d.links[n]
      BY <2>1, PutElse DEF States
    <2>4. Moves(doc, doc', {k})
      BY <2>1, <2>2, MovesOn
    <2> QED
      BY <2>1, <2>2, <2>3, <2>4, <1>2 DEF Shape, Finishes
  <1>3. ASSUME d.hold.link # NoLink, Finish, doc' = Put(d, k, "met"),
               met' = [met EXCEPT ![k] = [link |-> d.hold.link, endings |-> endings]]
        PROVE  /\ Shape
               /\ op' = NoOp /\ queue' = Tail(queue) /\ doc'.hold = d.hold
               /\ \A n \in Links \ {k} : doc'.links[n] = d.links[n]
    <2>1. op' = NoOp /\ queue' = Tail(queue)
      BY <1>3 DEF Finish
    <2>2. /\ Put(d, k, "met") \in Docs /\ HoldLinks(Put(d, k, "met")) /\ Put(d, k, "met").hold = d.hold
          /\ Moves(d, Put(d, k, "met"), {k}) /\ Put(d, k, "met").links[k] = "met"
      BY <1>0, PutDoc DEF Waiting
    <2>3. \A n \in Links \ {k} : doc'.links[n] = d.links[n]
      BY <1>3, PutElse DEF States
    <2>4. Moves(doc, doc', {k})
      BY <1>3, <2>2, MovesOn
    <2>5. d.hold.link \in Links /\ d.links[d.hold.link] \in Answered
      BY <1>3, DocFields DEF HoldLinks, Answered
    <2>6. doc'.links[d.hold.link] \in Answered
      BY <2>5, <2>3, <1>0 DEF Answered
    <2> QED
      BY <2>1, <2>2, <2>3, <2>4, <2>5, <2>6, <1>3 DEF Shape, Finishes
  <1> QED
    BY <1>1, <1>2, <1>3 DEF Begin, Begins

\* A link whose turn it is, and which waits for its answer.
LEMMA OpLink ==
    ASSUME Inv, op.at \in Attaching
    PROVE  /\ op.link \in Links /\ queue # <<>> /\ queue[1].of = op.link
           /\ queue[1].do \in {"attach", "takeover"}
           /\ doc.links[op.link] \in {"asking", "taking"}
  <1>1. op.link \in Links /\ queue[1].of = op.link /\ queue[1].do \in {"attach", "takeover"}
    BY DEF Inv, HoldsInv, OpInv
  <1>2. queue # <<>>
    BY DEF Inv, HoldsInv, OpInv, Attaching
  <1>3. 1 \in 1 .. Len(queue)
    BY <1>2 DEF Inv, HoldsInv, TypeOK
  <1> QED
    BY <1>1, <1>2, <1>3 DEF Inv, HoldsInv, QueueInv

\* The attach under way is refused.
LEMMA RefuseShape ==
    ASSUME Inv, op.at \in Attaching, Refuse(doc, op.link), met' = met
    PROVE  Shape /\ op' = NoOp /\ doc'.hold = doc.hold /\ queue' = Tail(queue)
  <1>1. /\ op.link \in Links /\ queue # <<>> /\ queue[1].of = op.link
        /\ queue[1].do \in {"attach", "takeover"} /\ doc.links[op.link] \in {"asking", "taking"}
    BY OpLink
  <1>2. doc' = Put(doc, op.link, "closed") /\ queue' = Tail(queue) /\ op' = NoOp
    BY DEF Refuse, Finish
  <1>3. doc \in Docs /\ HoldLinks(doc)
    BY DEF Inv, HoldsInv, TypeOK
  <1>4. /\ doc' \in Docs /\ HoldLinks(doc') /\ doc'.hold = doc.hold
        /\ Moves(doc, doc', {op.link}) /\ doc'.links[op.link] = "closed"
    <2>1. PICK k \in Links : k = op.link
      BY <1>1
    <2>3. doc.links[k] \in {"asking", "taking"}
      BY <1>1, <2>1
    <2>2. /\ Put(doc, k, "closed") \in Docs /\ HoldLinks(Put(doc, k, "closed"))
          /\ Put(doc, k, "closed").hold = doc.hold
          /\ Moves(doc, Put(doc, k, "closed"), {k}) /\ Put(doc, k, "closed").links[k] = "closed"
      BY <1>3, <2>3, PutDoc DEF Waiting
    <2> QED
      BY <1>2, <2>1, <2>2
  <1> QED
    BY <1>1, <1>2, <1>4 DEF Shape, Finishes

\* Every step keeps the hold and its links together, and moves the queue in one of four ways.
LEMMA StepShape ==
    ASSUME Inv, [Next]_vars
    PROVE  Shape
  <1> USE DEF storage, ends
  <1>1. doc \in Docs /\ HoldLinks(doc) /\ queue \in Seq(Jobs) /\ op \in Ops
    BY DEF Inv, HoldsInv, TypeOK
  <1>2. ASSUME doc' = doc, queue' = queue, met' = met
        PROVE  Shape
    BY <1>1, <1>2, MovesNot DEF Shape, Quiet
  <1>3. ASSUME doc' = Invalidate(doc), queue' = queue, met' = met
        PROVE  Shape
    BY <1>1, <1>3, InvalidateDoc DEF Shape, Quiet
  <1>4. ASSUME NEW k \in Links, StartAttach(k)
        PROVE  Shape
    <2>1. /\ queue # <<>> /\ queue[1] = [do |-> "attach", of |-> k] /\ 1 \in 1 .. Len(queue)
          /\ queue[1].of = k /\ queue[1].do \in {"attach", "takeover"}
      BY <1>1, <1>4 DEF StartAttach, Ready
    <2>2. doc.links[k] = "asking"
      BY <2>1 DEF Inv, HoldsInv, QueueInv
    <2>3. Begin(doc, k, FALSE)
      BY <1>4, <2>2 DEF StartAttach
    <2>4. Moves(doc, doc, {})
      BY MovesNot
    <2> QED
      BY <1>1, <2>1, <2>3, <2>4, BeginShape
  <1>5. ASSUME NEW k \in Links, StartTakeover(k)
        PROVE  Shape
    <2>1. /\ queue # <<>> /\ queue[1] = [do |-> "takeover", of |-> k] /\ 1 \in 1 .. Len(queue)
          /\ queue[1].of = k /\ queue[1].do \in {"attach", "takeover"}
      BY <1>1, <1>5 DEF StartTakeover, Ready
    <2>2. doc.links[k] = "taking"
      BY <2>1 DEF Inv, HoldsInv, QueueInv
    <2>3. ASSUME Refuse(doc, k), met' = met
          PROVE  Shape
      <3>1. doc' = Put(doc, k, "closed") /\ queue' = Tail(queue)
        BY <2>3 DEF Refuse, Finish
      <3>2. /\ doc' \in Docs /\ HoldLinks(doc') /\ Moves(doc, doc', {k}) /\ doc'.links[k] = "closed"
        BY <1>1, <2>2, <3>1, PutDoc DEF Waiting
      <3> QED
        BY <2>1, <2>3, <3>1, <3>2 DEF Shape, Finishes
    <2>4. ASSUME doc.hold.link # NoLink, NEW kept \in BOOLEAN, Begin(Detached(doc, doc.hold.link, kept), k, TRUE)
          PROVE  Shape
      <3> DEFINE d == Detached(doc, doc.hold.link, kept)
      <3>1. doc.hold.link \in Links
        BY <1>1, <2>4, DocFields
      <3>2. d \in Docs /\ HoldLinks(d) /\ Moves(doc, d, {})
        BY <1>1, <3>1, DetachedDoc
      <3> HIDE DEF d
      <3> QED
        BY <3>2, <2>1, <2>4, BeginShape DEF d
    <2>5. ASSUME Begin(doc, k, TRUE)
          PROVE  Shape
      BY <1>1, <2>1, <2>5, MovesNot, BeginShape
    <2> QED
      BY <1>5, <2>3, <2>4, <2>5 DEF StartTakeover
  <1>6. ASSUME NEW k \in Links, Land(k)
        PROVE  Shape
    BY <1>1, <1>6, LandDoc DEF Land, Shape, Quiet
  <1>7. CASE Login
    BY <1>1, <1>2, <1>7, RefuseShape DEF Login, Attaching
  <1>8. CASE Access
    <2>1. CASE Refuse(doc, op.link)
      BY <1>8, <2>1, RefuseShape DEF Access, Attaching
    <2>2. CASE UNCHANGED queue /\ doc' = Drop(doc) /\ op.held # NoLink /\ Here
      <3>1. doc.hold.link = NoLink
        BY <1>8, <2>2 DEF Access, Here, Inv, HoldsInv, OpInv
      <3> QED
        BY <1>1, <1>8, <2>2, <3>1, DropDoc DEF Access, Shape, Quiet
    <2>3. CASE UNCHANGED queue /\ UNCHANGED doc
      BY <1>2, <1>8, <2>3 DEF Access
    <2> QED
      BY <1>8, <2>1, <2>2, <2>3 DEF Access
  <1>9. CASE Released
    BY <1>2, <1>9 DEF Released
  <1>10. CASE Read
    BY <1>2, <1>10 DEF Read
  <1>11. CASE Check
    <2>0. op.at \in Attaching /\ met' = met
      BY <1>11 DEF Check, Attaching
    <2>1. CASE op.inv
      BY <1>11, <2>0, <2>1, RefuseShape DEF Check
    <2>2. ASSUME Here
          PROVE  doc.hold # NoHold /\ doc.hold.link = NoLink
      BY <1>11, <2>2 DEF Check, Here, Inv, HoldsInv, OpInv
    <2>3. CASE Here /\ Finish /\ doc' = Bound(doc, op.link)
      <3>1. /\ op.link \in Links /\ queue # <<>> /\ queue[1].of = op.link
            /\ queue[1].do \in {"attach", "takeover"} /\ doc.links[op.link] \in {"asking", "taking"}
        BY <2>0, OpLink
      <3>2. /\ doc' \in Docs /\ HoldLinks(doc') /\ doc'.links[op.link] = "landing"
            /\ Moves(doc, doc', {op.link})
        BY <1>1, <2>2, <2>3, <3>1, BoundDoc DEF Waiting
      <3> QED
        BY <2>0, <2>3, <3>1, <3>2 DEF Shape, Finishes, Finish
    <2>4. CASE Here /\ doc' = Drop(doc) /\ UNCHANGED queue
      BY <1>1, <2>0, <2>2, <2>4, DropDoc DEF Shape, Quiet
    <2>5. CASE doc' = doc /\ UNCHANGED queue
      BY <1>2, <2>0, <2>5
    <2> QED
      BY <1>11, <2>1, <2>3, <2>4, <2>5 DEF Check
  <1>12. CASE Claim
    BY <1>1, <1>2, <1>12, RefuseShape DEF Claim, Attaching
  <1>13. CASE Hold
    <2>0. op.at \in Attaching /\ met' = met /\ op.at = "live"
      BY <1>13 DEF Hold, Attaching
    <2>1. CASE UNCHANGED <<doc, queue>>
      BY <1>2, <2>0, <2>1
    <2>2. CASE Finish /\ doc' = Bound([doc EXCEPT !.hold = [NoHold EXCEPT !.id = op.link, !.login = op.login,
                                                                !.gen = op.gen]], op.link)
      <3>1. /\ op.link \in Links /\ queue # <<>> /\ queue[1].of = op.link
            /\ queue[1].do \in {"attach", "takeover"} /\ doc.links[op.link] \in {"asking", "taking"}
        BY <2>0, OpLink
      <3>2. doc.hold = NoHold /\ op.login \in Logins /\ op.gen \in Gens
        BY <1>1, <2>0 DEF Inv, HoldsInv, OpInv, Ops
      <3>3. doc.links[op.link] \in Waiting
        BY <3>1 DEF Waiting
      <3> DEFINE h == [NoHold EXCEPT !.id = op.link, !.login = op.login, !.gen = op.gen]
      <3>4. /\ h \in Holds /\ h.id = op.link /\ h.link = NoLink /\ h.parked = NoLink
            /\ doc' = Given(doc, h)
        BY <2>2, <3>1, <3>2 DEF Given, NoHold, Holds
      <3> HIDE DEF h
      <3>5. /\ doc' \in Docs /\ HoldLinks(doc') /\ doc'.links[op.link] = "landing"
            /\ Moves(doc, doc', {op.link})
        BY <1>1, <3>2, <3>3, <3>4, NewHoldDoc
      <3> QED
        BY <2>0, <2>2, <3>1, <3>5 DEF Shape, Finishes, Finish
    <2> QED
      BY <1>13, <2>1, <2>2 DEF Hold
  <1>14. CASE Undo
    BY <1>1, <1>2, <1>14, RefuseShape DEF Undo, Attaching
  <1>15. CASE StartEnding
    <2>0. queue # <<>> /\ met' = met
      BY <1>15 DEF StartEnding, Ready
    <2>1. CASE doc' = Invalidate(doc) /\ UNCHANGED queue
      BY <1>3, <2>0, <2>1
    <2>2. CASE Finish /\ UNCHANGED doc
      BY <1>1, <2>0, <2>2, MovesNot DEF Finish, Shape, Finishes
    <2> QED
      BY <1>15, <2>1, <2>2 DEF StartEnding
  <1>16. CASE EndingReleased
    <2>0. queue # <<>> /\ met' = met
      BY <1>16 DEF EndingReleased, Inv, HoldsInv, OpInv
    <2> QED
      BY <1>1, <1>16, <2>0, MovesNot DEF EndingReleased, Finish, Shape, Finishes
  <1>17. ASSUME NEW k \in Links, Locate(k)
         PROVE  Shape
    BY <1>1, <1>17, PutDoc, PutQuiet DEF Locate, Waiting, Shape, Quiet
  <1>18. ASSUME NEW k \in Links, Ask(k)
         PROVE  Shape
    <2>1. doc' \in Docs /\ HoldLinks(doc') /\ Moves(doc, doc', {k}) /\ doc'.links[k] = "asking"
      BY <1>1, <1>18, PutDoc DEF Ask, Waiting
    <2> QED
      BY <1>18, <2>1 DEF Ask, Shape, Asks
  <1>19. ASSUME NEW k \in Links, Confirm(k)
         PROVE  Shape
    <2>1. doc' \in Docs /\ HoldLinks(doc') /\ Moves(doc, doc', {k}) /\ doc'.links[k] = "taking"
      BY <1>1, <1>19, PutDoc DEF Confirm, Waiting
    <2> QED
      BY <1>19, <2>1 DEF Confirm, Shape, Asks
  <1>20. ASSUME NEW k \in Links, FirstMessage(k)
         PROVE  Shape
    <2>1. doc.hold.parked \in Links
      BY <1>1, <1>20, DocFields DEF FirstMessage
    <2> QED
      BY <1>1, <1>20, <2>1, UnparkDoc DEF FirstMessage, Shape, Quiet
  <1>21. ASSUME NEW k \in Links, Close(k)
         PROVE  Shape
    <2>1. CASE doc.links[k] = "bound"
      <3>1. doc.hold.link = k
        BY <2>1, <1>1 DEF HoldLinks
      <3>2. PICK kept \in BOOLEAN : doc' = Detached(doc, k, kept)
        BY <1>21, <2>1 DEF Close
      <3> QED
        BY <1>1, <1>21, <3>1, <3>2, DetachedDoc DEF Close, Shape, Quiet
    <2>2. CASE doc.links[k] # "bound"
      <3>1. doc' = Put(doc, k, "closed") /\ doc.links[k] \in {"located", "met"} /\ queue' = queue /\ met' = met
        BY <1>21, <2>2 DEF Close
      <3>2. doc' \in Docs /\ HoldLinks(doc')
        BY <1>1, <3>1, PutDoc DEF Waiting
      <3>3. Moves(doc, doc', {})
        BY <1>1, <3>1, PutQuiet
      <3> QED
        BY <3>1, <3>2, <3>3 DEF Shape, Quiet
    <2> QED
      BY <2>1, <2>2
  <1>22. ASSUME NEW k \in Links, Lapse(k)
         PROVE  Shape
    BY <1>1, <1>22, LapseDoc DEF Lapse, Shape, Quiet
  <1>23. ASSUME NEW k \in Links, Recheck(k)
         PROVE  Shape
    <2>1. CASE doc' = Detached(doc, k, FALSE)
      BY <1>1, <1>23, <2>1, DetachedDoc DEF Recheck, Shape, Quiet
    <2> QED
      BY <1>3, <1>23, <2>1 DEF Recheck
  <1>24. ASSUME NEW l \in Logins, Revoke(l)
         PROVE  Shape
    BY <1>2, <1>3, <1>24 DEF Revoke
  <1>25. ASSUME NEW l \in Logins, Delete(l)
         PROVE  Shape
    BY <1>2, <1>25 DEF Delete
  <1>26. ASSUME NEW l \in Logins, StopMachine(l)
         PROVE  Shape
    <2>1. [do |-> "stop", of |-> l] \in Jobs
      BY DEF Jobs
    <2> QED
      BY <1>1, <1>26, <2>1, MovesNot DEF StopMachine, Shape, Adds
  <1>27. CASE GraceEnds
    <2>1. doc.hold # NoHold /\ doc.hold.link = NoLink /\ doc.hold.parked = NoLink
      BY <1>1, <1>27, NoHoldFields DEF GraceEnds, HoldLinks
    <2>2. doc.hold.id \in Links /\ doc.links[doc.hold.id] \in Answered
      BY <1>1, <2>1, DocFields DEF HoldLinks
    <2>3. [do |-> "expire", of |-> doc.hold.id] \in Jobs
      BY <2>2 DEF Jobs
    <2>4. doc' \in Docs /\ HoldLinks(doc') /\ Moves(doc, doc', {})
      BY <1>1, <1>27, <2>1, TimerDoc DEF GraceEnds
    <2> QED
      BY <1>27, <2>2, <2>3, <2>4 DEF GraceEnds, Shape, Adds
  <1>28. CASE Release
    BY <1>2, <1>28 DEF Release
  <1>29. CASE ResetClear \/ ResetLost
    BY <1>2, <1>29 DEF ResetClear, ResetLost
  <1>30. CASE ResetDone
    BY <1>2, <1>3, <1>30 DEF ResetDone
  <1>31. CASE Archive
    <2>1. [do |-> "end", of |-> NoLink] \in Jobs
      BY DEF Jobs
    <2> QED
      BY <1>1, <1>31, <2>1, MovesNot DEF Archive, Shape, Adds
  <1>32. CASE UNCHANGED vars
    BY <1>2, <1>32 DEF vars
  <1> HIDE DEF Shape
  <1> QED
    BY <1>4, <1>5, <1>6, <1>7, <1>8, <1>9, <1>10, <1>11, <1>12, <1>13, <1>14, <1>15, <1>16, <1>17, <1>18,
       <1>19, <1>20, <1>21, <1>22, <1>23, <1>24, <1>25, <1>26, <1>27, <1>28, <1>29, <1>30, <1>31, <1>32
       DEF Next, AttachStep

-----------------------------------------------------------------------------
(* The queue and the links that met another.                               *)

LEMMA TailAt ==
    ASSUME NEW q \in Seq(Jobs), q # <<>>
    PROVE  /\ Tail(q) \in Seq(Jobs) /\ Len(Tail(q)) = Len(q) - 1 /\ 1 \in 1 .. Len(q)
           /\ \A i \in 1 .. Len(Tail(q)) : i + 1 \in 1 .. Len(q) /\ Tail(q)[i] = q[i + 1]
  OBVIOUS

LEMMA AppendAt ==
    ASSUME NEW q \in Seq(Jobs), NEW j \in Jobs
    PROVE  /\ Append(q, j) \in Seq(Jobs) /\ Len(Append(q, j)) = Len(q) + 1
           /\ \A i \in 1 .. Len(q) : Append(q, j)[i] = q[i]
           /\ Append(q, j)[Len(q) + 1] = j
  OBVIOUS

\* A job that waits is one of those that may.
Waits(j, d) ==
    /\ j.do = "attach" => j.of \in Links /\ d.links[j.of] = "asking"
    /\ j.do = "takeover" => j.of \in Links /\ d.links[j.of] = "taking"
    /\ j.do = "expire" => j.of \in Links /\ d.links[j.of] \in Answered
    /\ j.do = "stop" => j.of \in Logins

LEMMA MovesWaits ==
    ASSUME NEW d, NEW e, NEW K, NEW j, Moves(d, e, K), Waits(j, d), j.of \notin K
    PROVE  Waits(j, e)
  BY DEF Moves, Waits

\* What waits is still asked about, each link once.
LEMMA QueueStep ==
    ASSUME Inv, Shape
    PROVE  queue' \in Seq(Jobs) /\ QueueInv'
  <1>0. queue \in Seq(Jobs) /\ \A i \in 1 .. Len(queue) : queue[i] \in Jobs
    BY DEF Inv, HoldsInv, TypeOK
  <1>1. /\ \A i \in 1 .. Len(queue) : Waits(queue[i], doc)
        /\ \A i, j \in 1 .. Len(queue) :
             queue[i] = queue[j] /\ queue[i].do \in {"attach", "takeover"} => i = j
    BY DEF Inv, HoldsInv, QueueInv, Waits
  <1>2. SUFFICES /\ queue' \in Seq(Jobs)
                 /\ \A i \in 1 .. Len(queue') : Waits(queue'[i], doc')
                 /\ \A i, j \in 1 .. Len(queue') :
                      queue'[i] = queue'[j] /\ queue'[i].do \in {"attach", "takeover"} => i = j
    BY DEF QueueInv, Waits
  <1>3. CASE Quiet
    BY <1>0, <1>1, <1>3, MovesWaits DEF Quiet
  <1>4. ASSUME NEW j \in Jobs, NEW K, queue' = Append(queue, j), Moves(doc, doc', K), Waits(j, doc'),
               \A i \in 1 .. Len(queue) : queue[i].do \in {"attach", "takeover", "expire"} => queue[i].of \notin K,
               j.do \in {"attach", "takeover"} => j.of \in K
        PROVE  /\ queue' \in Seq(Jobs)
               /\ \A i \in 1 .. Len(queue') : Waits(queue'[i], doc')
               /\ \A i, m \in 1 .. Len(queue') :
                    queue'[i] = queue'[m] /\ queue'[i].do \in {"attach", "takeover"} => i = m
    <2>1. /\ queue' \in Seq(Jobs) /\ Len(queue') = Len(queue) + 1
          /\ \A i \in 1 .. Len(queue) : queue'[i] = queue[i]
          /\ queue'[Len(queue) + 1] = j
      BY <1>0, <1>4, AppendAt
    <2>2. \A i \in 1 .. Len(queue) : Waits(queue[i], doc')
      BY <1>1, <1>4 DEF Moves, Waits
    <2>3. \A i \in 1 .. Len(queue') : i \in 1 .. Len(queue) \/ i = Len(queue) + 1
      BY <1>0, <2>1
    <2>4. \A i \in 1 .. Len(queue') : Waits(queue'[i], doc')
      BY <2>1, <2>2, <2>3, <1>4
    <2>5. ASSUME NEW i \in 1 .. Len(queue'), NEW m \in 1 .. Len(queue'),
                 queue'[i] = queue'[m], queue'[i].do \in {"attach", "takeover"}
          PROVE  i = m
      <3>1. CASE i \in 1 .. Len(queue) /\ m \in 1 .. Len(queue)
        BY <1>1, <2>1, <2>5, <3>1
      <3>2. CASE i \in 1 .. Len(queue) /\ m = Len(queue) + 1
        BY <1>4, <2>1, <2>5, <3>2
      <3>3. CASE i = Len(queue) + 1 /\ m \in 1 .. Len(queue)
        BY <1>4, <2>1, <2>5, <3>3
      <3> QED
        BY <2>3, <3>1, <3>2, <3>3
    <2> QED
      BY <2>1, <2>4, <2>5
  <1>5. CASE Asks
    <2>1. PICK k \in Links, do \in {"attach", "takeover"} :
             /\ queue' = Append(queue, [do |-> do, of |-> k]) /\ Moves(doc, doc', {k})
             /\ \/ do = "attach" /\ doc.links[k] = "located" /\ doc'.links[k] = "asking"
                \/ do = "takeover" /\ doc.links[k] = "met" /\ doc'.links[k] = "taking"
      BY <1>5 DEF Asks
    <2> DEFINE j == [do |-> do, of |-> k]
    <2>2. j \in Jobs /\ Waits(j, doc') /\ j.of = k /\ j.do \in {"attach", "takeover"}
      BY <2>1 DEF Jobs, Waits
    <2>3. \A i \in 1 .. Len(queue) : queue[i].do \in {"attach", "takeover", "expire"} => queue[i].of # k
      BY <1>1, <2>1 DEF Waits, Answered
    <2>4. queue' = Append(queue, j)
      BY <2>1
    <2> HIDE DEF j
    <2> QED
      BY <1>4, <2>1, <2>2, <2>3, <2>4
  <1>6. CASE Adds
    <2>1. PICK j \in Jobs :
             /\ queue' = Append(queue, j) /\ Moves(doc, doc', {})
             /\ \/ j.do = "expire" /\ j.of \in Links /\ doc.links[j.of] \in Answered
                \/ j.do = "end"
                \/ j.do = "stop" /\ j.of \in Logins
      BY <1>6 DEF Adds
    <2>2. Waits(j, doc') /\ j.do \notin {"attach", "takeover"}
      BY <2>1 DEF Waits, Moves
    <2> QED
      BY <1>4, <2>1, <2>2
  <1>7. CASE Finishes
    <2>1. queue # <<>> /\ queue' = Tail(queue)
      BY <1>7 DEF Finishes
    <2>2. /\ queue' \in Seq(Jobs) /\ Len(queue') = Len(queue) - 1 /\ 1 \in 1 .. Len(queue)
          /\ \A i \in 1 .. Len(queue') : i + 1 \in 1 .. Len(queue) /\ queue'[i] = queue[i + 1]
      BY <1>0, <2>1, TailAt
    <2>3. ASSUME NEW i \in 1 .. Len(queue')
          PROVE  Waits(queue[i + 1], doc')
      <3>1. i + 1 \in 1 .. Len(queue) /\ i + 1 # 1
        BY <2>2
      <3>2. CASE Moves(doc, doc', {})
        BY <1>1, <3>1, <3>2, MovesWaits
      <3>3. ASSUME NEW k \in Links, queue[1].of = k, queue[1].do \in {"attach", "takeover"}, Moves(doc, doc', {k})
            PROVE  Waits(queue[i + 1], doc')
        <4>1. doc.links[k] = IF queue[1].do = "attach" THEN "asking" ELSE "taking"
          BY <1>1, <2>2, <3>3 DEF Waits
        <4>2. queue[i + 1] # queue[1]
          BY <1>1, <2>2, <3>1, <3>3
        <4>3. queue[i + 1].do = queue[1].do => queue[i + 1].of # k
          BY <1>0, <2>2, <3>1, <3>3, <4>2 DEF Jobs
        <4>4. Waits(queue[i + 1], doc)
          BY <1>1, <3>1
        <4>5. queue[i + 1].do \in {"attach", "takeover", "expire"} => queue[i + 1].of # k
          BY <4>1, <4>3, <4>4, <3>3 DEF Waits, Answered
        <4> QED
          BY <3>3, <4>4, <4>5 DEF Waits, Moves
      <3> QED
        BY <1>7, <3>2, <3>3 DEF Finishes
    <2>4. ASSUME NEW i \in 1 .. Len(queue'), NEW m \in 1 .. Len(queue'),
                 queue'[i] = queue'[m], queue'[i].do \in {"attach", "takeover"}
          PROVE  i = m
      <3>1. i + 1 = m + 1
        BY <1>1, <2>2, <2>4
      <3> QED
        BY <3>1
    <2> QED
      BY <2>2, <2>3, <2>4
  <1> QED
    BY <1>3, <1>5, <1>6, <1>7 DEF Shape

\* A link that met another still comes after it.
LEMMA MetStep ==
    ASSUME Inv, Shape
    PROVE  met' \in [Links -> [link: Links \cup {NoLink}, endings: Nat]] /\ MetInv'
  <1>0. /\ met \in [Links -> [link: Links \cup {NoLink}, endings: Nat]] /\ MetInv
        /\ queue \in Seq(Jobs) /\ endings \in Nat
    BY DEF Inv, HoldsInv, TypeOK
  <1>1. ASSUME NEW K, Moves(doc, doc', K), met' = met, \A k \in K : k \in Links => doc.links[k] \notin Answered,
               \A k \in K \cap Links : doc'.links[k] \notin {"met", "taking"}
        PROVE  MetInv'
    BY <1>0, <1>1 DEF MetInv, Moves
  <1>2. CASE Quiet
    BY <1>0, <1>1, <1>2 DEF Quiet
  <1>3. CASE Adds
    BY <1>0, <1>1, <1>3 DEF Adds
  <1>4. CASE Asks
    <2>1. PICK k \in Links :
             /\ met' = met /\ Moves(doc, doc', {k})
             /\ \/ doc.links[k] = "located" /\ doc'.links[k] = "asking"
                \/ doc.links[k] = "met" /\ doc'.links[k] = "taking" /\ Settled
      BY <1>4 DEF Asks
    <2>2. CASE doc.links[k] = "located" /\ doc'.links[k] = "asking"
      BY <1>0, <1>1, <2>1, <2>2 DEF Answered
    <2>3. CASE doc.links[k] = "met" /\ doc'.links[k] = "taking" /\ Settled
      <3>1. /\ met[k].link \in Links /\ doc.links[met[k].link] \in Answered
            /\ doc.links[met[k].link] # "landing" /\ met[k].link # k
        BY <1>0, <2>3 DEF MetInv, Settled, Answered
      <3>2. doc'.links[met[k].link] \in Answered /\ doc'.links[met[k].link] # "landing"
        BY <2>1, <3>1 DEF Moves
      <3>3. ASSUME NEW n \in Links, n # k, doc'.links[n] \in {"met", "taking"}
            PROVE  /\ met'[n].link \in Links /\ doc'.links[met'[n].link] \in Answered
                   /\ doc'.links[n] = "taking" => doc'.links[met'[n].link] # "landing"
        <4>1. doc.links[n] = doc'.links[n]
          BY <2>1, <3>3 DEF Moves
        <4>2. /\ met[n].link \in Links /\ doc.links[met[n].link] \in Answered /\ met[n].link # k
              /\ doc.links[n] = "taking" => doc.links[met[n].link] # "landing"
          BY <1>0, <2>3, <3>3, <4>1 DEF MetInv, Answered
        <4> QED
          BY <2>1, <4>1, <4>2 DEF Moves
      <3> QED
        BY <1>0, <2>1, <3>1, <3>2, <3>3 DEF MetInv
    <2> QED
      BY <2>1, <2>2, <2>3
  <1>5. CASE Finishes
    <2>1. CASE met' = met /\ Moves(doc, doc', {})
      BY <1>0, <1>1, <2>1
    <2>2. ASSUME NEW k \in Links, queue[1].of = k, queue[1].do \in {"attach", "takeover"}, Moves(doc, doc', {k}),
                 \/ doc'.links[k] \in {"closed", "landing"} /\ met' = met
                 \/ \E m \in Links :
                       /\ doc'.links[k] = "met" /\ doc'.links[m] \in Answered
                       /\ met' = [met EXCEPT ![k] = [link |-> m, endings |-> endings]]
          PROVE  met' \in [Links -> [link: Links \cup {NoLink}, endings: Nat]] /\ MetInv'
      <3>1. queue # <<>> /\ 1 \in 1 .. Len(queue)
        BY <1>0, <1>5 DEF Finishes
      <3>2. doc.links[k] \in {"asking", "taking"}
        BY <2>2, <3>1 DEF Inv, HoldsInv, QueueInv
      <3>3. CASE doc'.links[k] \in {"closed", "landing"} /\ met' = met
        BY <1>0, <1>1, <2>2, <3>2, <3>3 DEF Answered
      <3>4. ASSUME NEW m \in Links, doc'.links[k] = "met", doc'.links[m] \in Answered,
                   met' = [met EXCEPT ![k] = [link |-> m, endings |-> endings]]
            PROVE  met' \in [Links -> [link: Links \cup {NoLink}, endings: Nat]] /\ MetInv'
        <4>1. /\ met' \in [Links -> [link: Links \cup {NoLink}, endings: Nat]]
              /\ met'[k].link = m /\ \A n \in Links \ {k} : met'[n] = met[n]
          BY <1>0, <3>4
        <4>2. ASSUME NEW n \in Links, n # k, doc'.links[n] \in {"met", "taking"}
              PROVE  /\ met'[n].link \in Links /\ doc'.links[met'[n].link] \in Answered
                     /\ doc'.links[n] = "taking" => doc'.links[met'[n].link] # "landing"
          <5>1. doc.links[n] = doc'.links[n]
            BY <2>2, <4>2 DEF Moves
          <5>2. /\ met[n].link \in Links /\ doc.links[met[n].link] \in Answered /\ met[n].link # k
                /\ doc.links[n] = "taking" => doc.links[met[n].link] # "landing"
            BY <1>0, <3>2, <4>2, <5>1 DEF MetInv, Answered
          <5> QED
            BY <2>2, <4>1, <4>2, <5>1, <5>2 DEF Moves
        <4> QED
          BY <3>4, <4>1, <4>2 DEF MetInv
      <3> QED
        BY <2>2, <3>3, <3>4
    <2> QED
      BY <1>5, <2>1, <2>2 DEF Finishes
  <1> QED
    BY <1>2, <1>3, <1>4, <1>5 DEF Shape

-----------------------------------------------------------------------------
(* What a step does to the hold.                                           *)

\* It is left alone, forgotten, or loses its link or what was kept; a grace period that ran
\* out is not taken back.
Keeps ==
    \/ doc'.hold = doc.hold
    \/ doc'.hold = NoHold
    \/ /\ doc.hold # NoHold /\ doc'.hold # NoHold /\ doc'.hold.id = doc.hold.id
       /\ doc'.hold.login = doc.hold.login /\ doc'.hold.gen = doc.hold.gen
       /\ doc'.hold.link \in {doc.hold.link, NoLink}
       /\ doc.hold.timer = "fired" => doc'.hold.timer = "fired"

\* Or the attach under way binds its link, to the hold it looked at or to a new one.
Binds ==
    /\ op.at \in {"check", "live"} /\ op' = NoOp /\ queue' = Tail(queue) /\ doc'.hold # NoHold
    /\ doc'.hold.link = op.link /\ doc'.links[op.link] = "landing"
    /\ UNCHANGED <<live, rows, owner, gen, unheard, releasing, resetting>>
    /\ \/ /\ op.at = "check" /\ doc.hold # NoHold
          /\ doc'.hold.login = doc.hold.login /\ doc'.hold.gen = doc.hold.gen
       \/ /\ op.at = "live" /\ ~op.inv /\ op.login \in live
          /\ doc'.hold.login = op.login /\ doc'.hold.gen = op.gen

LEMMA PutHold ==
    ASSUME NEW k, NEW s, NEW d
    PROVE  Put(d, k, s).hold = d.hold
  BY DEF Put

\* A link that drops was the hold's, whose timer was off.
LEMMA DetachedKeeps ==
    ASSUME Inv, NEW k \in Links, doc.hold.link = k, NEW kept \in BOOLEAN, doc'.hold = Detached(doc, k, kept).hold
    PROVE  Keeps
  <1>1. doc \in Docs /\ HoldLinks(doc)
    BY DEF Inv, HoldsInv, TypeOK
  <1>2. doc.hold # NoHold /\ doc.hold.timer # "fired"
    BY <1>1, NoHoldFields, HoldsAssumption DEF HoldLinks
  <1>3. /\ Detached(doc, k, kept).hold # NoHold /\ Detached(doc, k, kept).hold.id = doc.hold.id
        /\ Detached(doc, k, kept).hold.login = doc.hold.login
        /\ Detached(doc, k, kept).hold.gen = doc.hold.gen
        /\ Detached(doc, k, kept).hold.link = NoLink
    BY <1>1, DetachedDoc
  <1> QED
    BY <1>2, <1>3 DEF Keeps

LEMMA HoldStep ==
    ASSUME Inv, [Next]_vars
    PROVE  Keeps \/ Binds
  <1> USE DEF storage, ends
  <1>1. doc \in Docs /\ HoldLinks(doc) /\ queue \in Seq(Jobs) /\ op \in Ops
    BY DEF Inv, HoldsInv, TypeOK
  <1>2. ASSUME doc' = doc
        PROVE  Keeps
    BY <1>2 DEF Keeps
  <1>3. ASSUME doc' = Invalidate(doc)
        PROVE  Keeps
    BY <1>1, <1>3, InvalidateDoc DEF Keeps
  <1>4. ASSUME doc' = Drop(doc)
        PROVE  Keeps
    BY <1>1, <1>4, DropFields DEF Keeps
  <1>5. ASSUME NEW k, NEW s, doc' = Put(doc, k, s)
        PROVE  Keeps
    BY <1>5, PutHold DEF Keeps
  <1>6. ASSUME NEW k \in Links, StartAttach(k)
        PROVE  Keeps
    BY <1>6, <1>2, <1>5 DEF StartAttach, Begin, Refuse
  <1>7. ASSUME NEW k \in Links, StartTakeover(k)
        PROVE  Keeps
    <2>1. ASSUME doc.hold.link # NoLink, NEW kept \in BOOLEAN, Begin(Detached(doc, doc.hold.link, kept), k, TRUE)
          PROVE  Keeps
      <3>1. doc'.hold = Detached(doc, doc.hold.link, kept).hold
        BY <2>1, PutHold DEF Begin, Refuse
      <3>2. doc.hold.link \in Links
        BY <1>1, <2>1, DocFields
      <3> QED
        BY <3>1, <3>2, DetachedKeeps
    <2>2. ASSUME Refuse(doc, k) \/ Begin(doc, k, TRUE)
          PROVE  Keeps
      BY <2>2, <1>2, <1>5 DEF Begin, Refuse
    <2> QED
      BY <1>7, <2>1, <2>2 DEF StartTakeover
  <1>8. ASSUME NEW k \in Links, Land(k)
        PROVE  Keeps
    BY <1>8, <1>5 DEF Land
  <1>9. CASE Login \/ Claim \/ Undo
    BY <1>9, <1>2, <1>5 DEF Login, Claim, Undo, Refuse
  <1>10. CASE Access
    BY <1>10, <1>2, <1>4, <1>5 DEF Access, Refuse
  <1>11. CASE Released \/ Read \/ EndingReleased
    BY <1>11, <1>2 DEF Released, Read, EndingReleased
  <1>12. CASE Check
    <2>1. CASE op.inv \/ doc' \in {doc, Drop(doc)}
      BY <1>12, <1>2, <1>4, <1>5, <2>1 DEF Check, Refuse
    <2>2. CASE Here /\ Finish /\ doc' = Bound(doc, op.link)
      <3>0. op.at \in Attaching /\ op.at = "check" /\ UNCHANGED <<live, rows, owner, gen, unheard, releasing, resetting>>
        BY <1>12 DEF Check, Attaching
      <3>1. op.link \in Links /\ doc.links[op.link] \in {"asking", "taking"}
        BY <3>0, OpLink
      <3>2. doc.hold # NoHold /\ doc.hold.link = NoLink
        BY <2>2, <3>0 DEF Here, Inv, HoldsInv, OpInv
      <3>3. /\ doc'.hold = [doc.hold EXCEPT !.link = op.link, !.timer = "off"]
            /\ doc'.hold # NoHold /\ doc'.links[op.link] = "landing"
        BY <1>1, <2>2, <3>1, <3>2, BoundDoc DEF Waiting
      <3>4. doc.hold \in Holds
        BY <1>1, <3>2, DocFields
      <3>5. /\ doc'.hold.login = doc.hold.login /\ doc'.hold.gen = doc.hold.gen
            /\ doc'.hold.link = op.link
        BY <3>3, <3>4 DEF Holds
      <3> QED
        BY <2>2, <3>0, <3>2, <3>3, <3>5 DEF Binds, Finish
    <2> QED
      BY <1>12, <2>1, <2>2 DEF Check
  <1>13. CASE Hold
    <2>0. op.at \in Attaching /\ op.at = "live" /\ UNCHANGED <<live, rows, owner, gen, unheard, releasing, resetting>>
      BY <1>13 DEF Hold, Attaching
    <2>1. CASE UNCHANGED <<doc, queue>>
      BY <1>2, <2>1
    <2>2. CASE /\ ~op.inv /\ op.login \in live /\ Finish
               /\ doc' = Bound([doc EXCEPT !.hold = [NoHold EXCEPT !.id = op.link, !.login = op.login,
                                                                !.gen = op.gen]], op.link)
      <3>1. op.link \in Links /\ doc.links[op.link] \in Waiting
        BY <2>0, OpLink DEF Waiting
      <3>2. doc.hold = NoHold /\ op.login \in Logins /\ op.gen \in Gens
        BY <1>1, <2>0 DEF Inv, HoldsInv, OpInv, Ops
      <3> DEFINE h == [NoHold EXCEPT !.id = op.link, !.login = op.login, !.gen = op.gen]
      <3>4. /\ h \in Holds /\ h.id = op.link /\ h.link = NoLink /\ h.parked = NoLink
            /\ h.login = op.login /\ h.gen = op.gen /\ doc' = Given(doc, h)
        BY <2>2, <3>1, <3>2 DEF Given, NoHold, Holds
      <3> HIDE DEF h
      <3>5. doc'.links[op.link] = "landing" /\ doc'.hold = [h EXCEPT !.link = h.id, !.timer = "off"]
        BY <1>1, <3>1, <3>2, <3>4, NewHoldDoc
      <3>6. /\ doc'.hold.link = op.link /\ doc'.hold.login = op.login /\ doc'.hold.gen = op.gen
            /\ doc'.hold.id = op.link /\ doc'.hold # NoHold
        BY <3>1, <3>4, <3>5, NoHoldFields, HoldsAssumption DEF Holds
      <3> QED
        BY <2>0, <2>2, <3>5, <3>6 DEF Binds, Finish
    <2> QED
      BY <1>13, <2>1, <2>2 DEF Hold
  <1>14. CASE StartEnding
    BY <1>14, <1>2, <1>3 DEF StartEnding
  <1>15. ASSUME NEW k \in Links, Locate(k) \/ Ask(k) \/ Confirm(k)
         PROVE  Keeps
    BY <1>15, <1>5 DEF Locate, Ask, Confirm
  <1>16. ASSUME NEW k \in Links, FirstMessage(k)
         PROVE  Keeps
    <2>1. doc.hold.parked \in Links /\ doc.hold \in Holds /\ doc.hold # NoHold /\ doc.hold.timer # "fired"
      BY <1>1, <1>16, DocFields, NoHoldFields DEF FirstMessage, HoldLinks
    <2>2. doc'.hold = [doc.hold EXCEPT !.parked = NoLink] /\ doc'.hold \in Holds
      BY <1>1, <1>16, <2>1, UnparkDoc DEF FirstMessage
    <2>3. /\ doc'.hold.id = doc.hold.id /\ doc'.hold.login = doc.hold.login /\ doc'.hold.gen = doc.hold.gen
          /\ doc'.hold.link = doc.hold.link
      BY <2>1, <2>2 DEF Holds
    <2> QED
      BY <2>1, <2>2, <2>3, NoHoldFields DEF Keeps
  <1>17. ASSUME NEW k \in Links, Close(k)
         PROVE  Keeps
    <2>1. CASE doc.links[k] = "bound"
      BY <1>1, <1>17, <2>1, DetachedKeeps DEF Close, HoldLinks
    <2>2. CASE doc.links[k] # "bound"
      BY <1>17, <1>5, <2>2 DEF Close
    <2> QED
      BY <2>1, <2>2
  <1>18. ASSUME NEW k \in Links, Lapse(k)
         PROVE  Keeps
    <2>1. /\ doc'.hold \in Holds /\ doc'.hold.id = doc.hold.id /\ doc'.hold.login = doc.hold.login
          /\ doc'.hold.gen = doc.hold.gen /\ doc'.hold.link = doc.hold.link
      BY <1>1, <1>18, LapseDoc DEF Lapse
    <2>2. doc.hold # NoHold /\ doc.hold.timer # "fired"
      BY <1>1, <1>18, NoHoldFields, HoldsAssumption DEF Lapse, HoldLinks
    <2> QED
      BY <2>1, <2>2, NoHoldFields DEF Keeps
  <1>19. ASSUME NEW k \in Links, Recheck(k)
         PROVE  Keeps
    BY <1>19, <1>3, DetachedKeeps DEF Recheck
  <1>20. ASSUME NEW l \in Logins, Revoke(l) \/ Delete(l) \/ StopMachine(l)
         PROVE  Keeps
    BY <1>20, <1>2, <1>3 DEF Revoke, Delete, StopMachine
  <1>21. CASE GraceEnds
    <2>1. doc.hold # NoHold /\ doc.hold.link = NoLink /\ doc.hold.parked = NoLink
      BY <1>1, <1>21, NoHoldFields DEF GraceEnds, HoldLinks
    <2>2. doc'.hold = [doc.hold EXCEPT !.timer = "fired"] /\ doc.hold \in Holds /\ doc'.hold \in Holds
      BY <1>1, <1>21, <2>1, TimerDoc, DocFields DEF GraceEnds
    <2>3. /\ doc'.hold.id = doc.hold.id /\ doc'.hold.login = doc.hold.login /\ doc'.hold.gen = doc.hold.gen
          /\ doc'.hold.link = doc.hold.link /\ doc'.hold.timer = "fired"
      BY <2>2 DEF Holds
    <2> QED
      BY <2>1, <2>2, <2>3, NoHoldFields DEF Keeps
  <1>22. CASE Release \/ ResetClear \/ ResetLost \/ ResetDone \/ Archive
    BY <1>22, <1>2, <1>3 DEF Release, ResetClear, ResetLost, ResetDone, Archive
  <1>23. CASE UNCHANGED vars
    BY <1>23, <1>2 DEF vars
  <1> HIDE DEF Keeps, Binds
  <1> QED
    BY <1>6, <1>7, <1>8, <1>9, <1>10, <1>11, <1>12, <1>13, <1>14, <1>15, <1>16, <1>17, <1>18, <1>19, <1>20,
       <1>21, <1>22, <1>23 DEF Next, AttachStep

-----------------------------------------------------------------------------
(* The one under way.                                                      *)

LEMMA NoOpFields ==
    /\ NoOp \in Ops /\ NoOp.at = "none" /\ NoOp.link = NoLink /\ NoOp.ids = {} /\ NoOp.inv = FALSE
  BY DEF NoOp, Ops, Gens

\* What the invariant says of the one under way.
LEMMA OpFacts ==
    ASSUME Inv
    PROVE  /\ op \in Ops /\ queue \in Seq(Jobs) /\ doc \in Docs /\ OpInv /\ HoldLinks(doc)
           /\ op.at \in {"none", "release"} \cup Attaching
           /\ op.link \in Links \cup {NoLink} /\ op.ids \subseteq Logins /\ op.gen \in Gens
           /\ op.inv \in BOOLEAN /\ op.login \in Logins \cup {NoLogin}
  BY DEF Inv, HoldsInv, TypeOK, Ops, Attaching

\* It goes on at its own link: `at' is where.
LEMMA OpGoesOn ==
    ASSUME Inv, op.at \in Attaching, queue' = queue, op' \in Ops, op'.at \in Attaching, op'.link = op.link,
           \/ doc'.hold = NoHold
           \/ /\ op'.at \in {"login", "access", "read", "check"} /\ op'.held = op.held
              /\ doc'.hold = doc.hold /\ op.at \in {"login", "access", "read", "check"},
           op'.at = "live" => op'.login \in Logins
    PROVE  OpInv'
  BY OpFacts, OpLink DEF OpInv, Attaching

\* It waits, while something else happens.
LEMMA OpWaits ==
    ASSUME Inv, op' \in Ops, op'.at = op.at, op'.link = op.link, op'.held = op.held, op'.login = op.login,
           op = NoOp => op' = NoOp, Keeps, queue # <<>> => queue' # <<>> /\ queue'[1] = queue[1]
    PROVE  OpInv'
  <1>1. op \in Ops /\ OpInv /\ op.at \in {"none", "release"} \cup Attaching
    BY OpFacts
  <1>2. op.at \in {"login", "access", "read", "check"} =>
          doc'.hold = NoHold \/ (doc'.hold.id = op.held /\ doc'.hold.link = NoLink)
    BY <1>1 DEF OpInv, Keeps
  <1>3. doc.hold = NoHold => doc'.hold = NoHold
    BY DEF Keeps
  <1>4. /\ op'.at = "none" => op' = NoOp
        /\ op'.at # "none" => queue' # <<>> /\ queue'[1] = queue[1]
    BY <1>1 DEF OpInv
  <1> QED
    BY <1>1, <1>2, <1>3, <1>4 DEF OpInv, Attaching

LEMMA OpOver ==
    ASSUME Inv, op' = NoOp
    PROVE  op' \in Ops /\ OpInv'
  BY NoOpFields DEF OpInv, Attaching

\* Something is added behind it.
LEMMA AppendFirst ==
    ASSUME NEW q \in Seq(Jobs), NEW j \in Jobs, q # <<>>
    PROVE  Append(q, j) # <<>> /\ Append(q, j)[1] = q[1]
  OBVIOUS

LEMMA OpStep ==
    ASSUME Inv, [Next]_vars, Shape, Keeps \/ Binds
    PROVE  op' \in Ops /\ OpInv'
  <1> USE DEF storage, ends
  <1>1. /\ op \in Ops /\ queue \in Seq(Jobs) /\ doc \in Docs /\ OpInv /\ HoldLinks(doc)
        /\ op.at \in {"none", "release"} \cup Attaching
        /\ op.link \in Links \cup {NoLink} /\ op.ids \subseteq Logins /\ op.gen \in Gens
        /\ op.inv \in BOOLEAN /\ op.login \in Logins \cup {NoLogin}
    BY OpFacts
  <1>2. live \subseteq Logins /\ gen \in Gens /\ owner \in Logins \cup {NoLogin}
    BY DEF Inv, HoldsInv, TypeOK
  <1>3. CASE Binds
    BY <1>3, OpOver DEF Binds
  <1> SUFFICES ASSUME Keeps
               PROVE  op' \in Ops /\ OpInv'
    BY <1>3
  <1>4. ASSUME op' = op, queue' = queue
        PROVE  op' \in Ops /\ OpInv'
    BY <1>1, <1>4, OpWaits
  <1>5. ASSUME op' = op, NEW j \in Jobs, queue' = Append(queue, j)
        PROVE  op' \in Ops /\ OpInv'
    BY <1>1, <1>5, OpWaits, AppendFirst
  <1>6. ASSUME Finish
        PROVE  op' \in Ops /\ OpInv'
    BY <1>6, OpOver DEF Finish
  <1>7. ASSUME NEW d \in Docs, HoldLinks(d), Moves(doc, d, {}), NEW k \in Links, NEW again \in BOOLEAN,
               queue # <<>>, queue[1].of = k, queue[1].do \in {"attach", "takeover"}, Begin(d, k, again)
        PROVE  op' \in Ops /\ OpInv'
    <2>1. Begins(d, k)
      BY <1>7, BeginShape
    <2>2. CASE op' = NoOp
      BY <2>2, OpOver
    <2>3. CASE /\ op' = [NoOp EXCEPT !.at = "login", !.link = k, !.held = d.hold.id,
                                  !.ids = IF d.hold = NoHold THEN {} ELSE {d.hold.login}]
               /\ queue' = queue /\ doc' = d /\ (d.hold = NoHold \/ d.hold.link = NoLink)
      <3>1. d.hold.id \in Links \cup {NoLink} /\ (d.hold # NoHold => d.hold.login \in Logins)
        BY DocFields, NoHoldFields
      <3>2. op' \in Ops /\ op'.at = "login" /\ op'.link = k /\ op'.held = d.hold.id
        BY <2>3, <3>1 DEF NoOp, Ops, Gens
      <3> QED
        BY <1>7, <2>3, <3>2 DEF OpInv, Attaching
    <2> QED
      BY <2>1, <2>2, <2>3 DEF Begins
  <1>8. ASSUME NEW k \in Links, StartAttach(k)
        PROVE  op' \in Ops /\ OpInv'
    <2>1. /\ queue # <<>> /\ queue[1] = [do |-> "attach", of |-> k]
          /\ queue[1].of = k /\ queue[1].do \in {"attach", "takeover"}
      BY <1>1, <1>8 DEF StartAttach, Ready
    <2>2. CASE Refuse(doc, k)
      BY <1>6, <2>2 DEF Refuse
    <2>3. CASE Begin(doc, k, FALSE)
      BY <1>1, <1>7, <2>1, <2>3, MovesNot
    <2> QED
      BY <1>8, <2>2, <2>3 DEF StartAttach
  <1>9. ASSUME NEW k \in Links, StartTakeover(k)
        PROVE  op' \in Ops /\ OpInv'
    <2>1. /\ queue # <<>> /\ queue[1] = [do |-> "takeover", of |-> k]
          /\ queue[1].of = k /\ queue[1].do \in {"attach", "takeover"}
      BY <1>1, <1>9 DEF StartTakeover, Ready
    <2>2. CASE Refuse(doc, k)
      BY <1>6, <2>2 DEF Refuse
    <2>3. CASE Begin(doc, k, TRUE)
      BY <1>1, <1>7, <2>1, <2>3, MovesNot
    <2>4. ASSUME doc.hold.link # NoLink, NEW kept \in BOOLEAN, Begin(Detached(doc, doc.hold.link, kept), k, TRUE)
          PROVE  op' \in Ops /\ OpInv'
      <3> DEFINE d == Detached(doc, doc.hold.link, kept)
      <3>1. doc.hold.link \in Links
        BY <1>1, <2>4, DocFields
      <3>2. d \in Docs /\ HoldLinks(d) /\ Moves(doc, d, {})
        BY <1>1, <3>1, DetachedDoc
      <3> HIDE DEF d
      <3> QED
        BY <3>2, <2>1, <2>4, <1>7 DEF d
    <2> QED
      BY <1>9, <2>2, <2>3, <2>4 DEF StartTakeover
  <1>10. ASSUME NEW k \in Links, Land(k) \/ Locate(k) \/ FirstMessage(k) \/ Close(k) \/ Lapse(k) \/ Recheck(k)
         PROVE  op' \in Ops /\ OpInv'
    BY <1>10, <1>4 DEF Land, Locate, FirstMessage, Close, Lapse, Recheck
  <1>11. CASE Login
    <2>1. CASE Refuse(doc, op.link)
      BY <2>1, <1>6 DEF Refuse
    <2>2. CASE /\ LoginOf[op.link] \in live /\ op' = [op EXCEPT !.at = "access", !.ids = @ \cup {LoginOf[op.link]}]
               /\ UNCHANGED <<doc, queue>>
      <3>0. op.at = "login"
        BY <1>11 DEF Login
      <3>1. op' \in Ops /\ op'.at = "access" /\ op'.link = op.link /\ op'.held = op.held
        BY <1>1, <1>2, <2>2 DEF Ops
      <3> QED
        BY <2>2, <3>0, <3>1, OpGoesOn DEF Attaching
    <2> QED
      BY <1>11, <2>1, <2>2 DEF Login
  <1>12. CASE Access
    <2>0. op.at = "access" /\ op.at \in Attaching
      BY <1>12 DEF Access, Attaching
    <2>1. CASE Refuse(doc, op.link)
      BY <2>1, <1>6 DEF Refuse
    <2>2. CASE /\ doc' = Drop(doc) /\ Here /\ UNCHANGED queue
               /\ op' = [op EXCEPT !.at = "other", !.held = NoLink,
                                   !.login = doc.hold.login, !.gen = doc.hold.gen]
      <3>1. doc.hold.login \in Logins /\ doc.hold.gen \in Gens
        BY <1>1, <2>2, DocFields DEF Here
      <3>2. op' \in Ops /\ op'.at = "other" /\ op'.link = op.link
        BY <1>1, <2>2, <3>1 DEF Ops
      <3>3. doc'.hold = NoHold
        BY <1>1, <2>2, DropFields
      <3> QED
        BY <2>0, <2>2, <3>2, <3>3, OpGoesOn DEF Attaching
    <2>3. CASE /\ UNCHANGED <<doc, queue>> /\ Step(IF op.held # NoLink /\ Here THEN "read" ELSE "claim")
      <3>1. /\ op' \in Ops /\ op'.link = op.link /\ op'.held = op.held
            /\ op'.at = IF op.held # NoLink /\ Here THEN "read" ELSE "claim"
        BY <1>1, <2>3 DEF Ops, Step
      <3>2. doc.hold # NoHold => op.held # NoLink /\ Here
        BY <1>1, <2>0, DocFields, HoldsAssumption DEF Here, OpInv
      <3>3. CASE op'.at = "read"
        BY <2>0, <2>3, <3>1, <3>3, OpGoesOn DEF Attaching
      <3>4. CASE op'.at = "claim"
        <4>1. doc'.hold = NoHold
          BY <2>3, <3>1, <3>2, <3>4
        <4> QED
          BY <2>0, <2>3, <3>1, <3>4, <4>1, OpGoesOn DEF Attaching
      <3> QED
        BY <3>1, <3>3, <3>4
    <2> QED
      BY <1>12, <2>1, <2>2, <2>3 DEF Access
  <1>13. CASE Released
    <2>1. /\ op' \in Ops /\ op'.link = op.link /\ op'.at = "claim" /\ op.at \in Attaching
          /\ UNCHANGED <<doc, queue>> /\ op.at \in {"other", "dead"}
      BY <1>1, <1>13 DEF Released, Step, Ops, Attaching
    <2>2. doc'.hold = NoHold
      BY <1>1, <2>1 DEF OpInv
    <2> QED
      BY <2>1, <2>2, OpGoesOn DEF Attaching
  <1>14. CASE Read
    <2>1. /\ op' \in Ops /\ op'.link = op.link /\ op'.held = op.held /\ op'.at = "check"
          /\ op.at = "read" /\ UNCHANGED <<doc, queue>>
      <3> DEFINE s == Here /\ owner = doc.hold.login /\ gen = doc.hold.gen
      <3>1. s \in BOOLEAN
        OBVIOUS
      <3>2. op' = [op EXCEPT !.at = "check", !.same = s] /\ op.at = "read" /\ UNCHANGED <<doc, queue>>
        BY <1>14 DEF Read
      <3> HIDE DEF s
      <3> QED
        BY <1>1, <3>1, <3>2 DEF Ops
    <2> QED
      BY <2>1, OpGoesOn DEF Attaching
  <1>15. CASE Check
    <2>0. op.at = "check" /\ op.at \in Attaching
      BY <1>15 DEF Check, Attaching
    <2>1. CASE op.inv \/ Finish
      BY <1>15, <2>1, <1>6 DEF Check, Refuse
    <2>2. CASE /\ doc' = (IF Here THEN Drop(doc) ELSE doc) /\ UNCHANGED queue
               /\ IF Here /\ doc.hold.login \notin live
                  THEN op' = [op EXCEPT !.at = "dead", !.login = doc.hold.login, !.gen = doc.hold.gen]
                  ELSE Step("claim")
      <3>1. doc'.hold = NoHold
        BY <1>1, <2>0, <2>2, DropFields DEF Here, OpInv
      <3>2. op' \in Ops /\ op'.link = op.link /\ op'.at \in {"dead", "claim"}
        <4>1. CASE Here /\ doc.hold.login \notin live
          <5>1. doc.hold.login \in Logins /\ doc.hold.gen \in Gens
            BY <1>1, <4>1, DocFields DEF Here
          <5> QED
            <6>1. op' = [op EXCEPT !.at = "dead", !.login = doc.hold.login, !.gen = doc.hold.gen]
              BY <2>2, <4>1
            <6> QED
              BY <1>1, <5>1, <6>1 DEF Ops
        <4>2. CASE ~(Here /\ doc.hold.login \notin live)
          BY <1>1, <2>2, <4>2 DEF Step, Ops
        <4> QED
          BY <4>1, <4>2
      <3> QED
        BY <2>0, <2>2, <3>1, <3>2, OpGoesOn DEF Attaching
    <2> QED
      BY <1>15, <2>1, <2>2 DEF Check
  <1>16. CASE Claim
    <2>0. op.at = "claim" /\ op.at \in Attaching
      BY <1>16 DEF Claim, Attaching
    <2>1. CASE Refuse(doc, op.link)
      BY <2>1, <1>6 DEF Refuse
    <2>2. ASSUME NEW l \in Logins, NEW g \in Gens, op' = [op EXCEPT !.at = "live", !.login = l, !.gen = g],
                 UNCHANGED <<doc, queue>>
          PROVE  op' \in Ops /\ OpInv'
      <3>1. op' \in Ops /\ op'.link = op.link /\ op'.at = "live" /\ op'.login = l
        BY <1>1, <2>2 DEF Ops
      <3>2. doc'.hold = NoHold
        BY <1>1, <2>0, <2>2 DEF OpInv
      <3> QED
        BY <2>0, <2>2, <3>1, <3>2, OpGoesOn DEF Attaching
    <2>3. CASE ~(op.inv \/ LoginOf[op.link] \notin rows)
      <3> DEFINE l == LoginOf[op.link]
                 g == IF owner = l THEN gen ELSE gen + 1
      <3>1. l \in Logins /\ g \in Gens
        BY <1>2, <2>3 DEF Gens, Inv, HoldsInv, TypeOK
      <3>2. op' = [op EXCEPT !.at = "live", !.login = l, !.gen = g] /\ UNCHANGED <<doc, queue>>
        BY <1>16, <2>3 DEF Claim
      <3> HIDE DEF l, g
      <3> QED
        BY <2>2, <3>1, <3>2
    <2> QED
      BY <1>16, <2>1, <2>3 DEF Claim
  <1>17. CASE Hold
    <2>0. op.at = "live" /\ op.at \in Attaching
      BY <1>17 DEF Hold, Attaching
    <2>1. CASE Finish
      BY <2>1, <1>6
    <2>2. CASE Step("undo") /\ UNCHANGED <<doc, queue>>
      <3>1. op' \in Ops /\ op'.link = op.link /\ op'.at = "undo"
        BY <1>1, <2>2 DEF Ops, Step
      <3>2. doc'.hold = NoHold
        BY <1>1, <2>0, <2>2 DEF OpInv
      <3> QED
        BY <2>0, <2>2, <3>1, <3>2, OpGoesOn DEF Attaching
    <2> QED
      BY <1>17, <2>1, <2>2 DEF Hold
  <1>18. CASE Undo \/ EndingReleased
    BY <1>18, <1>6 DEF Undo, EndingReleased, Refuse
  <1>19. CASE StartEnding
    <2>1. CASE Finish
      BY <2>1, <1>6
    <2>2. CASE /\ Ends(Head(queue)) /\ doc' = Invalidate(doc) /\ UNCHANGED queue
               /\ op' = [NoOp EXCEPT !.at = "release", !.login = doc.hold.login, !.gen = doc.hold.gen]
      <3>1. doc.hold.login \in Logins \cup {NoLogin} /\ doc.hold.gen \in Gens
        BY <1>1, DocFields, NoHoldFields DEF Gens
      <3>2. op' \in Ops /\ op'.at = "release" /\ op'.link = NoLink
        BY <2>2, <3>1 DEF NoOp, Ops, Gens
      <3>3. doc'.hold = NoHold
        BY <1>1, <2>2, InvalidateDoc
      <3>4. queue # <<>> /\ queue[1].do \in {"expire", "end", "stop"}
        BY <1>1, <1>19 DEF StartEnding, Ready
      <3> QED
        BY <2>2, <3>2, <3>3, <3>4 DEF OpInv, Attaching
    <2> QED
      BY <1>19, <2>1, <2>2 DEF StartEnding
  <1>20. ASSUME NEW k \in Links, Ask(k) \/ Confirm(k)
         PROVE  op' \in Ops /\ OpInv'
    <2>1. [do |-> "attach", of |-> k] \in Jobs /\ [do |-> "takeover", of |-> k] \in Jobs
      BY DEF Jobs
    <2> QED
      BY <1>20, <1>5, <2>1 DEF Ask, Confirm
  <1>21. ASSUME NEW l \in Logins, Revoke(l)
         PROVE  op' \in Ops /\ OpInv'
    <2> DEFINE b == op.inv \/ l \in op.ids
    <2>0. b \in BOOLEAN
      BY <1>1
    <2>1. op' = [op EXCEPT !.inv = b] /\ queue' = queue
      BY <1>21 DEF Revoke
    <2>2. op = NoOp => b = FALSE
      BY NoOpFields
    <2> HIDE DEF b
    <2>3. /\ op' \in Ops /\ op'.at = op.at /\ op'.link = op.link /\ op'.held = op.held
          /\ op'.login = op.login
      BY <1>1, <2>0, <2>1 DEF Ops
    <2>4. op = NoOp => op' = NoOp
      <3> SUFFICES ASSUME op = NoOp PROVE op' = NoOp
        OBVIOUS
      <3>1. op' = [NoOp EXCEPT !.inv = FALSE]
        BY <2>1, <2>2
      <3> QED
        BY <3>1 DEF NoOp
    <2> QED
      BY <2>1, <2>3, <2>4, OpWaits
  <1>22. ASSUME NEW l \in Logins, Delete(l)
         PROVE  op' \in Ops /\ OpInv'
    BY <1>22, <1>4 DEF Delete
  <1>23. ASSUME NEW l \in Logins, StopMachine(l)
         PROVE  op' \in Ops /\ OpInv'
    <2>1. [do |-> "stop", of |-> l] \in Jobs
      BY DEF Jobs
    <2> QED
      BY <1>23, <1>5, <2>1 DEF StopMachine
  <1>24. CASE GraceEnds
    <2>1. [do |-> "expire", of |-> doc.hold.id] \in Jobs
      <3>1. doc.hold.id \in Links \cup {NoLink}
        BY <1>1, DocFields, NoHoldFields
      <3> QED
        BY <3>1 DEF Jobs
    <2> QED
      BY <1>24, <1>5, <2>1 DEF GraceEnds
  <1>25. CASE Release \/ ResetClear \/ ResetLost
    BY <1>25, <1>4 DEF Release, ResetClear, ResetLost
  <1>26. CASE ResetDone
    <2> DEFINE b == op.inv \/ op.link # NoLink
    <2>0. b \in BOOLEAN
      BY <1>1
    <2>1. op' = [op EXCEPT !.inv = b] /\ queue' = queue
      BY <1>26 DEF ResetDone
    <2>2. op = NoOp => b = FALSE
      BY NoOpFields
    <2> HIDE DEF b
    <2>3. /\ op' \in Ops /\ op'.at = op.at /\ op'.link = op.link /\ op'.held = op.held
          /\ op'.login = op.login
      BY <1>1, <2>0, <2>1 DEF Ops
    <2>4. op = NoOp => op' = NoOp
      <3> SUFFICES ASSUME op = NoOp PROVE op' = NoOp
        OBVIOUS
      <3>1. op' = [NoOp EXCEPT !.inv = FALSE]
        BY <2>1, <2>2
      <3> QED
        BY <3>1 DEF NoOp
    <2> QED
      BY <2>1, <2>3, <2>4, OpWaits
  <1>27. CASE Archive
    <2>1. [do |-> "end", of |-> NoLink] \in Jobs
      BY DEF Jobs
    <2> QED
      BY <1>27, <1>5, <2>1 DEF Archive
  <1>28. CASE UNCHANGED vars
    BY <1>28, <1>4 DEF vars
  <1> HIDE DEF OpInv
  <1> QED
    BY <1>8, <1>9, <1>10, <1>11, <1>12, <1>13, <1>14, <1>15, <1>16, <1>17, <1>18, <1>19, <1>20, <1>21, <1>22,
       <1>23, <1>24, <1>25, <1>26, <1>27, <1>28 DEF Next, AttachStep

-----------------------------------------------------------------------------
(* The grace period and the ownership in storage.                          *)

\* Where no link is landing ahead of its turn, a deadline that waits is that of its hold.
LEMMA ExpireKeeps ==
    ASSUME Inv, QueueInv', Keeps, op # NoOp \/ doc.hold.link = NoLink \/ doc.links[doc.hold.link] # "landing",
           \A i \in 1 .. Len(queue') : queue'[i].do = "expire" =>
              \/ \E m \in 1 .. Len(queue) : queue'[i] = queue[m]
              \/ doc'.hold.timer = "fired"
    PROVE  ExpireInv'
  <1> SUFFICES ASSUME NEW i \in 1 .. Len(queue'), queue'[i].do = "expire", queue'[i].of = doc'.hold.id
               PROVE  doc'.hold.timer = "fired"
    BY DEF ExpireInv
  <1>1. queue'[i].of \in Links
    BY DEF QueueInv
  <1>2. doc'.hold # NoHold
    BY <1>1, NoHoldFields, HoldsAssumption
  <1>3. doc'.hold.id = doc.hold.id /\ (doc.hold.timer = "fired" => doc'.hold.timer = "fired")
    BY <1>2 DEF Keeps
  <1>4. ASSUME NEW m \in 1 .. Len(queue), queue'[i] = queue[m]
        PROVE  doc.hold.timer = "fired"
    BY <1>3, <1>4 DEF Inv, HoldsInv, ExpireInv
  <1> QED
    BY <1>3, <1>4

\* Which jobs a step leaves in the queue.
LEMMA QueueJobs ==
    ASSUME NEW q \in Seq(Jobs), NEW r, \/ r = q
                                       \/ q # <<>> /\ r = Tail(q)
                                       \/ \E j \in Jobs : r = Append(q, j) /\ j.do # "expire"
    PROVE  \A i \in 1 .. Len(r) : r[i].do = "expire" => \E m \in 1 .. Len(q) : r[i] = q[m]
  <1>1. CASE r = q
    BY <1>1
  <1>2. CASE q # <<>> /\ r = Tail(q)
    BY <1>2, TailAt
  <1>3. ASSUME NEW j \in Jobs, r = Append(q, j), j.do # "expire"
        PROVE  \A i \in 1 .. Len(r) : r[i].do = "expire" => \E m \in 1 .. Len(q) : r[i] = q[m]
    <2>1. /\ Len(r) = Len(q) + 1 /\ \A i \in 1 .. Len(q) : r[i] = q[i]
          /\ r[Len(q) + 1] = j
      BY <1>3, AppendAt
    <2>2. \A i \in 1 .. Len(r) : i \in 1 .. Len(q) \/ i = Len(q) + 1
      BY <2>1
    <2> QED
      BY <1>3, <2>1, <2>2
  <1> QED
    BY <1>1, <1>2, <1>3

\* A deadline set before a link was bound never meets what that link kept.
LEMMA ExpireStep ==
    ASSUME Inv, [Next]_vars, Shape, QueueInv', Keeps \/ Binds
    PROVE  ExpireInv'
  <1> USE DEF storage, ends
  <1>1. /\ op \in Ops /\ queue \in Seq(Jobs) /\ doc \in Docs /\ OpInv /\ HoldLinks(doc)
    BY OpFacts
  <1>2. doc.hold.link \in Links \cup {NoLink}
    BY <1>1, DocFields
  <1>3. CASE Binds
    BY <1>3, OpFacts, OpLink, HoldsAssumption DEF Binds, ExpireInv, Attaching
  <1>4. ASSUME Keeps, Settled \/ op # NoOp \/ doc.hold.link = NoLink,
               \/ queue' = queue
               \/ queue # <<>> /\ queue' = Tail(queue)
               \/ \E j \in Jobs : queue' = Append(queue, j) /\ j.do # "expire"
        PROVE  ExpireInv'
    <2>1. op # NoOp \/ doc.hold.link = NoLink \/ doc.links[doc.hold.link] # "landing"
      BY <1>2, <1>4 DEF Settled
    <2>2. \A i \in 1 .. Len(queue') : queue'[i].do = "expire" => \E m \in 1 .. Len(queue) : queue'[i] = queue[m]
      BY <1>1, <1>4, QueueJobs
    <2> QED
      BY <1>4, <2>1, <2>2, ExpireKeeps
  <1>5. ASSUME op' = NoOp, queue # <<>>, queue' = Tail(queue), doc'.hold = doc.hold,
               doc.hold.link # NoLink => doc'.links[doc.hold.link] = doc.links[doc.hold.link]
        PROVE  ExpireInv'
    <2>1. \A i \in 1 .. Len(queue') : queue'[i].do = "expire" => \E m \in 1 .. Len(queue) : queue'[i] = queue[m]
      BY <1>1, <1>5, QueueJobs
    <2> QED
      BY <1>5, <2>1 DEF ExpireInv, Inv, HoldsInv
  <1>6. ASSUME NEW k \in Links, doc.links[k] \in {"asking", "taking"}, queue # <<>>, queue[1].of = k,
               queue[1].do \in {"attach", "takeover"}, Begin(doc, k, TRUE) \/ Begin(doc, k, FALSE)
        PROVE  ExpireInv'
    <2>1. Begins(doc, k)
      BY <1>1, <1>6, MovesNot, BeginShape
    <2>2. CASE queue' = queue /\ doc' = doc /\ (doc.hold = NoHold \/ doc.hold.link = NoLink)
      BY <1>4, <2>2, NoHoldFields DEF Keeps
    <2>3. CASE op' = NoOp /\ queue' = Tail(queue) /\ doc'.hold = doc.hold
               /\ \A n \in Links \ {k} : doc'.links[n] = doc.links[n]
      <3>1. doc.hold.link # k
        BY <1>1, <1>6, HoldsAssumption DEF HoldLinks
      <3> QED
        BY <1>2, <1>5, <1>6, <2>3, <3>1
    <2> QED
      BY <2>1, <2>2, <2>3 DEF Begins
  <1>7. ASSUME NEW k \in Links, doc.links[k] \in {"asking", "taking"}, queue # <<>>, Refuse(doc, k)
        PROVE  ExpireInv'
    <2>1. doc' = Put(doc, k, "closed") /\ op' = NoOp /\ queue' = Tail(queue)
      BY <1>7 DEF Refuse, Finish
    <2>2. doc.hold.link # k
      BY <1>1, <1>7, HoldsAssumption DEF HoldLinks
    <2>3. doc'.hold = doc.hold /\ \A n \in Links \ {k} : doc'.links[n] = doc.links[n]
      BY <1>1, <2>1, PutHold, PutElse DEF States
    <2> QED
      BY <1>2, <1>5, <1>7, <2>1, <2>2, <2>3
  <1>8. ASSUME NEW k \in Links, StartAttach(k)
        PROVE  ExpireInv'
    <2>1. /\ queue # <<>> /\ queue[1] = [do |-> "attach", of |-> k] /\ 1 \in 1 .. Len(queue)
          /\ queue[1].of = k /\ queue[1].do \in {"attach", "takeover"}
      BY <1>1, <1>8 DEF StartAttach, Ready
    <2>2. doc.links[k] = "asking"
      BY <2>1 DEF Inv, HoldsInv, QueueInv
    <2> QED
      BY <1>8, <1>6, <1>7, <2>1, <2>2 DEF StartAttach
  <1>9. ASSUME NEW k \in Links, StartTakeover(k)
        PROVE  ExpireInv'
    <2>1. /\ queue # <<>> /\ queue[1] = [do |-> "takeover", of |-> k] /\ 1 \in 1 .. Len(queue)
          /\ queue[1].of = k /\ queue[1].do \in {"attach", "takeover"}
      BY <1>1, <1>9 DEF StartTakeover, Ready
    <2>2. doc.links[k] = "taking"
      BY <2>1 DEF Inv, HoldsInv, QueueInv
    <2>3. ASSUME doc.hold.link # NoLink, doc.hold.link = met[k].link, NEW kept \in BOOLEAN,
                 Begin(Detached(doc, doc.hold.link, kept), k, TRUE)
          PROVE  ExpireInv'
      <3> DEFINE d == Detached(doc, doc.hold.link, kept)
      <3>1. doc.hold.link \in Links /\ doc.links[doc.hold.link] # "landing"
        BY <1>2, <2>2, <2>3 DEF Inv, HoldsInv, MetInv
      <3>2. d \in Docs /\ HoldLinks(d) /\ Moves(doc, d, {}) /\ d.hold.link = NoLink
        BY <1>1, <3>1, DetachedDoc
      <3>3. Begins(d, k)
        <4> HIDE DEF d
        <4> QED
          BY <3>2, <2>1, <2>3, BeginShape DEF d
      <3>4. doc'.hold = d.hold /\ (queue' = queue \/ queue' = Tail(queue))
        BY <3>3 DEF Begins
      <3>5. Keeps
        BY <3>1, <3>4, DetachedKeeps
      <3>6. \A i \in 1 .. Len(queue') : queue'[i].do = "expire" => \E m \in 1 .. Len(queue) : queue'[i] = queue[m]
        BY <1>1, <2>1, <3>4, QueueJobs
      <3> QED
        BY <3>1, <3>5, <3>6, ExpireKeeps
    <2>4. ASSUME Refuse(doc, k) \/ Begin(doc, k, TRUE)
          PROVE  ExpireInv'
      BY <1>6, <1>7, <2>1, <2>2, <2>4
    <2> QED
      BY <1>9, <2>3, <2>4 DEF StartTakeover
  <1>10. ASSUME NEW k \in Links, Land(k), Keeps
         PROVE  ExpireInv'
    <2>1. CASE queue = <<>>
      <3>1. queue' = <<>>
        BY <1>10, <2>1 DEF Land
      <3> QED
        BY <3>1 DEF ExpireInv
    <2>2. CASE queue # <<>>
      BY <1>4, <1>10, <2>2 DEF Land, Ready
    <2> QED
      BY <2>1, <2>2
  <1>11. ASSUME Keeps, Login \/ Access \/ Released \/ Read \/ Check \/ Claim \/ Hold \/ Undo
         PROVE  ExpireInv'
    <2>1. Settled /\ op.at \in Attaching
      BY <1>11 DEF Login, Access, Released, Read, Check, Claim, Hold, Undo, Attaching
    <2>2. queue # <<>>
      BY <2>1, OpLink
    <2>3. queue' = queue \/ queue' = Tail(queue)
      BY <1>11 DEF Login, Access, Released, Read, Check, Claim, Hold, Undo, Refuse, Finish
    <2> QED
      BY <1>4, <1>11, <2>1, <2>2, <2>3
  <1>12. CASE StartEnding
    <2>1. CASE doc' = Invalidate(doc) /\ UNCHANGED queue
      <3>1. doc'.hold = NoHold
        BY <1>1, <2>1, InvalidateDoc
      <3> QED
        BY <3>1, NoHoldFields, HoldsAssumption DEF ExpireInv, QueueInv
    <2>2. CASE Finish /\ UNCHANGED doc
      BY <1>5, <1>12, <2>2 DEF Finish, StartEnding, Ready
    <2> QED
      BY <1>12, <2>1, <2>2 DEF StartEnding
  <1>13. CASE EndingReleased /\ Keeps
    BY <1>1, <1>4, <1>13 DEF EndingReleased, Finish, OpInv
  <1>14. ASSUME NEW k \in Links, Keeps,
                Locate(k) \/ FirstMessage(k) \/ Close(k) \/ Lapse(k) \/ Recheck(k)
         PROVE  ExpireInv'
    BY <1>14, <1>4 DEF Locate, FirstMessage, Close, Lapse, Recheck
  <1>15. ASSUME NEW k \in Links, Keeps, Ask(k) \/ Confirm(k)
         PROVE  ExpireInv'
    <2>1. [do |-> "attach", of |-> k] \in Jobs /\ [do |-> "takeover", of |-> k] \in Jobs
      BY DEF Jobs
    <2>2. Settled /\ \E j \in Jobs : queue' = Append(queue, j) /\ j.do # "expire"
      BY <1>15, <2>1 DEF Ask, Confirm
    <2> QED
      BY <1>4, <1>15, <2>2
  <1>16. ASSUME NEW l \in Logins, Keeps, Revoke(l) \/ Delete(l)
         PROVE  ExpireInv'
    BY <1>16, <1>4 DEF Revoke, Delete
  <1>17. ASSUME NEW l \in Logins, Keeps, StopMachine(l)
         PROVE  ExpireInv'
    <2>1. [do |-> "stop", of |-> l] \in Jobs
      BY DEF Jobs
    <2>2. Settled /\ \E j \in Jobs : queue' = Append(queue, j) /\ j.do # "expire"
      BY <1>17, <2>1 DEF StopMachine
    <2> QED
      BY <1>4, <1>17, <2>2
  <1>18. CASE GraceEnds /\ Keeps
    <2>1. doc.hold # NoHold /\ doc.hold.link = NoLink /\ doc.hold.parked = NoLink /\ Settled
      BY <1>1, <1>18, NoHoldFields DEF GraceEnds, HoldLinks
    <2>2. doc'.hold = [doc.hold EXCEPT !.timer = "fired"] /\ doc.hold \in Holds
      BY <1>1, <1>18, <2>1, TimerDoc, DocFields DEF GraceEnds
    <2>3. doc'.hold.timer = "fired"
      BY <2>2 DEF Holds
    <2> QED
      BY <2>1, <2>3, <1>18, ExpireKeeps
  <1>19. CASE Keeps /\ (Release \/ ResetClear \/ ResetLost \/ ResetDone)
    BY <1>19, <1>4 DEF Release, ResetClear, ResetLost, ResetDone
  <1>20. CASE Keeps /\ Archive
    <2>1. [do |-> "end", of |-> NoLink] \in Jobs
      BY DEF Jobs
    <2>2. Settled /\ \E j \in Jobs : queue' = Append(queue, j) /\ j.do # "expire"
      BY <1>20, <2>1 DEF Archive
    <2> QED
      BY <1>4, <1>20, <2>2
  <1>21. CASE UNCHANGED vars
    BY <1>21 DEF vars, ExpireInv, Inv, HoldsInv
  <1> HIDE DEF ExpireInv
  <1> QED
    BY <1>3, <1>8, <1>9, <1>10, <1>11, <1>12, <1>13, <1>14, <1>15, <1>16, <1>17, <1>18, <1>19, <1>20, <1>21
       DEF Next, AttachStep

\* The rest of the types.
Rest == /\ live \subseteq rows /\ rows \subseteq Logins
        /\ owner \in Logins \cup {NoLogin} /\ gen \in Gens
        /\ releasing \subseteq Logins \X Gens
        /\ endings \in Nat /\ archived \in BOOLEAN /\ resetting \in BOOLEAN
        /\ unheard \subseteq Gens
        /\ load \in [loginOf: [Links -> Logins \cup {NoLogin}], resets: Nat, archives: Nat]

LEMMA RestStep ==
    ASSUME Inv, [Next]_vars
    PROVE  Rest'
  <1> USE DEF storage, ends
  <1>1. Rest /\ doc \in Docs
    BY DEF Inv, HoldsInv, TypeOK, Rest
  <1>2. ASSUME UNCHANGED <<live, storage, releasing, ends>>
        PROVE  Rest'
    BY <1>1, <1>2 DEF Rest
  <1>3. ASSUME UNCHANGED <<live, rows, gen, releasing, ends>>, owner' \in {owner, NoLogin}
        PROVE  Rest'
    BY <1>1, <1>3 DEF Rest
  <1>4. ASSUME NEW k \in Links, StartAttach(k) \/ StartTakeover(k) \/ Land(k) \/ Locate(k) \/ Ask(k)
                                 \/ Confirm(k) \/ FirstMessage(k) \/ Close(k) \/ Lapse(k)
        PROVE  Rest'
    BY <1>2, <1>4 DEF StartAttach, StartTakeover, Land, Locate, Ask, Confirm, FirstMessage, Close, Lapse
  <1>5. CASE Login \/ Access \/ Read \/ Check \/ Hold \/ StartEnding \/ GraceEnds
    BY <1>2, <1>5 DEF Login, Access, Read, Check, Hold, StartEnding, GraceEnds
  <1>6. CASE Released \/ Undo \/ EndingReleased
    BY <1>3, <1>6 DEF Released, Undo, EndingReleased, Clear
  <1>7. CASE Claim
    <2>1. CASE UNCHANGED <<owner, gen>>
      BY <1>1, <1>7, <2>1 DEF Claim, Rest
    <2>2. CASE ~(op.inv \/ LoginOf[op.link] \notin rows)
      <3>1. LoginOf[op.link] \in Logins /\ owner' = LoginOf[op.link] /\ gen' \in {gen, gen + 1}
        BY <1>1, <1>7, <2>2 DEF Claim, Rest
      <3>2. gen' \in Gens
        BY <1>1, <3>1 DEF Rest, Gens
      <3> QED
        BY <1>1, <1>7, <3>1, <3>2 DEF Claim, Rest
    <2> QED
      BY <1>7, <2>1, <2>2 DEF Claim
  <1>8. ASSUME NEW k \in Links, Recheck(k)
        PROVE  Rest'
    <2>1. doc.hold # NoHold
      BY <1>8, NoHoldFields, HoldsAssumption DEF Recheck
    <2>2. <<doc.hold.login, doc.hold.gen>> \in Logins \X Gens
      BY <1>1, <2>1, DocFields
    <2>3. releasing' \subseteq Logins \X Gens
      BY <1>1, <1>8, <2>2 DEF Recheck, Rest
    <2> QED
      BY <1>1, <1>8, <2>3 DEF Recheck, Rest
  <1>9. ASSUME NEW l \in Logins, Revoke(l)
        PROVE  Rest'
    <2>1. <<l, doc.hold.gen>> \in Logins \X Gens
      BY <1>1, DocFields, NoHoldFields DEF Gens
    <2>2. releasing' \subseteq Logins \X Gens
      BY <1>1, <1>9, <2>1 DEF Revoke, Rest
    <2> QED
      BY <1>1, <1>9, <2>2 DEF Revoke, Rest
  <1>10. ASSUME NEW l \in Logins, Delete(l) \/ StopMachine(l)
         PROVE  Rest'
    BY <1>1, <1>10 DEF Delete, StopMachine, Rest
  <1>11. CASE Release
    <2>1. PICK x \in releasing : Clear(x[1], x[2]) /\ releasing' = releasing \ {x}
      BY <1>11 DEF Release
    <2> QED
      BY <1>1, <1>11, <2>1 DEF Release, Clear, Rest
  <1>12. CASE ResetClear
    <2>1. load' \in [loginOf: [Links -> Logins \cup {NoLogin}], resets: Nat, archives: Nat]
      BY <1>1, <1>12 DEF ResetClear, Spend, Rest
    <2> QED
      BY <1>1, <1>12, <2>1 DEF ResetClear, Rest
  <1>13. CASE ResetDone
    BY <1>1, <1>13 DEF ResetDone, Rest
  <1>16. CASE ResetLost
    <2>1. load' \in [loginOf: [Links -> Logins \cup {NoLogin}], resets: Nat, archives: Nat]
      BY <1>1, <1>16 DEF ResetLost, Spend, Rest
    <2>2. unheard' \subseteq Gens
      BY <1>1, <1>16 DEF ResetLost, Rest
    <2> QED
      BY <1>1, <1>16, <2>1, <2>2 DEF ResetLost, Rest
  <1>14. CASE Archive
    <2>1. load' \in [loginOf: [Links -> Logins \cup {NoLogin}], resets: Nat, archives: Nat]
      BY <1>1, <1>14 DEF Archive, Spend, Rest
    <2> QED
      BY <1>1, <1>14, <2>1 DEF Archive, Rest
  <1>15. CASE UNCHANGED vars
    BY <1>2, <1>15 DEF vars
  <1> HIDE DEF Rest
  <1> QED
    BY <1>4, <1>5, <1>6, <1>7, <1>8, <1>9, <1>10, <1>11, <1>12, <1>13, <1>14, <1>15, <1>16
       DEF Next, AttachStep

Backed == EndedLoginHoldsNothing /\ HoldOwns /\ ClaimInv

\* Nothing that backs a hold or a claim changes.
LEMMA BackedStays ==
    ASSUME Inv, Keeps, UNCHANGED <<live, owner, gen, unheard, resetting, releasing>>,
           op'.at = "live" => op.at = "live" /\ op'.login = op.login /\ op'.gen = op.gen /\ (op.inv => op'.inv)
    PROVE  Backed'
  BY DEF Inv, HoldsInv, HoldIsBacked, Backed, EndedLoginHoldsNothing, HoldOwns, ClaimInv, Stands, Keeps

\* The document is free and no claim is made: an owner may be cleared.
LEMMA BackedFree ==
    ASSUME Inv, doc'.hold = NoHold, live' = live, releasing' = releasing, op'.at # "live"
    PROVE  Backed'
  BY DEF Inv, HoldsInv, Backed, EndedLoginHoldsNothing, HoldOwns, ClaimInv, Stands

\* Logins may end and owners be cleared, but not those of a hold or a claim.
LEMMA BackedCleared ==
    ASSUME Inv, Keeps, live' \subseteq live, gen' = gen, unheard' = unheard, resetting' = resetting,
           op'.at = op.at, op'.gen = op.gen,
           op'.login = op.login, op.inv => op'.inv, \A x \in releasing' : x[1] \notin live',
           doc'.hold = NoHold \/ doc'.hold.login \in live',
           owner' = owner \/ (owner' = NoLogin /\ owner \notin live')
    PROVE  Backed'
  BY DEF Inv, HoldsInv, HoldIsBacked, Backed, EndedLoginHoldsNothing, HoldOwns, ClaimInv, Stands, Keeps

\* Every step keeps holds and claims backed.
LEMMA BackedStep ==
    ASSUME Inv, [Next]_vars, Keeps \/ Binds, op' \in Ops
    PROVE  Backed'
  <1> USE DEF storage, ends
  <1>1. /\ op \in Ops /\ queue \in Seq(Jobs) /\ doc \in Docs /\ OpInv /\ HoldLinks(doc)
    BY OpFacts
  <1>2. Backed /\ Rest
    BY DEF Inv, HoldsInv, HoldIsBacked, Backed, TypeOK, Rest
  <1>3. CASE Binds
    <2>1. op'.at # "live" /\ UNCHANGED <<live, owner, gen, unheard, resetting, releasing>>
      BY <1>3, NoOpFields DEF Binds
    <2>2. CASE /\ op.at = "check" /\ doc.hold # NoHold
               /\ doc'.hold.login = doc.hold.login /\ doc'.hold.gen = doc.hold.gen
      BY <1>2, <2>1, <2>2 DEF Backed, EndedLoginHoldsNothing, HoldOwns, ClaimInv, Stands
    <2>3. CASE /\ op.at = "live" /\ ~op.inv /\ op.login \in live
               /\ doc'.hold.login = op.login /\ doc'.hold.gen = op.gen
      BY <1>2, <2>1, <2>3 DEF Backed, EndedLoginHoldsNothing, HoldOwns, ClaimInv, Stands
    <2> QED
      BY <1>3, <2>2, <2>3 DEF Binds
  <1>4. ASSUME NEW k \in Links, Keeps, StartAttach(k) \/ StartTakeover(k)
        PROVE  Backed'
    <2>1. UNCHANGED <<live, owner, gen, unheard, resetting, releasing>>
      BY <1>4 DEF StartAttach, StartTakeover
    <2>2. op'.at # "live"
      BY <1>4, NoOpFields DEF StartAttach, StartTakeover, Begin, Refuse, Finish, NoOp
    <2> QED
      BY <1>4, <2>1, <2>2, BackedStays
  <1>5. ASSUME NEW k \in Links, Keeps, Land(k) \/ Locate(k) \/ Ask(k) \/ Confirm(k) \/ FirstMessage(k)
                                       \/ Close(k) \/ Lapse(k)
        PROVE  Backed'
    BY <1>5, BackedStays DEF Land, Locate, Ask, Confirm, FirstMessage, Close, Lapse
  <1>6. ASSUME Keeps, Login \/ Access \/ Read \/ Check \/ Hold
        PROVE  Backed'
    <2>1. UNCHANGED <<live, owner, gen, unheard, resetting, releasing>>
      BY <1>6 DEF Login, Access, Read, Check, Hold
    <2>2. op'.at # "live"
      BY <1>1, <1>6, NoOpFields DEF Login, Access, Read, Check, Hold, Refuse, Finish, Step, Ops
    <2> QED
      BY <1>6, <2>1, <2>2, BackedStays
  <1>7. CASE Released \/ Undo \/ EndingReleased
    <2>1. doc'.hold = NoHold
      BY <1>1, <1>7, PutHold DEF Released, Undo, EndingReleased, OpInv, Refuse
    <2>2. live' = live /\ releasing' = releasing
      BY <1>7 DEF Released, Undo, EndingReleased
    <2>3. op'.at # "live"
      BY <1>1, <1>7, NoOpFields DEF Released, Undo, EndingReleased, Refuse, Finish, Step, Ops
    <2> QED
      BY <2>1, <2>2, <2>3, BackedFree
  <1>8. CASE Claim
    <2>1. doc.hold = NoHold /\ doc'.hold = NoHold /\ live' = live /\ releasing' = releasing /\ resetting' = resetting
      BY <1>1, <1>8, PutHold DEF Claim, OpInv, Refuse
    <2>2. CASE op.inv \/ LoginOf[op.link] \notin rows
      <3>1. op'.at # "live"
        BY <1>8, <2>2, NoOpFields DEF Claim, Refuse, Finish
      <3> QED
        BY <2>1, <3>1, BackedFree
    <2>3. CASE ~(op.inv \/ LoginOf[op.link] \notin rows)
      <3> DEFINE l == LoginOf[op.link]
                 g == IF owner = l THEN gen ELSE gen + 1
      <3>1. owner' = l /\ gen' = g /\ op' = [op EXCEPT !.at = "live", !.login = l, !.gen = g]
        BY <1>8, <2>3 DEF Claim
      <3> HIDE DEF l, g
      <3>2. op'.login = l /\ op'.gen = g
        BY <1>1, <3>1 DEF Ops
      <3> QED
        BY <1>2, <2>1, <3>1, <3>2 DEF Backed, EndedLoginHoldsNothing, HoldOwns, ClaimInv, Stands
    <2> QED
      BY <2>2, <2>3
  <1>9. CASE StartEnding /\ Keeps
    <2>1. UNCHANGED <<live, owner, gen, unheard, resetting, releasing>>
      BY <1>9 DEF StartEnding
    <2>2. op'.at # "live"
      BY <1>9, NoOpFields DEF StartEnding, Finish, NoOp
    <2> QED
      BY <1>9, <2>1, <2>2, BackedStays
  <1>10. ASSUME NEW k \in Links, Recheck(k), Keeps
         PROVE  Backed'
    <2>1. live' = live /\ owner' = owner /\ gen' = gen /\ unheard' = unheard /\ resetting' = resetting /\ op' = op
      BY <1>10 DEF Recheck
    <2>2. \A x \in releasing' : x[1] \notin live'
      <3>1. CASE releasing' = releasing
        BY <1>2, <2>1, <3>1 DEF Backed, ClaimInv
      <3>2. CASE doc.hold.login \notin live /\ releasing' = releasing \cup {<<doc.hold.login, doc.hold.gen>>}
        BY <1>2, <2>1, <3>2 DEF Backed, ClaimInv
      <3> QED
        BY <1>10, <3>1, <3>2 DEF Recheck
    <2>3. doc'.hold = NoHold \/ doc'.hold.login \in live'
      BY <1>2, <1>10, <2>1 DEF Keeps, Backed, EndedLoginHoldsNothing
    <2> QED
      BY <1>10, <2>1, <2>2, <2>3, BackedCleared
  <1>11. ASSUME NEW l \in Logins, Revoke(l), Keeps
         PROVE  Backed'
    <2>1. /\ live' = live \ {l} /\ owner' = owner /\ gen' = gen /\ unheard' = unheard /\ resetting' = resetting
          /\ op'.at = op.at /\ op'.gen = op.gen /\ op'.login = op.login
      BY <1>1, <1>11 DEF Revoke, Ops
    <2>2. op.inv => op'.inv
      BY <1>1, <1>11 DEF Revoke, Ops
    <2>3. \A x \in releasing' : x[1] \notin live'
      BY <1>2, <1>11, <2>1 DEF Revoke, Backed, ClaimInv
    <2>4. doc'.hold = NoHold \/ doc'.hold.login \in live'
      <3>1. CASE doc.hold.login = l
        BY <1>1, <1>11, <3>1, InvalidateDoc DEF Revoke
      <3>2. CASE doc.hold.login # l
        BY <1>2, <1>11, <2>1, <3>2 DEF Revoke, Backed, EndedLoginHoldsNothing
      <3> QED
        BY <3>1, <3>2
    <2> QED
      BY <1>11, <2>1, <2>2, <2>3, <2>4, BackedCleared
  <1>12. ASSUME NEW l \in Logins, Delete(l), Keeps
         PROVE  Backed'
    <2>1. /\ live' = live /\ gen' = gen /\ unheard' = unheard /\ resetting' = resetting /\ op' = op /\ doc' = doc /\ releasing' = releasing
          /\ owner' = owner \/ (owner' = NoLogin /\ owner \notin live')
      BY <1>12 DEF Delete
    <2> QED
      BY <1>2, <1>12, <2>1, BackedCleared DEF Backed, EndedLoginHoldsNothing, ClaimInv
  <1>13. ASSUME NEW l \in Logins, StopMachine(l), Keeps
         PROVE  Backed'
    BY <1>13, BackedStays DEF StopMachine
  <1>14. CASE (GraceEnds \/ Archive) /\ Keeps
    BY <1>14, BackedStays DEF GraceEnds, Archive
  <1>15. CASE Release /\ Keeps
    <2>1. PICK x \in releasing : Clear(x[1], x[2]) /\ releasing' = releasing \ {x}
      BY <1>15 DEF Release
    <2>2. live' = live /\ gen' = gen /\ unheard' = unheard /\ resetting' = resetting /\ op' = op /\ doc' = doc
      BY <1>15 DEF Release
    <2>3. owner' = owner \/ (owner' = NoLogin /\ owner \notin live')
      BY <1>2, <2>1, <2>2 DEF Clear, Backed, ClaimInv
    <2> QED
      BY <1>2, <1>15, <2>1, <2>2, <2>3, BackedCleared DEF Backed, EndedLoginHoldsNothing, ClaimInv
  <1>16. CASE ResetClear
    BY <1>2, <1>16 DEF ResetClear, Backed, EndedLoginHoldsNothing, HoldOwns, ClaimInv, Stands
  <1>19. CASE ResetLost
    <2>1. /\ live' = live /\ gen' = gen /\ resetting' = resetting /\ op' = op /\ doc' = doc
          /\ releasing' = releasing /\ owner' = NoLogin /\ unheard' = unheard \cup {gen}
      BY <1>19 DEF ResetLost
    <2> QED
      BY <1>2, <2>1 DEF Backed, EndedLoginHoldsNothing, HoldOwns, ClaimInv, Stands
  <1>17. CASE ResetDone
    <2>1. doc'.hold = NoHold
      BY <1>1, <1>17, InvalidateDoc DEF ResetDone
    <2>2. live' = live /\ releasing' = releasing
      BY <1>17 DEF ResetDone
    <2>3. op'.at = "live" => op'.inv
      <3>1. op.at = "live" => op.link # NoLink
        BY <1>1, HoldsAssumption DEF OpInv, Attaching
      <3> DEFINE b == op.inv \/ op.link # NoLink
      <3>2. op' = [op EXCEPT !.inv = b]
        BY <1>17 DEF ResetDone
      <3>3. op.at = "live" => b
        BY <3>1
      <3> HIDE DEF b
      <3>4. op'.at = op.at /\ op'.inv = b
        BY <1>1, <3>2 DEF Ops
      <3> QED
        BY <3>3, <3>4
    <2> QED
      BY <1>2, <2>1, <2>2, <2>3 DEF Backed, EndedLoginHoldsNothing, HoldOwns, ClaimInv, Stands
  <1>18. CASE UNCHANGED vars
    BY <1>2, <1>18 DEF vars, Backed, EndedLoginHoldsNothing, HoldOwns, ClaimInv, Stands
  <1> HIDE DEF Backed
  <1> QED
    BY <1>3, <1>4, <1>5, <1>6, <1>7, <1>8, <1>9, <1>10, <1>11, <1>12, <1>13, <1>14, <1>15, <1>16, <1>17, <1>18,
       <1>19 DEF Next, AttachStep

-----------------------------------------------------------------------------
(* The theorems.                                                           *)

\* The named parts of HoldsInv say what its auxiliary parts imply.
LEMMA PartsFollow ==
    ASSUME doc \in Docs, HoldLinks(doc), QueueInv, ExpireInv, queue \in Seq(Jobs)
    PROVE  BoundHolds /\ SuspendedIsParked /\ KeptHasNoDeadline
  <1>1. BoundHolds /\ SuspendedIsParked
    BY DEF HoldLinks, BoundHolds, SuspendedIsParked
  <1>2. ASSUME Ready, Head(queue).do = "expire", Ends(Head(queue))
        PROVE  doc.hold.parked = NoLink
    <2>1. 1 \in 1 .. Len(queue) /\ Head(queue) = queue[1]
      BY <1>2 DEF Ready
    <2>2. queue[1].of = doc.hold.id /\ doc.hold.link = NoLink
      BY <1>2, <2>1 DEF Ends
    <2>3. doc.hold.timer = "fired"
      BY <1>2, <2>1, <2>2 DEF ExpireInv
    <2> QED
      BY <2>3 DEF HoldLinks
  <1> QED
    BY <1>1, <1>2 DEF KeptHasNoDeadline

LEMMA InitHolds ==
    ASSUME Init
    PROVE  Inv
  <1>1. doc \in Docs /\ HoldLinks(doc)
    <2>1. doc.hold = NoHold /\ doc.links = [k \in Links |-> "new"]
      BY DEF Init
    <2>2. doc \in Docs
      BY DEF Init, Docs, States
    <2> QED
      BY <2>1, <2>2, NoHoldFields DEF HoldLinks
  <1>2. queue = <<>> /\ queue \in Seq(Jobs) /\ op = NoOp /\ op \in Ops
    BY NoOpFields DEF Init
  <1>3. QueueInv /\ ExpireInv
    BY <1>2 DEF QueueInv, ExpireInv
  <1>4. OpInv
    BY <1>2, NoOpFields DEF OpInv, Attaching
  <1>5. MetInv
    BY DEF Init, MetInv
  <1>6. met \in [Links -> [link: Links \cup {NoLink}, endings: Nat]]
    BY DEF Init
  <1>7. load \in [loginOf: [Links -> Logins \cup {NoLogin}], resets: Nat, archives: Nat]
    BY HoldsAssumption DEF Init
  <1>8. live \subseteq rows /\ rows \subseteq Logins
    BY <1>7 DEF Init, LoginOf
  <1>9. /\ owner \in Logins \cup {NoLogin} /\ gen \in Gens /\ releasing = {}
        /\ endings \in Nat /\ archived \in BOOLEAN /\ resetting \in BOOLEAN /\ unheard \subseteq Gens
    BY DEF Init, Gens
  <1>10. ClaimInv
    BY <1>2, <1>9, NoOpFields DEF ClaimInv
  <1>11. HoldIsBacked
    BY DEF Init, HoldIsBacked, EndedLoginHoldsNothing, HoldOwns
  <1>12. TypeOK
    BY <1>1, <1>2, <1>6, <1>7, <1>8, <1>9 DEF TypeOK
  <1> QED
    BY <1>1, <1>2, <1>3, <1>4, <1>5, <1>10, <1>11, <1>12, PartsFollow DEF Inv, HoldsInv

LEMMA NextHolds ==
    ASSUME Inv, [Next]_vars
    PROVE  Inv'
  <1>1. Shape
    BY StepShape
  <1>2. Keeps \/ Binds
    BY HoldStep
  <1>3. doc' \in Docs /\ HoldLinks(doc')
    BY <1>1 DEF Shape
  <1>4. queue' \in Seq(Jobs) /\ QueueInv'
    BY <1>1, QueueStep
  <1>5. met' \in [Links -> [link: Links \cup {NoLink}, endings: Nat]] /\ MetInv'
    BY <1>1, MetStep
  <1>6. op' \in Ops /\ OpInv'
    BY <1>1, <1>2, OpStep
  <1>7. ExpireInv'
    BY <1>1, <1>2, <1>4, ExpireStep
  <1>8. Rest'
    BY RestStep
  <1>9. Backed'
    BY <1>2, <1>6, BackedStep
  <1>10. TypeOK'
    BY <1>3, <1>4, <1>5, <1>6, <1>8 DEF TypeOK, Rest
  <1>11. (BoundHolds /\ SuspendedIsParked /\ KeptHasNoDeadline)'
    <2>1. BoundHolds' /\ SuspendedIsParked'
      BY <1>3 DEF HoldLinks, BoundHolds, SuspendedIsParked
    <2>2. ASSUME Ready', Head(queue').do = "expire", Ends(Head(queue))'
          PROVE  doc'.hold.parked = NoLink
      <3>1. 1 \in 1 .. Len(queue') /\ Head(queue') = queue'[1]
        BY <1>4, <2>2 DEF Ready
      <3>2. queue'[1].of = doc'.hold.id /\ doc'.hold.link = NoLink
        BY <2>2, <3>1 DEF Ends
      <3>3. doc'.hold.timer = "fired"
        BY <1>7, <2>2, <3>1, <3>2 DEF ExpireInv
      <3> QED
        BY <1>3, <3>3 DEF HoldLinks
    <2> QED
      BY <2>1, <2>2 DEF KeptHasNoDeadline
  <1>12. HoldLinks(doc)'
    BY <1>3
  <1> QED
    BY <1>4, <1>5, <1>6, <1>7, <1>9, <1>10, <1>11, <1>12 DEF Inv, HoldsInv, HoldIsBacked, Backed

\* The inductive invariant of the attachments: types, the hold and its links, the queue, the
\* one under way, the links that met another, deadlines and ownership, for any links, logins
\* and loads.
THEOREM HoldsInvariant == Spec => []Inv
  <1>1. Init => Inv
    BY InitHolds
  <1>2. Inv /\ [Next]_vars => Inv'
    BY NextHolds
  <1> QED
    BY <1>1, <1>2, PTL DEF Spec

\* One link is the Planner, what a dropped link kept is parked with the hold, and a grace
\* period that ran out while an attach was under way does not end it (attachments.ts).
THEOREM OnePlanner == Spec => []HoldsInv
  <1>1. Inv => HoldsInv
    BY DEF Inv
  <1> QED
    BY <1>1, HoldsInvariant, PTL

\* A hold rests on a live login, whatever ends, is released, is reset or is claimed in the
\* meantime (pending.invalidated), and on its ownership in storage, unless a reset that
\* cleared it is on its way to the hold or had its reply lost: then nobody owns the document
\* (the generation guards every clear).
THEOREM HoldsBacked == Spec => []HoldIsBacked
  <1>1. Inv => HoldIsBacked
    BY DEF Inv
  <1> QED
    BY <1>1, HoldsInvariant, PTL
=============================================================================
