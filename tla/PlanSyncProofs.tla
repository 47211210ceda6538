--------------------------- MODULE PlanSyncProofs ---------------------------
(***************************************************************************)
(* The collaborative document, for any tabs, edits and loads.  The first   *)
(* part is about the operators of the provider and of the rows, the second *)
(* about what each step does to them.                                      *)
(***************************************************************************)
EXTENDS PlanSync, FiniteSetTheorems, SequenceTheorems, WellFoundedInduction, TLAPS

-----------------------------------------------------------------------------
(* The provider.                                                           *)

(* A finite set of numbers has a largest: a smallest subset without one    *)
(* would have one when an element is taken from it.                        *)
LEMMA MaxExists ==
    ASSUME NEW S \in SUBSET Nat, IsFiniteSet(S), S # {}
    PROVE  \E m \in S : \A n \in S : m >= n
<1> DEFINE Bad == {A \in FiniteSubsetsOf(S) : A # {} /\ \A m \in A : \E n \in A : ~(m >= n)}
<1>1. SUFFICES ASSUME Bad # {} PROVE FALSE
  <2>1. S \in FiniteSubsetsOf(S)
    BY DEF FiniteSubsetsOf
  <2> QED
    BY <2>1, <1>1
<1>2. IsWellFoundedOn(StrictSubsetOrdering(S), FiniteSubsetsOf(S))
  BY FS_StrictSubsetOrderingWellFounded
<1>3. Bad \subseteq FiniteSubsetsOf(S)
  OBVIOUS
<1>4. PICK A \in Bad : \A B \in Bad : ~(<<B, A>> \in StrictSubsetOrdering(S))
  <2> HIDE DEF Bad
  <2> QED
    BY <1>1, <1>2, <1>3, WFMin
<1>5. A \in FiniteSubsetsOf(S) /\ A # {}
  OBVIOUS
<1>6. PICK x \in A : TRUE
  BY <1>5
<1>7. A \subseteq Nat /\ IsFiniteSet(A) /\ A \subseteq S
  BY <1>5 DEF FiniteSubsetsOf
<1>8. A \ {x} \in FiniteSubsetsOf(S)
  BY <1>7, FS_RemoveElement DEF FiniteSubsetsOf
<1>9. <<A \ {x}, A>> \in StrictSubsetOrdering(S)
  BY <1>6, <1>7 DEF StrictSubsetOrdering
<1>10. A \ {x} \notin Bad
  BY <1>4, <1>9
<1>11. CASE A \ {x} = {}
  <2>1. \A n \in A : n = x
    BY <1>11
  <2>2. \A n \in A : x >= n
    BY <2>1, <1>6, <1>7
  <2> QED
    BY <2>2, <1>6
<1>12. CASE A \ {x} # {}
  <2>1. PICK m \in A \ {x} : \A n \in A \ {x} : m >= n
    BY <1>12, <1>10, <1>8
  <2>2. m \in Nat /\ x \in Nat /\ \A n \in A : n = x \/ m >= n
    BY <2>1, <1>7, <1>6
  <2>3. CASE m >= x
    BY <2>3, <2>2, <2>1
  <2>4. CASE ~(m >= x)
    <3>1. \A n \in A : x >= n
      BY <2>4, <2>2, <1>7
    <3> QED
      BY <3>1, <1>6
  <2> QED
    BY <2>3, <2>4
<1> QED
  BY <1>11, <1>12

LEMMA MaxIn ==
    ASSUME NEW S \in SUBSET Nat, IsFiniteSet(S), S # {}
    PROVE  Max(S) \in S
  BY MaxExists DEF Max

LEMMA ProviderFields ==
    ASSUME NEW M, NEW p \in Providers(M)
    PROVE  /\ p.outbox \subseteq Entries(M) /\ IsFiniteSet(p.outbox)
           /\ p.gen \in Nat \ {0} /\ p.epoch \in Nat /\ p.counter \in Nat
           /\ p.synced \in BOOLEAN /\ p.opening \in BOOLEAN /\ p.pacing \in BOOLEAN
           /\ p.doc \subseteq M /\ p.mine \subseteq M /\ p.mine \subseteq p.doc
           /\ \A x \in p.outbox : x.id # <<"merged", p.counter>> /\ Used(p, x.id, M)
           /\ p \in ProviderRecords(M)
<1>1. p \in ProviderRecords(M) /\ IsFiniteSet(p.outbox) /\ p.mine \subseteq p.doc
      /\ \A x \in p.outbox : Used(p, x.id, M)
  BY DEF Providers
<1>2. p.counter \in Nat
  BY <1>1 DEF ProviderRecords
<1>3. \A x \in p.outbox : x.id # <<"merged", p.counter>>
  BY <1>1, <1>2 DEF Used
<1> QED
  BY <1>1, <1>3 DEF ProviderRecords

(* What several entries are merged into is an entry.                       *)
LEMMA UnionEntry ==
    ASSUME NEW M, NEW at \in SUBSET Entries(M), IsFiniteSet(at), at # {}, NEW id \in Ids
    PROVE  /\ Union(at, id) \in Entries(M)
           /\ Union(at, id).id = id /\ Union(at, id).edits = UNION {e.edits : e \in at}
<1> DEFINE S == {e.sends : e \in at}
<1>1. S \subseteq Nat /\ S # {}
  BY DEF Entries
<1>2. IsFiniteSet(S)
  <2> DEFINE f == [e \in at |-> e.sends]
  <2>1. f \in Surjection(at, S)
    BY DEF Surjection
  <2> QED
    BY <2>1, FS_Surjection
<1>3. Max(S) \in Nat
  <2> HIDE DEF S
  <2> QED
    BY <1>1, <1>2, MaxIn
<1>4. UNION {e.edits : e \in at} \subseteq M
  BY DEF Entries
<1>5. (\E e \in at : e.unsent) \in BOOLEAN
  BY Zenon
<1> QED
  BY <1>3, <1>4, <1>5 DEF Union, Entries


(* The holder of some of a provider's entries has all their edits, and is  *)
(* the one entry itself or has a new id.                                   *)
LEMMA HolderFacts ==
    ASSUME NEW M, NEW p \in Providers(M), NEW at \in SUBSET p.outbox, at # {}
    PROVE  /\ Holder(p, at) \in Entries(M)
           /\ Holder(p, at).edits = UNION {e.edits : e \in at}
           /\ Single(at) => at = {Holder(p, at)}
           /\ ~Single(at) => Holder(p, at).id = <<"merged", p.counter>>
<1>1. at \subseteq Entries(M) /\ IsFiniteSet(at) /\ p.counter \in Nat
  BY ProviderFields, FS_Subset
<1>2. CASE Single(at)
  <2>1. PICK e \in at : at = {e}
    BY <1>2 DEF Single
  <2>2. Holder(p, at) = e
    BY <1>2, <2>1 DEF Holder
  <2>3. UNION {x.edits : x \in at} = e.edits
    BY <2>1
  <2> QED
    BY <1>1, <1>2, <2>1, <2>2, <2>3
<1>3. CASE ~Single(at)
  <2>1. Holder(p, at) = Union(at, <<"merged", p.counter>>)
    BY <1>3 DEF Holder
  <2>2. <<"merged", p.counter>> \in Ids
    BY <1>1 DEF Ids
  <2> QED
    BY <1>1, <1>3, <2>1, <2>2, UnionEntry
<1> QED
  BY <1>2, <1>3

\* The document and where the provider stands are the same.
Same(p, q) ==
    /\ q.gen = p.gen /\ q.epoch = p.epoch /\ q.synced = p.synced /\ q.opening = p.opening
    /\ q.doc = p.doc /\ q.mine = p.mine

\* q's outbox holds what p's does, in entries of p's or under ids that are new.
Regroups(p, q) ==
    /\ p.counter <= q.counter /\ Held(q) = Held(p) /\ (p.outbox = {} => q.outbox = {})
    /\ \A x \in q.outbox :
         \/ \E y \in p.outbox : y.id = x.id /\ y.edits = x.edits
         \/ /\ x.id[1] = "merged" /\ x.id[2] >= p.counter /\ x.id[2] < q.counter
            /\ \A z \in q.outbox : z.id = x.id => z.edits = x.edits

(* Entries of an outbox may change but for their ids and edits.            *)
LEMMA RegroupsMap ==
    ASSUME NEW p, NEW q, p.counter \in Nat, q.counter = p.counter,
           \A x \in q.outbox : \E y \in p.outbox : y.id = x.id /\ y.edits = x.edits,
           \A y \in p.outbox : \E x \in q.outbox : y.edits = x.edits
    PROVE  Regroups(p, q)
<1>1. Held(q) = Held(p)
  BY DEF Held
<1> QED
  BY <1>1 DEF Regroups

LEMMA RegroupsTwice ==
    ASSUME NEW p, NEW q, NEW r, Regroups(p, q), Regroups(q, r),
           p.counter \in Nat, q.counter \in Nat, r.counter \in Nat,
           \A x \in r.outbox : x.id[2] \in Nat
    PROVE  Regroups(p, r)
<1>1. p.counter <= r.counter /\ Held(r) = Held(p) /\ (p.outbox = {} => r.outbox = {})
  BY DEF Regroups
<1>2. ASSUME NEW x \in r.outbox,
             ~\E y \in p.outbox : y.id = x.id /\ y.edits = x.edits
      PROVE  /\ x.id[1] = "merged" /\ x.id[2] >= p.counter /\ x.id[2] < r.counter
             /\ \A z \in r.outbox : z.id = x.id => z.edits = x.edits
  <2>1. CASE \E y \in q.outbox : y.id = x.id /\ y.edits = x.edits
    <3>1. PICK y \in q.outbox : y.id = x.id /\ y.edits = x.edits
      BY <2>1
    <3>2. /\ y.id[1] = "merged" /\ y.id[2] >= p.counter /\ y.id[2] < q.counter
          /\ \A z \in q.outbox : z.id = y.id => z.edits = y.edits
      BY <3>1, <1>2 DEF Regroups
    <3>3. x.id[2] < r.counter
      BY <3>1, <3>2 DEF Regroups
    <3>4. ASSUME NEW z \in r.outbox, z.id = x.id PROVE z.edits = x.edits
      <4>1. ~(z.id[2] >= q.counter)
        BY <3>1, <3>2, <3>4
      <4>2. PICK w \in q.outbox : w.id = z.id /\ w.edits = z.edits
        BY <4>1 DEF Regroups
      <4> QED
        BY <4>2, <3>4, <3>1, <3>2
    <3> QED
      BY <3>1, <3>2, <3>3, <3>4
  <2>2. CASE ~\E y \in q.outbox : y.id = x.id /\ y.edits = x.edits
    BY <2>2 DEF Regroups
  <2> QED
    BY <2>1, <2>2
<1> QED
  BY <1>1, <1>2 DEF Regroups

(* #merge regroups the outbox and changes nothing else.                    *)
LEMMA MergeFacts ==
    ASSUME NEW M, NEW p \in Providers(M), NEW at \in SUBSET p.outbox, at # {}
    PROVE  /\ Merge(p, at) \in Providers(M) /\ Same(p, Merge(p, at))
           /\ Merge(p, at).pacing = p.pacing /\ Holder(p, at) \in Merge(p, at).outbox
           /\ Regroups(p, Merge(p, at))
<1> DEFINE h == Holder(p, at)
           q == Merge(p, at)
<1>1. /\ p.counter \in Nat /\ p.outbox \subseteq Entries(M) /\ IsFiniteSet(p.outbox)
      /\ p.mine \subseteq p.doc /\ p \in ProviderRecords(M)
      /\ \A x \in p.outbox : x.id # <<"merged", p.counter>> /\ Used(p, x.id, M)
  BY ProviderFields
<1>2. /\ h \in Entries(M) /\ h.edits = UNION {e.edits : e \in at}
      /\ Single(at) => at = {h}
      /\ ~Single(at) => h.id = <<"merged", p.counter>>
  BY HolderFacts
<1>3. CASE Single(at)
  <2>1. q = p
    BY <1>3 DEF Merge
  <2>2. Regroups(p, p)
    BY <1>1, RegroupsMap
  <2> QED
    BY <1>2, <1>3, <2>1, <2>2 DEF Same
<1>4. CASE ~Single(at)
  <2>0. q = [p EXCEPT !.counter = p.counter + 1, !.outbox = (p.outbox \ at) \cup {h}]
    BY <1>4 DEF Merge
  <2>1. /\ q.counter = p.counter + 1 /\ q.outbox = (p.outbox \ at) \cup {h}
        /\ Same(p, q) /\ q.pacing = p.pacing
    BY <1>1, <2>0 DEF Same, ProviderRecords
  <2>2. IsFiniteSet(q.outbox)
    <3>1. IsFiniteSet(p.outbox \ at)
      BY <1>1, FS_Subset
    <3> QED
      BY <3>1, <2>1, FS_AddElement
  <2>3. q \in Providers(M)
    <3>1. q \in ProviderRecords(M)
      <4> DEFINE n == p.counter + 1
                 o == (p.outbox \ at) \cup {h}
      <4>1. n \in Nat /\ o \in SUBSET Entries(M)
        BY <1>1, <1>2
      <4>2. q = [p EXCEPT !.counter = n, !.outbox = o]
        BY <2>0
      <4> HIDE DEF n, o, q
      <4> QED
        BY <1>1, <4>1, <4>2 DEF ProviderRecords
    <3>2. \A x \in p.outbox : Used(q, x.id, M)
      <4>1. \A x \in p.outbox : x.id \in Ids
        BY <1>1 DEF Entries
      <4> QED
        BY <4>1, <1>1, <2>1 DEF Used, Ids
    <3>3. Used(q, h.id, M)
      BY <1>1, <1>2, <1>4, <2>1 DEF Used
    <3>4. \A x \in q.outbox : Used(q, x.id, M)
      BY <3>2, <3>3, <2>1
    <3>5. q.mine \subseteq q.doc
      BY <1>1, <2>1 DEF Same
    <3> QED
      BY <3>1, <3>4, <3>5, <2>2 DEF Providers
  <2>4. Held(q) = Held(p)
    BY <2>1, <1>2 DEF Held
  <2>5. \A z \in q.outbox : z.id = h.id => z = h
    BY <1>1, <2>1, <1>2, <1>4
  <2>6. ASSUME NEW x \in q.outbox, x \notin p.outbox
        PROVE  /\ x.id[1] = "merged" /\ x.id[2] >= p.counter /\ x.id[2] < q.counter
               /\ \A z \in q.outbox : z.id = x.id => z.edits = x.edits
    <3>1. x = h
      BY <2>6, <2>1
    <3> QED
      BY <3>1, <1>1, <1>2, <1>4, <2>1, <2>5
  <2>7. Regroups(p, q)
    BY <1>1, <2>1, <2>4, <2>6 DEF Regroups
  <2> QED
    BY <2>1, <2>3, <2>7
<1> QED
  BY <1>3, <1>4

(* The outbox may change as long as its ids were there.                    *)
LEMMA PutOutbox ==
    ASSUME NEW M, NEW p \in Providers(M), NEW o \in SUBSET Entries(M), IsFiniteSet(o),
           \A x \in o : \E y \in p.outbox : y.id = x.id
    PROVE  LET q == [p EXCEPT !.outbox = o]
           IN  /\ q \in Providers(M) /\ Same(p, q)
               /\ q.counter = p.counter /\ q.pacing = p.pacing /\ q.outbox = o
<1> DEFINE q == [p EXCEPT !.outbox = o]
<1>1. /\ p \in ProviderRecords(M) /\ p.mine \subseteq p.doc
      /\ \A x \in p.outbox : Used(p, x.id, M)
  BY ProviderFields
<1>2. q \in ProviderRecords(M)
  BY <1>1 DEF ProviderRecords
<1>3. Same(p, q) /\ q.counter = p.counter /\ q.pacing = p.pacing /\ q.outbox = o
  BY <1>1 DEF ProviderRecords, Same
<1>4. \A x \in o : Used(q, x.id, M)
  BY <1>1, <1>3 DEF Used
<1>5. q.mine \subseteq q.doc
  BY <1>1, <1>3 DEF Same
<1> HIDE DEF q
<1>6. q \in Providers(M)
  BY <1>2, <1>3, <1>4, <1>5 DEF Providers
<1> QED
  BY <1>3, <1>6 DEF q

(* A sent entry keeps its id and its edits.                                *)
LEMMA SentEntry ==
    ASSUME NEW M, NEW e \in Entries(M)
    PROVE  Sent(e) \in Entries(M) /\ Sent(e).id = e.id /\ Sent(e).edits = e.edits
<1>1. PICK n \in Nat : n = e.sends + 1
  BY DEF Entries
<1>2. Sent(e) = [e EXCEPT !.unsent = FALSE, !.sends = n]
  BY <1>1 DEF Sent
<1> QED
  BY <1>2 DEF Entries

\* What a provider with its outbox regrouped has to send: nothing, or one of its entries.
Resends(p, s, M) ==
    /\ s.next \in Providers(M) /\ Same(p, s.next) /\ Regroups(p, s.next)
    /\ \/ s.frames = <<>>
       \/ /\ p.epoch # NoEpoch
          /\ \E x \in s.next.outbox :
               s.frames = <<[kind |-> "update", epoch |-> p.epoch, id |-> x.id, edits |-> x.edits]>>

LEMMA IdleResends ==
    ASSUME NEW M, NEW p \in Providers(M)
    PROVE  Resends(p, Idle(p), M)
<1>1. p.counter \in Nat
  BY ProviderFields
<1>2. Regroups(p, p)
  BY <1>1, RegroupsMap
<1>3. Idle(p).next = p /\ Idle(p).frames = <<>>
  BY DEF Idle
<1> QED
  BY <1>2, <1>3 DEF Resends, Same

LEMMA SendResends ==
    ASSUME NEW M, NEW p \in Providers(M), NEW at \in SUBSET p.outbox, at # {},
           p.epoch # NoEpoch
    PROVE  Resends(p, SendMerged(p, at), M)
<1> DEFINE q == Merge(p, at)
           h == Holder(p, at)
           o == (q.outbox \ {h}) \cup {Sent(h)}
           r == [q EXCEPT !.outbox = o]
<1>1. /\ q \in Providers(M) /\ Same(p, q) /\ h \in q.outbox /\ Regroups(p, q)
  BY MergeFacts
<1>2. h \in Entries(M) /\ q.outbox \subseteq Entries(M) /\ IsFiniteSet(q.outbox)
      /\ q.counter \in Nat
  <2> HIDE DEF q, h
  <2> QED
    BY <1>1, ProviderFields
<1>3. Sent(h) \in Entries(M) /\ Sent(h).id = h.id /\ Sent(h).edits = h.edits
  BY <1>2, SentEntry
<1>4. SendMerged(p, at) = [next |-> r,
         frames |-> <<[kind |-> "update", epoch |-> p.epoch, id |-> h.id, edits |-> h.edits]>>]
  BY DEF SendMerged
<1>5. IsFiniteSet(o) /\ o \in SUBSET Entries(M)
  <2>1. IsFiniteSet(q.outbox \ {h})
    BY <1>2, FS_Subset
  <2> QED
    BY <2>1, <1>2, <1>3, FS_AddElement
<1>6. \A x \in o : \E y \in q.outbox : y.id = x.id /\ y.edits = x.edits
  BY <1>1, <1>3
<1>7. /\ r \in Providers(M) /\ Same(q, r) /\ r.counter = q.counter /\ r.outbox = o
  <2> HIDE DEF q, o
  <2> QED
    BY <1>1, <1>5, <1>6, PutOutbox
<1>8. \A y \in q.outbox : \E x \in o : y.edits = x.edits
  BY <1>1, <1>3
<1>9. Regroups(q, r)
  <2> HIDE DEF q, r, o
  <2> QED
    BY <1>2, <1>6, <1>7, <1>8, RegroupsMap
<1>10. Regroups(p, r)
  <2>1. p.counter \in Nat
    BY ProviderFields
  <2>2. \A x \in o : x.id[2] \in Nat
    <3> HIDE DEF o
    <3> QED
      BY <1>5 DEF Entries, Ids
  <2> HIDE DEF q, r, o
  <2> QED
    BY <1>1, <1>2, <1>7, <1>9, <2>1, <2>2, RegroupsTwice
<1>11. Sent(h) \in r.outbox
  BY <1>7
<1> HIDE DEF q, r, o, h
<1> QED
  BY <1>1, <1>3, <1>4, <1>7, <1>10, <1>11 DEF Resends, Same

LEMMA PacingFacts ==
    ASSUME NEW M, NEW p \in Providers(M), NEW b \in BOOLEAN
    PROVE  LET q == [p EXCEPT !.pacing = b]
           IN  /\ q \in Providers(M) /\ Same(p, q)
               /\ q.counter = p.counter /\ q.outbox = p.outbox /\ q.pacing = b
               /\ Regroups(p, q)
<1> DEFINE q == [p EXCEPT !.pacing = b]
<1>1. /\ p \in ProviderRecords(M) /\ p.mine \subseteq p.doc /\ IsFiniteSet(p.outbox)
      /\ \A x \in p.outbox : Used(p, x.id, M)
      /\ p.counter \in Nat
  BY ProviderFields
<1>2. q \in ProviderRecords(M)
  BY <1>1 DEF ProviderRecords
<1>3. Same(p, q) /\ q.counter = p.counter /\ q.outbox = p.outbox /\ q.pacing = b
  BY <1>1 DEF ProviderRecords, Same
<1>4. \A x \in q.outbox : Used(q, x.id, M)
  BY <1>1, <1>3 DEF Used
<1>5. q.mine \subseteq q.doc
  BY <1>1, <1>3 DEF Same
<1> HIDE DEF q
<1>6. q \in Providers(M)
  BY <1>1, <1>2, <1>3, <1>4, <1>5 DEF Providers
<1>7. Regroups(p, q)
  BY <1>1, <1>3, RegroupsMap
<1> QED
  BY <1>3, <1>6, <1>7 DEF q

LEMMA ResendsAfter ==
    ASSUME NEW M, NEW p \in Providers(M), NEW q \in Providers(M), NEW s,
           Same(p, q), Regroups(p, q), Resends(q, s, M)
    PROVE  Resends(p, s, M)
<1>1. s.next \in Providers(M) /\ Regroups(q, s.next)
  BY DEF Resends
<1>2. p.counter \in Nat /\ q.counter \in Nat
  BY ProviderFields
<1>3. s.next.counter \in Nat /\ s.next.outbox \subseteq Entries(M)
  BY <1>1, ProviderFields
<1>4. \A x \in s.next.outbox : x.id[2] \in Nat
  BY <1>3 DEF Entries, Ids
<1>5. Regroups(p, s.next)
  BY <1>1, <1>2, <1>3, <1>4, RegroupsTwice
<1> QED
  BY <1>5 DEF Resends, Same

LEMMA FlushResends ==
    ASSUME NEW M, NEW p \in Providers(M)
    PROVE  Resends(p, Flush(p), M)
<1>1. CASE p.epoch = NoEpoch \/ Unsent(p) = {}
  BY <1>1, IdleResends DEF Flush
<1>2. CASE p.epoch # NoEpoch /\ Unsent(p) # {}
  <2> DEFINE s == SendMerged(p, Unsent(p))
             q == [s.next EXCEPT !.pacing = TRUE]
  <2>1. Unsent(p) \in SUBSET p.outbox
    BY DEF Unsent
  <2>2. Resends(p, s, M)
    BY <1>2, <2>1, SendResends
  <2>3. s = [next |-> s.next, frames |-> s.frames]
    BY DEF SendMerged
  <2> HIDE DEF s
  <2>4. Flush(p) = [next |-> q, frames |-> s.frames]
    <3>1. Flush(p) = [s EXCEPT !.next.pacing = TRUE]
      BY <1>2 DEF Flush, s
    <3> QED
      BY <3>1, <2>3
  <2>5. s.next \in Providers(M)
    BY <2>2 DEF Resends
  <2>6. /\ q \in Providers(M) /\ Same(s.next, q) /\ q.outbox = s.next.outbox
        /\ q.counter = s.next.counter
    BY <2>5, PacingFacts
  <2>7. Regroups(p, q)
    BY <2>2, <2>6 DEF Regroups, Resends, Held
  <2> HIDE DEF q
  <2> QED
    BY <2>2, <2>4, <2>6, <2>7 DEF Resends, Same
<1> QED
  BY <1>1, <1>2

LEMMA PacedResends ==
    ASSUME NEW M, NEW p \in Providers(M)
    PROVE  Resends(p, Paced(p), M)
<1> DEFINE q == [p EXCEPT !.pacing = FALSE]
<1>1. q \in Providers(M) /\ Same(p, q) /\ Regroups(p, q)
  BY PacingFacts
<1> HIDE DEF q
<1>2. Resends(q, Flush(q), M)
  BY <1>1, FlushResends
<1>3. Paced(p) = Flush(q)
  BY DEF Paced, q
<1> QED
  BY <1>1, <1>2, <1>3, ResendsAfter

\* The provider once it has kept an edit.
Keeping(p, e) ==
    [p EXCEPT !.doc = p.doc \cup {e}, !.mine = p.mine \cup {e}, !.counter = p.counter + 1,
              !.outbox = p.outbox \cup {[id |-> <<"edit", e>>, edits |-> {e},
                                         unsent |-> TRUE, sends |-> 0]}]

LEMMA KeepingFacts ==
    ASSUME NEW M \in SUBSET Nat, NEW p \in Providers(M), NEW e \in M
    PROVE  LET q == Keeping(p, e)
           IN  /\ q \in Providers(M)
               /\ q.gen = p.gen /\ q.epoch = p.epoch /\ q.synced = p.synced
               /\ q.opening = p.opening
               /\ q.doc = p.doc \cup {e} /\ q.mine = p.mine \cup {e}
               /\ q.counter = p.counter + 1
               /\ q.outbox = p.outbox \cup {[id |-> <<"edit", e>>, edits |-> {e},
                                             unsent |-> TRUE, sends |-> 0]}
<1> DEFINE x0 == [id |-> <<"edit", e>>, edits |-> {e}, unsent |-> TRUE, sends |-> 0]
           q == Keeping(p, e)
<1>1. /\ p \in ProviderRecords(M) /\ p.mine \subseteq p.doc /\ IsFiniteSet(p.outbox)
      /\ \A x \in p.outbox : Used(p, x.id, M)
      /\ p.counter \in Nat /\ p.outbox \subseteq Entries(M)
      /\ p.doc \subseteq M /\ p.mine \subseteq M
  BY ProviderFields
<1>2. x0 \in Entries(M) /\ Used(q, x0.id, M)
  BY DEF Entries, Ids, Used
<1>3. /\ q.gen = p.gen /\ q.epoch = p.epoch /\ q.synced = p.synced /\ q.opening = p.opening
      /\ q.doc = p.doc \cup {e} /\ q.mine = p.mine \cup {e}
      /\ q.counter = p.counter + 1 /\ q.outbox = p.outbox \cup {x0}
  BY <1>1 DEF Keeping, ProviderRecords
<1>4. q \in ProviderRecords(M)
  <2> HIDE DEF x0
  <2> DEFINE d == p.doc \cup {e}
             m == p.mine \cup {e}
             n == p.counter + 1
             o == p.outbox \cup {x0}
  <2>1. d \in SUBSET M /\ m \in SUBSET M /\ n \in Nat
    BY <1>1
  <2>3. o \in SUBSET Entries(M)
    BY <1>1, <1>2
  <2>2. q = [p EXCEPT !.doc = d, !.mine = m, !.counter = n, !.outbox = o]
    BY DEF Keeping, x0
  <2> HIDE DEF d, m, n, o, q
  <2> QED
    BY <1>1, <2>1, <2>2, <2>3 DEF ProviderRecords
<1>5. IsFiniteSet(q.outbox)
  <2> HIDE DEF x0, q
  <2> QED
    BY <1>1, <1>3, FS_AddElement
<1>6. \A x \in q.outbox : Used(q, x.id, M)
  <2>1. \A x \in p.outbox : Used(q, x.id, M)
    <3>1. \A x \in p.outbox : x.id \in Ids
      BY <1>1 DEF Entries
    <3> QED
      BY <3>1, <1>1, <1>3 DEF Used, Ids
  <2> QED
    BY <2>1, <1>2, <1>3
<1>7. q.mine \subseteq q.doc
  BY <1>1, <1>3
<1> HIDE DEF q
<1>8. q \in Providers(M)
  BY <1>4, <1>5, <1>6, <1>7 DEF Providers
<1> QED
  BY <1>3, <1>8 DEF q

LEMMA LocalResends ==
    ASSUME NEW M \in SUBSET Nat, NEW p \in Providers(M), NEW e \in M
    PROVE  Resends(Keeping(p, e), Local(p, e), M)
<1> DEFINE k == Keeping(p, e)
           q == IF Cardinality(k.outbox) >= MaxOutbox THEN Merge(k, k.outbox) ELSE k
<1>1. k \in Providers(M) /\ k.outbox # {}
  <2>1. k \in Providers(M)
    BY KeepingFacts
  <2>2. k.outbox = p.outbox \cup {[id |-> <<"edit", e>>, edits |-> {e},
                                   unsent |-> TRUE, sends |-> 0]}
    BY KeepingFacts
  <2> QED
    BY <2>1, <2>2
<1>2. Local(p, e) = IF q.pacing THEN Idle(q) ELSE Flush(q)
  BY DEF Local, Keeping
<1> HIDE DEF k
<1>3. q \in Providers(M) /\ Same(k, q) /\ Regroups(k, q)
  <2>1. Merge(k, k.outbox) \in Providers(M) /\ Same(k, Merge(k, k.outbox))
        /\ Regroups(k, Merge(k, k.outbox))
    BY <1>1, MergeFacts
  <2>2. Regroups(k, k) /\ Same(k, k)
    <3>1. k.counter \in Nat
      BY <1>1, ProviderFields
    <3> QED
      BY <3>1, RegroupsMap DEF Same
  <2> QED
    BY <1>1, <2>1, <2>2
<1> HIDE DEF q
<1>4. Resends(q, Idle(q), M) /\ Resends(q, Flush(q), M)
  BY <1>3, IdleResends, FlushResends
<1>5. Resends(q, Local(p, e), M)
  BY <1>2, <1>4
<1> QED
  BY <1>1, <1>3, <1>5, ResendsAfter DEF k

(* Anything but the outbox and the counter may change.                     *)
LEMMA SameOutbox ==
    ASSUME NEW M, NEW p \in Providers(M), NEW q \in ProviderRecords(M),
           q.outbox = p.outbox, q.counter = p.counter, q.mine \subseteq q.doc
    PROVE  q \in Providers(M) /\ Regroups(p, q)
<1>1. IsFiniteSet(p.outbox) /\ p.counter \in Nat /\ \A x \in p.outbox : Used(p, x.id, M)
  BY ProviderFields
<1>2. \A x \in q.outbox : Used(q, x.id, M)
  BY <1>1 DEF Used
<1>3. Regroups(p, q)
  BY <1>1, RegroupsMap
<1> QED
  BY <1>1, <1>2, <1>3 DEF Providers

LEMMA OpeningFacts ==
    ASSUME NEW M, NEW p \in Providers(M), NEW b \in BOOLEAN
    PROVE  LET q == [p EXCEPT !.opening = b]
           IN  /\ q \in Providers(M) /\ Regroups(p, q)
               /\ q.gen = p.gen /\ q.epoch = p.epoch /\ q.synced = p.synced
               /\ q.doc = p.doc /\ q.mine = p.mine /\ q.opening = b /\ q.outbox = p.outbox
<1> DEFINE q == [p EXCEPT !.opening = b]
<1>1. p \in ProviderRecords(M) /\ p.mine \subseteq p.doc
  BY ProviderFields
<1>2. /\ q \in ProviderRecords(M) /\ q.outbox = p.outbox /\ q.counter = p.counter
      /\ q.gen = p.gen /\ q.epoch = p.epoch /\ q.synced = p.synced
      /\ q.doc = p.doc /\ q.mine = p.mine /\ q.opening = b
  BY <1>1 DEF ProviderRecords
<1> HIDE DEF q
<1>3. q \in Providers(M) /\ Regroups(p, q)
  BY <1>1, <1>2, SameOutbox
<1> QED
  BY <1>2, <1>3 DEF q

LEMMA RemoteFacts ==
    ASSUME NEW M, NEW p \in Providers(M), NEW s \in SUBSET M
    PROVE  \A ep :
           LET q == Remote(p, ep, s)
           IN  /\ q \in Providers(M) /\ Regroups(p, q)
               /\ q.gen = p.gen /\ q.epoch = p.epoch /\ q.synced = p.synced
               /\ q.opening = p.opening /\ q.mine = p.mine /\ q.outbox = p.outbox
               /\ q.doc = IF ep = p.epoch THEN p.doc \cup s ELSE p.doc
<1> TAKE ep
<1> DEFINE d == p.doc \cup s
           q == [p EXCEPT !.doc = d]
<1>1. /\ p \in ProviderRecords(M) /\ p.mine \subseteq p.doc /\ d \in SUBSET M
      /\ p.counter \in Nat
  BY ProviderFields
<1>2. CASE ep = p.epoch
  <2>1. Remote(p, ep, s) = q
    BY <1>2 DEF Remote
  <2>2. p.mine \subseteq d
    BY <1>1
  <2> HIDE DEF d
  <2>3. /\ q \in ProviderRecords(M) /\ q.outbox = p.outbox /\ q.counter = p.counter
        /\ q.gen = p.gen /\ q.epoch = p.epoch /\ q.synced = p.synced
        /\ q.doc = d /\ q.mine = p.mine /\ q.opening = p.opening
    BY <1>1 DEF ProviderRecords
  <2> HIDE DEF q
  <2>4. q \in Providers(M) /\ Regroups(p, q)
    BY <2>2, <2>3, SameOutbox
  <2> QED
    BY <1>2, <2>1, <2>3, <2>4 DEF d
<1>3. CASE ep # p.epoch
  <2>1. Remote(p, ep, s) = p
    BY <1>3 DEF Remote
  <2>2. Regroups(p, p)
    BY <1>1, RegroupsMap
  <2> QED
    BY <1>3, <2>1, <2>2
<1> QED
  BY <1>2, <1>3

LEMMA SettleFacts ==
    ASSUME NEW M, NEW p \in Providers(M), NEW id
    PROVE  LET q == Settle(p, id)
           IN  /\ q \in Providers(M) /\ Same(p, q) /\ q.counter = p.counter
               /\ q.outbox = {e \in p.outbox : e.id # id}
<1> DEFINE o == {e \in p.outbox : e.id # id}
<1>1. p.outbox \subseteq Entries(M) /\ IsFiniteSet(p.outbox)
  BY ProviderFields
<1>2. IsFiniteSet(o) /\ o \in SUBSET Entries(M) /\ \A x \in o : \E y \in p.outbox : y.id = x.id
  BY <1>1, FS_Subset
<1>3. Settle(p, id) = [p EXCEPT !.outbox = o]
  BY DEF Settle
<1> HIDE DEF o
<1>4. LET q == [p EXCEPT !.outbox = o]
      IN  /\ q \in Providers(M) /\ Same(p, q) /\ q.counter = p.counter /\ q.outbox = o
  BY <1>2, PutOutbox
<1> QED
  BY <1>3, <1>4 DEF o

LEMMA ParkFacts ==
    ASSUME NEW M, NEW p \in Providers(M)
    PROVE  Park(p) \in Providers(M) /\ Same(p, Park(p)) /\ Regroups(p, Park(p))
<1> DEFINE P(e) == IF e.unsent THEN e ELSE [e EXCEPT !.sends = MaxSends]
           o == {P(e) : e \in p.outbox}
           q == [p EXCEPT !.outbox = o]
<1>1. p.outbox \subseteq Entries(M) /\ IsFiniteSet(p.outbox) /\ p.counter \in Nat
  BY ProviderFields
<1>2. \A e \in Entries(M) : P(e) \in Entries(M) /\ P(e).id = e.id /\ P(e).edits = e.edits
  BY OutboxAssumption DEF Entries
<1>3. IsFiniteSet(o)
  <2> DEFINE f == [e \in p.outbox |-> P(e)]
  <2> HIDE DEF P
  <2>1. f \in Surjection(p.outbox, o)
    BY DEF Surjection
  <2> QED
    BY <2>1, <1>1, FS_Surjection
<1> HIDE DEF P
<1>4. o \in SUBSET Entries(M)
  BY <1>1, <1>2
<1>5. \A x \in o : \E y \in p.outbox : y.id = x.id /\ y.edits = x.edits
  BY <1>1, <1>2
<1>6. \A y \in p.outbox : \E x \in o : y.edits = x.edits
  BY <1>1, <1>2
<1>7. Park(p) = q
  BY DEF Park, P
<1> HIDE DEF o
<1>8. q \in Providers(M) /\ Same(p, q) /\ q.counter = p.counter /\ q.outbox = o
  BY <1>3, <1>4, <1>5, PutOutbox
<1> HIDE DEF q
<1>9. Regroups(p, q)
  BY <1>1, <1>5, <1>6, <1>8, RegroupsMap
<1> QED
  BY <1>7, <1>8, <1>9

LEMMA FreshFacts ==
    ASSUME NEW M, NEW n \in Nat \ {0}
    PROVE  /\ Fresh(n) \in Providers(M) /\ Fresh(n).gen = n
           /\ Fresh(n).epoch = NoEpoch /\ ~Fresh(n).synced /\ ~Fresh(n).opening
           /\ Fresh(n).doc = {} /\ Fresh(n).mine = {} /\ Fresh(n).outbox = {}
<1>1. Fresh(n) \in ProviderRecords(M)
  BY DEF Fresh, ProviderRecords, NoEpoch
<1>2. IsFiniteSet({})
  BY FS_EmptySet
<1> QED
  BY <1>1, <1>2 DEF Fresh, Providers

\* The provider once it has taken the reply to its open, before it sends its outbox again.
Joined(p, ep, d) ==
    [p EXCEPT !.epoch = ep, !.doc = p.doc \cup d, !.synced = TRUE, !.opening = FALSE,
              !.outbox = {[e EXCEPT !.unsent = FALSE, !.sends = 0] : e \in p.outbox}]

LEMMA JoinedFacts ==
    ASSUME NEW M, NEW p \in Providers(M), NEW ep \in Nat, NEW d \in SUBSET M
    PROVE  LET q == Joined(p, ep, d)
           IN  /\ q \in Providers(M) /\ Regroups(p, q)
               /\ q.gen = p.gen /\ q.epoch = ep /\ q.synced /\ ~q.opening
               /\ q.doc = p.doc \cup d /\ q.mine = p.mine
<1> DEFINE R(e) == [e EXCEPT !.unsent = FALSE, !.sends = 0]
           o == {R(e) : e \in p.outbox}
           x == p.doc \cup d
           q == Joined(p, ep, d)
           r == [p EXCEPT !.outbox = o]
<1>1. /\ p.outbox \subseteq Entries(M) /\ IsFiniteSet(p.outbox) /\ p.counter \in Nat
      /\ p.mine \subseteq p.doc /\ x \in SUBSET M
  BY ProviderFields
<1>2. \A e \in Entries(M) : R(e) \in Entries(M) /\ R(e).id = e.id /\ R(e).edits = e.edits
  BY DEF Entries
<1>3. IsFiniteSet(o)
  <2> DEFINE f == [e \in p.outbox |-> R(e)]
  <2> HIDE DEF R
  <2>1. f \in Surjection(p.outbox, o)
    BY DEF Surjection
  <2> QED
    BY <2>1, <1>1, FS_Surjection
<1>4. q = [p EXCEPT !.epoch = ep, !.doc = x, !.synced = TRUE, !.opening = FALSE, !.outbox = o]
  BY DEF Joined
<1> HIDE DEF R, x, q
<1>5. o \in SUBSET Entries(M)
  BY <1>1, <1>2
<1>6. \A y \in o : \E z \in p.outbox : z.id = y.id /\ z.edits = y.edits
  BY <1>1, <1>2
<1>7. \A z \in p.outbox : \E y \in o : z.edits = y.edits
  BY <1>1, <1>2
<1> HIDE DEF o
<1>8. r \in Providers(M) /\ Same(p, r) /\ r.counter = p.counter /\ r.outbox = o
  BY <1>3, <1>5, <1>6, PutOutbox
<1>9. r \in ProviderRecords(M)
  BY <1>8, ProviderFields
<1>10. q = [r EXCEPT !.epoch = ep, !.doc = x, !.synced = TRUE, !.opening = FALSE]
  BY <1>4
<1> HIDE DEF r
<1>11. /\ q \in ProviderRecords(M) /\ q.outbox = r.outbox /\ q.counter = r.counter
       /\ q.gen = r.gen /\ q.epoch = ep /\ q.synced /\ ~q.opening
       /\ q.doc = x /\ q.mine = r.mine
  BY <1>1, <1>9, <1>10 DEF ProviderRecords
<1>12. q.mine \subseteq q.doc
  BY <1>1, <1>8, <1>11 DEF Same, x
<1>13. q \in Providers(M)
  BY <1>8, <1>11, <1>12, SameOutbox
<1>14. Regroups(p, q)
  BY <1>1, <1>6, <1>7, <1>8, <1>11, RegroupsMap
<1> QED
  BY <1>8, <1>11, <1>13, <1>14 DEF Same, q, x

LEMMA OpenedResends ==
    ASSUME NEW M, NEW p \in Providers(M), NEW ep \in Nat \ {0}, NEW d \in SUBSET M,
           p.epoch = NoEpoch \/ p.epoch = ep
    PROVE  Resends(Joined(p, ep, d), Opened(p, ep, d), M)
<1> DEFINE q == Joined(p, ep, d)
<1>1. q \in Providers(M) /\ q.epoch # NoEpoch
  BY JoinedFacts DEF NoEpoch
<1>2. Opened(p, ep, d) = IF q.outbox = {} THEN Idle(q) ELSE SendMerged(q, q.outbox)
  BY DEF Opened, Joined
<1> HIDE DEF q
<1>3. Resends(q, Idle(q), M)
  BY <1>1, IdleResends
<1>4. q.outbox # {} => Resends(q, SendMerged(q, q.outbox), M)
  BY <1>1, SendResends
<1> QED
  BY <1>2, <1>3, <1>4 DEF q

-----------------------------------------------------------------------------
(* What the entries of a provider and its updates on their way mean.       *)

\* From p to q: what was covered stays so, and all of q's entries are.
Owned(p, q, M, N) ==
    /\ \A y : y.id \in Ids /\ Covers(p, y, M) => Covers(q, y, N)
    /\ \A x \in q.outbox : Covers(q, x, N)

LEMMA OwnedFollows ==
    ASSUME NEW M, NEW N, M \subseteq N, NEW p \in Providers(M), NEW q \in Providers(N),
           p.mine \subseteq q.mine, p.counter <= q.counter,
           \A x \in p.outbox : Covers(p, x, M),
           \A x \in q.outbox : \/ \E y \in p.outbox : y.id = x.id /\ y.edits = x.edits
                               \/ ~Used(p, x.id, M) /\ Covers(q, x, N)
    PROVE  Owned(p, q, M, N)
<1>1. /\ p.counter \in Nat /\ p.outbox \subseteq Entries(M)
  BY ProviderFields
<1>2. q.counter \in Nat
  BY ProviderFields
<1>3. ASSUME NEW y, y.id \in Ids, Covers(p, y, M) PROVE Covers(q, y, N)
  <2>1. Used(p, y.id, M) /\ y.edits \subseteq q.mine
    BY <1>3 DEF Covers
  <2>2. Used(q, y.id, N)
    BY <1>1, <1>2, <1>3, <2>1 DEF Used, Ids
  <2>3. ASSUME NEW x \in q.outbox, x.id = y.id PROVE x.edits \subseteq y.edits
    <3>1. ~(~Used(p, x.id, M) /\ Covers(q, x, N))
      BY <2>1, <2>3
    <3>2. PICK z \in p.outbox : z.id = x.id /\ z.edits = x.edits
      BY <3>1
    <3> QED
      BY <3>2, <2>3, <1>3 DEF Covers
  <2> QED
    BY <2>1, <2>2, <2>3 DEF Covers
<1>4. ASSUME NEW x \in q.outbox PROVE Covers(q, x, N)
  <2>1. CASE \E y \in p.outbox : y.id = x.id /\ y.edits = x.edits
    <3>1. PICK y \in p.outbox : y.id = x.id /\ y.edits = x.edits
      BY <2>1
    <3>2. y.id \in Ids
      BY <1>1, <3>1 DEF Entries
    <3>3. Covers(q, y, N)
      BY <3>1, <3>2, <1>3
    <3> QED
      BY <3>1, <3>3 DEF Covers
  <2> QED
    BY <2>1
<1> QED
  BY <1>3, <1>4 DEF Owned

LEMMA OwnedRegroups ==
    ASSUME NEW M, NEW p \in Providers(M), NEW q \in Providers(M), Regroups(p, q),
           p.mine \subseteq q.mine, \A x \in p.outbox : Covers(p, x, M)
    PROVE  Owned(p, q, M, M)
<1>1. /\ p.counter \in Nat /\ p.outbox \subseteq Entries(M)
  BY ProviderFields
<1>2. q.counter \in Nat /\ q.outbox \subseteq Entries(M) /\ \A x \in q.outbox : Used(q, x.id, M)
  BY ProviderFields
<1>3. Held(q) \subseteq q.mine
  <2>1. Held(p) \subseteq p.mine
    BY DEF Held, Covers
  <2> QED
    BY <2>1 DEF Regroups
<1>4. ASSUME NEW x \in q.outbox, ~\E y \in p.outbox : y.id = x.id /\ y.edits = x.edits
      PROVE  ~Used(p, x.id, M) /\ Covers(q, x, M)
  <2>1. /\ x.id[1] = "merged" /\ x.id[2] >= p.counter /\ x.id[2] < q.counter
        /\ \A z \in q.outbox : z.id = x.id => z.edits = x.edits
    BY <1>4 DEF Regroups
  <2>2. x.id \in Ids
    BY <1>2 DEF Entries
  <2>3. ~Used(p, x.id, M)
    BY <1>1, <2>1, <2>2 DEF Used, Ids
  <2>4. x.edits \subseteq q.mine
    BY <1>3 DEF Held
  <2> QED
    BY <1>2, <2>1, <2>3, <2>4 DEF Covers
<1>5. p.counter <= q.counter
  BY DEF Regroups
<1> QED
  BY <1>4, <1>5, OwnedFollows

LEMMA ProvidersGrow ==
    ASSUME NEW M, NEW N, M \subseteq N, NEW p \in Providers(M)
    PROVE  p \in Providers(N)
<1>1. /\ p \in ProviderRecords(M) /\ IsFiniteSet(p.outbox) /\ p.mine \subseteq p.doc
      /\ \A x \in p.outbox : Used(p, x.id, M)
  BY ProviderFields
<1>2. \A e \in Entries(M) : e \in Entries(N)
  BY DEF Entries
<1>3. p \in ProviderRecords(N)
  <2> DEFINE A == Entries(M)
             B == Entries(N)
  <2>1. A \subseteq B
    BY <1>2
  <2> HIDE DEF A, B
  <2>2. p \in [gen: Nat \ {0}, epoch: Nat, synced: BOOLEAN, opening: BOOLEAN, pacing: BOOLEAN,
               counter: Nat, outbox: SUBSET A, doc: SUBSET M, mine: SUBSET M]
    BY <1>1 DEF ProviderRecords, A
  <2>3. p \in [gen: Nat \ {0}, epoch: Nat, synced: BOOLEAN, opening: BOOLEAN, pacing: BOOLEAN,
               counter: Nat, outbox: SUBSET B, doc: SUBSET N, mine: SUBSET N]
    BY <2>1, <2>2
  <2> QED
    BY <2>3 DEF ProviderRecords, B
<1>4. \A x \in p.outbox : Used(p, x.id, N)
  BY <1>1 DEF Used
<1> QED
  BY <1>1, <1>3, <1>4 DEF Providers

LEMMA OwnedKeeping ==
    ASSUME NEW M \in SUBSET Nat, NEW p \in Providers(M), NEW e \in Nat, e \notin M,
           \A x \in p.outbox : Covers(p, x, M)
    PROVE  /\ Keeping(p, e) \in Providers(M \cup {e})
           /\ Owned(p, Keeping(p, e), M, M \cup {e})
           /\ Held(Keeping(p, e)) = Held(p) \cup {e}
<1> DEFINE N == M \cup {e}
           q == Keeping(p, e)
           x0 == [id |-> <<"edit", e>>, edits |-> {e}, unsent |-> TRUE, sends |-> 0]
<1>1. /\ p.counter \in Nat /\ p.outbox \subseteq Entries(M)
      /\ \A x \in p.outbox : Used(p, x.id, M)
  BY ProviderFields
<1>2. N \in SUBSET Nat /\ e \in N /\ M \subseteq N
  OBVIOUS
<1>3. p \in Providers(N)
  BY <1>2, ProvidersGrow
<1> HIDE DEF N
<1>4. /\ q \in Providers(N) /\ q.mine = p.mine \cup {e} /\ q.counter = p.counter + 1
      /\ q.outbox = p.outbox \cup {x0}
  BY <1>2, <1>3, KeepingFacts
<1>5. Held(q) = Held(p) \cup {e}
  <2>1. x0.edits = {e}
    OBVIOUS
  <2> HIDE DEF x0, q
  <2> QED
    BY <1>4, <2>1 DEF Held
<1>6. \A x \in p.outbox : x.id # <<"edit", e>>
  BY <1>1 DEF Used
<1>7. ~Used(p, x0.id, M) /\ Used(q, x0.id, N)
  BY <1>2 DEF Used
<1>8. Covers(q, x0, N)
  BY <1>4, <1>6, <1>7 DEF Covers
<1>9. \A x \in q.outbox : \/ \E y \in p.outbox : y.id = x.id /\ y.edits = x.edits
                          \/ ~Used(p, x.id, M) /\ Covers(q, x, N)
  BY <1>4, <1>7, <1>8
<1>10. p.mine \subseteq q.mine /\ p.counter <= q.counter
  BY <1>1, <1>4
<1> HIDE DEF q
<1>11. Owned(p, q, M, N)
  BY <1>2, <1>4, <1>9, <1>10, OwnedFollows
<1> QED
  BY <1>4, <1>5, <1>11 DEF N, q

-----------------------------------------------------------------------------
(* Sequences, and the types as edits are made.                             *)

In(m, s) == \E i \in DOMAIN s : m = s[i]

LEMMA InTail ==
    ASSUME NEW S, NEW s \in Seq(S), s # <<>>
    PROVE  /\ Tail(s) \in Seq(S) /\ Head(s) \in S /\ In(Head(s), s)
           /\ \A m : In(m, Tail(s)) => In(m, s)
           /\ Len(Tail(s)) = Len(s) - 1
           /\ \A i \in DOMAIN Tail(s) : Tail(s)[i] = s[i + 1] /\ i + 1 \in DOMAIN s
<1>1. Tail(s) \in Seq(S) /\ Len(Tail(s)) = Len(s) - 1
  OBVIOUS
<1>2. \A i \in DOMAIN Tail(s) : Tail(s)[i] = s[i + 1] /\ i + 1 \in DOMAIN s
  OBVIOUS
<1>3. \A m : In(m, Tail(s)) => In(m, s)
  BY <1>2 DEF In
<1>4. Head(s) = s[1] /\ 1 \in DOMAIN s
  OBVIOUS
<1> QED
  BY <1>1, <1>2, <1>3, <1>4 DEF In

LEMMA InAppend ==
    ASSUME NEW S, NEW s \in Seq(S), NEW f
    PROVE  /\ \A m : In(m, Append(s, f)) => In(m, s) \/ m = f
           /\ \A m : In(m, s) => In(m, Append(s, f))
           /\ In(f, Append(s, f))
           /\ Len(Append(s, f)) = Len(s) + 1
           /\ \A i \in DOMAIN s : i \in DOMAIN Append(s, f) /\ Append(s, f)[i] = s[i]
           /\ \A i \in DOMAIN Append(s, f) : i \in DOMAIN s \/ i = Len(s) + 1
           /\ Append(s, f)[Len(s) + 1] = f
<1>1. /\ Len(Append(s, f)) = Len(s) + 1 /\ Append(s, f)[Len(s) + 1] = f
      /\ \A i \in DOMAIN s : i \in DOMAIN Append(s, f) /\ Append(s, f)[i] = s[i]
      /\ \A i \in DOMAIN Append(s, f) : i \in DOMAIN s \/ i = Len(s) + 1
  OBVIOUS
<1>2. Len(s) + 1 \in DOMAIN Append(s, f)
  OBVIOUS
<1>3. \A m : In(m, Append(s, f)) => In(m, s) \/ m = f
  BY <1>1 DEF In
<1>4. \A m : In(m, s) => In(m, Append(s, f))
  BY <1>1 DEF In
<1> QED
  BY <1>1, <1>2, <1>3, <1>4 DEF In

LEMMA InConcat ==
    ASSUME NEW S, NEW s \in Seq(S), NEW t \in Seq(S)
    PROVE  /\ s \o t \in Seq(S) /\ Len(s \o t) = Len(s) + Len(t)
           /\ \A i \in DOMAIN s : i \in DOMAIN (s \o t) /\ (s \o t)[i] = s[i]
           /\ \A j \in DOMAIN t : Len(s) + j \in DOMAIN (s \o t) /\ (s \o t)[Len(s) + j] = t[j]
           /\ \A m : In(m, s \o t) => In(m, s) \/ In(m, t)
<1>1. /\ s \o t \in Seq(S) /\ Len(s \o t) = Len(s) + Len(t)
      /\ \A i \in DOMAIN s : i \in DOMAIN (s \o t) /\ (s \o t)[i] = s[i]
      /\ \A j \in DOMAIN t : Len(s) + j \in DOMAIN (s \o t) /\ (s \o t)[Len(s) + j] = t[j]
  OBVIOUS
<1>2. ASSUME NEW i \in DOMAIN (s \o t), i \notin DOMAIN s
      PROVE  i - Len(s) \in DOMAIN t /\ (s \o t)[i] = t[i - Len(s)]
  BY <1>2
<1>3. \A m : In(m, s \o t) => In(m, s) \/ In(m, t)
  BY <1>1, <1>2 DEF In
<1> QED
  BY <1>1, <1>3

(* A sequence of what belongs to T.                                        *)
LEMMA SeqOf ==
    ASSUME NEW S, NEW T, NEW s \in Seq(S), \A m : In(m, s) => m \in T
    PROVE  s \in Seq(T)
<1>1. \A i \in 1 .. Len(s) : s[i] \in T
  BY DEF In
<1> QED
  BY <1>1

LEMMA FramesGrow ==
    ASSUME NEW M, NEW N, M \subseteq N
    PROVE  /\ Ups(M) \subseteq Ups(N) /\ Downs(M) \subseteq Downs(N) /\ Items(M) \subseteq Items(N)
<1>1. SUBSET M \subseteq SUBSET N
  OBVIOUS
<1>2. Ups(M) \subseteq Ups(N)
  BY <1>1 DEF Ups
<1>3. Downs(M) \subseteq Downs(N)
  BY <1>1 DEF Downs
<1>4. Items(M) \subseteq Items(N)
  BY <1>1 DEF Items
<1> QED
  BY <1>2, <1>3, <1>4

LEMMA ChannelsGrow ==
    ASSUME NEW M, NEW N, M \subseteq N
    PROVE  Channels(M) \subseteq Channels(N)
<1> DEFINE U(X) == [sequence: Nat, revision: Nat, epoch: Nat, update: SUBSET X]
           O(X) == Operations(X)
           S(X) == [epoch: Nat \ {0}, doc: SUBSET X, through: Nat, revision: Nat]
<1>1. U(M) \subseteq U(N) /\ S(M) \subseteq S(N)
  OBVIOUS
<1>2. O(M) \subseteq O(N)
  BY DEF Operations
<1> HIDE DEF U, O, S
<1>3. [revision: Nat, next: Nat \ {0}, operations: SUBSET O(M), updates: SUBSET U(M), snapshot: S(M)]
      \subseteq
      [revision: Nat, next: Nat \ {0}, operations: SUBSET O(N), updates: SUBSET U(N), snapshot: S(N)]
  BY <1>1, <1>2
<1> QED
  BY <1>3 DEF Channels, U, O, S

-----------------------------------------------------------------------------
(* What a step does to a tab's provider and to what it sends.              *)

LEMMA MadeGrows ==
    ASSUME TypeOK, NEW s \in SUBSET Edits, deps' = Append(deps, s), Len(deps) < MaxEdits
    PROVE  /\ deps' \in Seq(SUBSET Edits) /\ Len(deps') <= MaxEdits
           /\ Made' = Made \cup {Len(deps) + 1} /\ Len(deps) + 1 \notin Made
           /\ Len(deps) + 1 \in Nat /\ Made \subseteq Nat /\ Made' \subseteq Nat
           /\ Made' \subseteq Edits
           /\ \A e \in Made : deps'[e] = deps[e]
           /\ deps'[Len(deps) + 1] = s
  BY SyncLoads DEF TypeOK, Made, Edits

\* All but the outbox and whether an open is in flight is the same.
Tidy(p, q) ==
    /\ q.gen = p.gen /\ q.epoch = p.epoch /\ q.synced = p.synced
    /\ q.doc = p.doc /\ q.mine = p.mine /\ Regroups(p, q)

LEMMA TidySelf ==
    ASSUME NEW M, NEW p \in Providers(M)
    PROVE  Tidy(p, p)
<1>1. p.counter \in Nat
  BY ProviderFields
<1>2. Regroups(p, p)
  BY <1>1, RegroupsMap
<1> QED
  BY <1>2 DEF Tidy

\* The edit that is made next.
Coming == Len(deps) + 1

\* The frame m is taken from the tab's socket.
Takes(c, m) == down[c] # <<>> /\ m = Head(down[c]) /\ down' = [down EXCEPT ![c] = Tail(down[c])]

ProvMoves(c) ==
    LET p == prov[c]
        q == prov'[c]
    IN  \/ Tidy(p, q)
        \/ p.synced /\ Made' = Made \cup {Coming} /\ Tidy(Keeping(p, Coming), q)
        \/ \E m : Takes(c, m) /\ m.kind = "ack" /\ q = Settle(p, m.id)
        \/ \E m : Takes(c, m) /\ m.kind = "update" /\ q = Remote(p, m.epoch, m.edits)
        \/ \E m : /\ Takes(c, m) /\ m.kind \in {"reset", "open"} /\ m.epoch # p.epoch
                  /\ m.kind = "open" => p.epoch # NoEpoch /\ m.gen = p.gen
                  /\ q.gen = p.gen + 1 /\ q.epoch = NoEpoch /\ ~q.synced
                  /\ q.doc = {} /\ q.mine = {} /\ q.outbox = {}
        \/ \E m : /\ Takes(c, m) /\ m.kind = "open" /\ m.gen = p.gen
                  /\ p.epoch = NoEpoch \/ p.epoch = m.epoch
                  /\ Tidy(Joined(p, m.epoch, m.doc), q)

\* A frame the tab sends: for the document, or with an entry of its outbox.
UpNew(c, f) ==
    \/ f = [kind |-> "open", gen |-> prov'[c].gen]
    \/ /\ prov'[c].epoch # NoEpoch
       /\ \E x \in prov'[c].outbox :
            f = [kind |-> "update", epoch |-> prov'[c].epoch, id |-> x.id, edits |-> x.edits]

UpMoves(c) ==
    \/ up'[c] = up[c]
    \/ up'[c] = <<>>
    \/ up[c] # <<>> /\ up'[c] = Tail(up[c])
    \/ \E f : UpNew(c, f) /\ up'[c] = Append(up[c], f)

\* The tabs are left alone.
TabsMoves(c) == prov'[c] \in Providers(Made') /\ ProvMoves(c) /\ UpMoves(c)

LEMMA Untouched ==
    ASSUME TypeOK, Made \subseteq Made', NEW c \in Clients, prov'[c] = prov[c], up'[c] = up[c]
    PROVE  TabsMoves(c)
<1>1. prov[c] \in Providers(Made)
  BY DEF TypeOK
<1>2. prov'[c] \in Providers(Made')
  BY <1>1, ProvidersGrow
<1>3. Tidy(prov[c], prov'[c])
  BY <1>1, TidySelf
<1> QED
  BY <1>2, <1>3 DEF TabsMoves, ProvMoves, UpMoves

(* What a tab that has something to send leaves and sends.                 *)
LEMMA CarryMoves ==
    ASSUME TypeOK, NEW c \in Clients, NEW s, Carry(c, s),
           NEW q, Resends(q, s, Made')
    PROVE  /\ prov' = [prov EXCEPT ![c] = s.next]
           /\ \A d \in Clients \ {c} : prov'[d] = prov[d] /\ up'[d] = up[d]
           /\ prov'[c] = s.next /\ prov'[c] \in Providers(Made') /\ Tidy(q, prov'[c])
           /\ prov'[c].opening = q.opening
           /\ UpMoves(c)
<1>1. prov \in [Clients -> Providers(Made)] /\ up \in [Clients -> Seq(Ups(Made))]
  BY DEF TypeOK
<1>2. prov' = [prov EXCEPT ![c] = s.next]
  BY DEF Carry
<1>3. prov'[c] = s.next /\ \A d \in Clients \ {c} : prov'[d] = prov[d]
  BY <1>1, <1>2
<1>4. up' = IF online[c] THEN [up EXCEPT ![c] = up[c] \o s.frames] ELSE up
  BY DEF Carry
<1>5. \A d \in Clients \ {c} : up'[d] = up[d]
  BY <1>1, <1>4
<1>6. up'[c] = up[c] \/ up'[c] = up[c] \o s.frames
  BY <1>1, <1>4
<1>7. UpMoves(c)
  <2>1. CASE s.frames = <<>>
    <3>1. up[c] \o <<>> = up[c]
      BY <1>1
    <3> QED
      BY <1>6, <2>1, <3>1 DEF UpMoves
  <2>2. CASE s.frames # <<>>
    <3>1. q.epoch # NoEpoch /\ q.epoch = s.next.epoch
      BY <2>2 DEF Resends, Same
    <3>2. PICK x \in s.next.outbox :
            s.frames = <<[kind |-> "update", epoch |-> q.epoch, id |-> x.id, edits |-> x.edits]>>
      BY <2>2 DEF Resends
    <3> DEFINE f == [kind |-> "update", epoch |-> q.epoch, id |-> x.id, edits |-> x.edits]
    <3>3. UpNew(c, f)
      BY <1>3, <3>1, <3>2 DEF UpNew
    <3>4. s.frames = <<f>>
      BY <3>2
    <3> HIDE DEF f
    <3>5. up[c] \o <<f>> = Append(up[c], f)
      BY <1>1
    <3> QED
      BY <1>6, <3>3, <3>4, <3>5 DEF UpMoves
  <2> QED
    BY <2>1, <2>2
<1>8. s.next \in Providers(Made') /\ Tidy(q, s.next) /\ s.next.opening = q.opening
  BY DEF Resends, Same, Tidy
<1> QED
  BY <1>2, <1>3, <1>5, <1>7, <1>8

(* A provider that is replaced, and asks for the document again.           *)
LEMMA DiscardMoves ==
    ASSUME TypeOK, NEW c \in Clients, Carry(c, Reopen(c, Discard(prov[c]))), Made' = Made
    PROVE  /\ \A d \in Clients \ {c} : prov'[d] = prov[d] /\ up'[d] = up[d]
           /\ prov'[c] \in Providers(Made') /\ UpMoves(c)
           /\ prov'[c].gen = prov[c].gen + 1 /\ prov'[c].epoch = NoEpoch
           /\ ~prov'[c].synced /\ prov'[c].doc = {} /\ prov'[c].mine = {}
           /\ prov'[c].outbox = {}
           /\ prov'[c].opening => online[c]
<1> DEFINE q == Discard(prov[c])
           r == [q EXCEPT !.opening = TRUE]
           f == [kind |-> "open", gen |-> q.gen]
<1>1. prov \in [Clients -> Providers(Made)] /\ up \in [Clients -> Seq(Ups(Made))]
  BY DEF TypeOK
<1>2. prov[c].gen \in Nat
  BY <1>1, ProviderFields
<1>3. /\ q \in Providers(Made) /\ q.gen = prov[c].gen + 1 /\ q.epoch = NoEpoch /\ ~q.synced
      /\ ~q.opening /\ q.doc = {} /\ q.mine = {} /\ q.outbox = {}
  BY <1>2, FreshFacts DEF Discard
<1> HIDE DEF q
<1>4. /\ r \in Providers(Made) /\ r.gen = q.gen /\ r.epoch = q.epoch /\ r.synced = q.synced
      /\ r.doc = q.doc /\ r.mine = q.mine /\ r.outbox = q.outbox
  BY <1>3, OpeningFacts
<1> HIDE DEF r
<1>5. q.gen # prov[c].gen
  BY <1>2, <1>3
<1>6. Reopen(c, q) = IF online[c] THEN [next |-> r, frames |-> <<f>>] ELSE Idle(q)
  BY <1>3, <1>5 DEF Reopen, Resume, r
<1>7. CASE ~online[c]
  <2>1. Carry(c, Idle(q))
    BY <1>6, <1>7 DEF q
  <2>2. Resends(q, Idle(q), Made')
    BY <1>3, IdleResends
  <2>3. Idle(q).next = q
    BY DEF Idle
  <2> QED
    BY <1>3, <2>1, <2>2, <2>3, CarryMoves
<1>8. CASE online[c]
  <2> DEFINE s == [next |-> r, frames |-> <<f>>]
  <2>1. Carry(c, s)
    BY <1>6, <1>8 DEF q
  <2>2. prov' = [prov EXCEPT ![c] = r] /\ up' = [up EXCEPT ![c] = up[c] \o <<f>>]
    BY <1>8, <2>1 DEF Carry
  <2>3. /\ prov'[c] = r /\ up'[c] = up[c] \o <<f>>
        /\ \A d \in Clients \ {c} : prov'[d] = prov[d] /\ up'[d] = up[d]
    BY <1>1, <2>2
  <2>4. up[c] \o <<f>> = Append(up[c], f)
    BY <1>1
  <2>5. UpNew(c, f)
    BY <2>3, <1>4 DEF UpNew
  <2> HIDE DEF f
  <2>6. UpMoves(c)
    BY <2>3, <2>4, <2>5 DEF UpMoves
  <2> QED
    BY <1>3, <1>4, <1>8, <2>3, <2>6
<1> QED
  BY <1>7, <1>8

LEMMA ReceiveMoves ==
    ASSUME TypeOK, NEW c \in Clients, Receive(c)
    PROVE  /\ \A d \in Clients : TabsMoves(d)
           /\ \A d \in Clients \ {c} : prov'[d] = prov[d] /\ up'[d] = up[d]
           /\ prov'[c].opening => online[c]
<1> DEFINE m == Head(down[c])
           p == prov[c]
<1>1. prov \in [Clients -> Providers(Made)] /\ down \in [Clients -> Seq(Downs(Made))]
  BY DEF TypeOK
<1>2. p \in Providers(Made) /\ p.gen \in Nat
  BY <1>1, ProviderFields
<1>3. down[c] # <<>> /\ Made' = Made /\ Takes(c, m)
  BY DEF Receive, Takes, edits, Made
<1>4. m \in Downs(Made)
  BY <1>1, <1>3, InTail
<1>5. p.opening => online[c]
  BY DEF TypeOK
<1>6. \/ m.kind = "ack"    /\ Carry(c, Idle(Settle(p, m.id)))
      \/ m.kind = "update" /\ Carry(c, Idle(Remote(p, m.epoch, m.edits)))
      \/ m.kind = "refuse" /\ Carry(c, Idle(Park(p)))
      \/ m.kind = "reset"  /\ Carry(c, Reopen(c, Reset(p, m.epoch)))
      \/ m.kind = "open"   /\ Carry(c, IF m.gen # p.gen THEN Idle(p)
                                       ELSE LET s == Opened(p, m.epoch, m.doc) IN
                                            IF s.next.gen # p.gen THEN Reopen(c, s.next) ELSE s)
  BY DEF Receive
<1> HIDE DEF m, p
<1> DEFINE Goal == /\ \A d \in Clients \ {c} : prov'[d] = prov[d] /\ up'[d] = up[d]
                   /\ prov'[c] \in Providers(Made') /\ ProvMoves(c) /\ UpMoves(c)
                   /\ prov'[c].opening => online[c]
<1>7. ASSUME NEW q \in Providers(Made), Carry(c, Idle(q))
      PROVE  /\ \A d \in Clients \ {c} : prov'[d] = prov[d] /\ up'[d] = up[d]
             /\ prov'[c] = q /\ prov'[c] \in Providers(Made') /\ UpMoves(c)
  <2>1. Resends(q, Idle(q), Made')
    BY <1>3, IdleResends
  <2>2. Idle(q).next = q
    BY DEF Idle
  <2> QED
    BY <1>7, <2>1, <2>2, CarryMoves
<1>8. ASSUME m.kind = "ack" PROVE Goal
  <2>1. Carry(c, Idle(Settle(p, m.id)))
    BY <1>6, <1>8
  <2>2. Settle(p, m.id) \in Providers(Made) /\ Settle(p, m.id).opening = p.opening
    BY <1>2, SettleFacts DEF Same
  <2>3. prov'[c] = Settle(p, m.id)
    BY <1>7, <2>1, <2>2
  <2>4. ProvMoves(c)
    BY <1>3, <1>8, <2>3 DEF ProvMoves, p
  <2> QED
    BY <1>5, <1>7, <2>1, <2>2, <2>3, <2>4
<1>9. ASSUME m.kind = "update" PROVE Goal
  <2>1. Carry(c, Idle(Remote(p, m.epoch, m.edits)))
    BY <1>6, <1>9
  <2>2. m.edits \in SUBSET Made
    BY <1>4, <1>9 DEF Downs
  <2>3. /\ Remote(p, m.epoch, m.edits) \in Providers(Made)
        /\ Remote(p, m.epoch, m.edits).opening = p.opening
    <3>1. ASSUME NEW t \in SUBSET Made, NEW ep
          PROVE  Remote(p, ep, t) \in Providers(Made) /\ Remote(p, ep, t).opening = p.opening
      <4>1. Remote(p, ep, t) \in Providers(Made)
        BY <1>2, RemoteFacts
      <4>2. Remote(p, ep, t).opening = p.opening
        <5>1. p \in ProviderRecords(Made)
          BY <1>2, ProviderFields
        <5> QED
          BY <5>1 DEF Remote, ProviderRecords
      <4> QED
        BY <4>1, <4>2
    <3> QED
      BY <2>2, <3>1
  <2>4. prov'[c] = Remote(p, m.epoch, m.edits)
    BY <1>7, <2>1, <2>3
  <2>5. ProvMoves(c)
    BY <1>3, <1>9, <2>4 DEF ProvMoves, p
  <2> QED
    BY <1>5, <1>7, <2>1, <2>3, <2>4, <2>5
<1>10. ASSUME Carry(c, Idle(Park(p))) PROVE Goal
  <2>1. Park(p) \in Providers(Made) /\ Same(p, Park(p)) /\ Regroups(p, Park(p))
    BY <1>2, ParkFacts
  <2>2. prov'[c] = Park(p)
    BY <1>7, <1>10, <2>1
  <2>3. Tidy(p, prov'[c]) /\ prov'[c].opening = p.opening
    BY <2>1, <2>2 DEF Tidy, Same
  <2>4. ProvMoves(c)
    BY <2>3 DEF ProvMoves, p
  <2> QED
    BY <1>5, <1>7, <1>10, <2>1, <2>3, <2>4
<1>11. ASSUME m.kind = "reset" PROVE Goal
  <2>1. Carry(c, Reopen(c, Reset(p, m.epoch)))
    BY <1>6, <1>11
  <2>2. CASE m.epoch = p.epoch
    <3>1. Reset(p, m.epoch) = Park(p)
      BY <2>2 DEF Reset
    <3>2. Park(p).gen = p.gen
      BY <1>2, ParkFacts DEF Same
    <3>3. Reopen(c, Park(p)) = Idle(Park(p))
      BY <3>2 DEF Reopen, p
    <3> QED
      BY <1>10, <2>1, <3>1, <3>3
  <2>3. CASE m.epoch # p.epoch
    <3>1. Reset(p, m.epoch) = Discard(prov[c])
      BY <2>3 DEF Reset, p
    <3>2. /\ \A d \in Clients \ {c} : prov'[d] = prov[d] /\ up'[d] = up[d]
          /\ prov'[c] \in Providers(Made') /\ UpMoves(c)
          /\ prov'[c].gen = p.gen + 1 /\ prov'[c].epoch = NoEpoch
          /\ ~prov'[c].synced /\ prov'[c].doc = {} /\ prov'[c].mine = {}
          /\ prov'[c].outbox = {}
          /\ prov'[c].opening => online[c]
      BY <1>3, <2>1, <3>1, DiscardMoves DEF p
    <3>3. ProvMoves(c)
      BY <1>3, <1>11, <2>3, <3>2 DEF ProvMoves, p
    <3> QED
      BY <3>2, <3>3
  <2> QED
    BY <2>2, <2>3
<1>12. ASSUME m.kind = "open", m.gen # p.gen PROVE Goal
  <2>1. Carry(c, Idle(p))
    BY <1>6, <1>12
  <2>2. prov'[c] = p
    BY <1>2, <1>7, <2>1
  <2>3. ProvMoves(c)
    BY <1>2, <2>2, TidySelf DEF ProvMoves, p
  <2> QED
    BY <1>2, <1>5, <1>7, <2>1, <2>2, <2>3
<1>13. ASSUME m.kind = "open", m.gen = p.gen PROVE Goal
  <2> DEFINE s == Opened(p, m.epoch, m.doc)
  <2>1. Carry(c, IF s.next.gen # p.gen THEN Reopen(c, s.next) ELSE s)
    BY <1>6, <1>13
  <2>2. m.epoch \in Nat \ {0} /\ m.doc \in SUBSET Made
    BY <1>4, <1>13 DEF Downs
  <2>3. CASE p.epoch # NoEpoch /\ p.epoch # m.epoch
    <3>1. s.next = Discard(prov[c])
      BY <2>3 DEF Opened, Idle, p
    <3>2. Discard(prov[c]).gen = p.gen + 1
      BY <1>2, FreshFacts DEF Discard, p
    <3>3. Carry(c, Reopen(c, Discard(prov[c])))
      BY <1>2, <2>1, <3>1, <3>2
    <3>4. /\ \A d \in Clients \ {c} : prov'[d] = prov[d] /\ up'[d] = up[d]
          /\ prov'[c] \in Providers(Made') /\ UpMoves(c)
          /\ prov'[c].gen = p.gen + 1 /\ prov'[c].epoch = NoEpoch
          /\ ~prov'[c].synced /\ prov'[c].doc = {} /\ prov'[c].mine = {}
          /\ prov'[c].outbox = {}
          /\ prov'[c].opening => online[c]
      BY <1>3, <3>3, DiscardMoves DEF p
    <3>5. ProvMoves(c)
      BY <1>3, <1>13, <2>3, <3>4 DEF ProvMoves, p
    <3> QED
      BY <3>4, <3>5
  <2>4. CASE p.epoch = NoEpoch \/ p.epoch = m.epoch
    <3> DEFINE j == Joined(p, m.epoch, m.doc)
    <3>1. Resends(j, s, Made')
      BY <1>2, <1>3, <2>2, <2>4, OpenedResends
    <3>2. j.gen = p.gen /\ ~j.opening
      BY <1>2, <2>2, JoinedFacts
    <3>3. s.next.gen = p.gen
      BY <3>1, <3>2 DEF Resends, Same
    <3> HIDE DEF s, j
    <3>4. Carry(c, s)
      BY <2>1, <3>3
    <3>5. /\ \A d \in Clients \ {c} : prov'[d] = prov[d] /\ up'[d] = up[d]
          /\ prov'[c] \in Providers(Made') /\ Tidy(j, prov'[c]) /\ UpMoves(c)
          /\ ~prov'[c].opening
      BY <3>1, <3>2, <3>4, CarryMoves
    <3>6. ProvMoves(c)
      BY <1>3, <1>13, <2>4, <3>5 DEF ProvMoves, p, j
    <3> QED
      BY <3>5, <3>6
  <2> QED
    BY <2>3, <2>4
<1>14. Goal
  BY <1>6, <1>8, <1>9, <1>10, <1>11, <1>12, <1>13
<1>15. ASSUME NEW d \in Clients \ {c} PROVE TabsMoves(d)
  BY <1>3, <1>14, Untouched
<1> QED
  BY <1>14, <1>15 DEF TabsMoves

LEMMA ConnectMoves ==
    ASSUME TypeOK, NEW c \in Clients, Connect(c)
    PROVE  /\ \A d \in Clients : TabsMoves(d)
           /\ \A d \in Clients \ {c} : prov'[d] = prov[d] /\ up'[d] = up[d]
           /\ Tidy(prov[c], prov'[c])
           /\ up'[c] = <<[kind |-> "open", gen |-> prov'[c].gen]>>
<1> DEFINE p == prov[c]
           q == [p EXCEPT !.opening = TRUE]
           f == [kind |-> "open", gen |-> p.gen]
<1>1. prov \in [Clients -> Providers(Made)] /\ up \in [Clients -> Seq(Ups(Made))]
  BY DEF TypeOK
<1>2. ~p.opening /\ up[c] = <<>> /\ Made' = Made
  BY DEF TypeOK, Connect, edits, Made
<1>3. prov' = [prov EXCEPT ![c] = q] /\ up' = [up EXCEPT ![c] = <<f>>]
  BY <1>2 DEF Connect, Resume
<1>4. p \in Providers(Made)
  BY <1>1
<1> HIDE DEF p
<1>5. /\ q \in Providers(Made) /\ Regroups(p, q) /\ q.gen = p.gen /\ q.epoch = p.epoch
      /\ q.synced = p.synced /\ q.doc = p.doc /\ q.mine = p.mine
  BY <1>4, OpeningFacts
<1> HIDE DEF q
<1>6. /\ prov'[c] = q /\ up'[c] = <<f>>
      /\ \A d \in Clients \ {c} : prov'[d] = prov[d] /\ up'[d] = up[d]
  BY <1>1, <1>3
<1>7. Tidy(p, prov'[c])
  BY <1>5, <1>6 DEF Tidy
<1>8. UpNew(c, f)
  BY <1>5, <1>6 DEF UpNew
<1>9. up'[c] = Append(up[c], f)
  BY <1>2, <1>6
<1>10. UpMoves(c)
  <2> HIDE DEF f
  <2> QED
    BY <1>8, <1>9 DEF UpMoves
<1>11. TabsMoves(c)
  BY <1>2, <1>5, <1>6, <1>7, <1>10 DEF TabsMoves, ProvMoves, p
<1>12. ASSUME NEW d \in Clients \ {c} PROVE TabsMoves(d)
  BY <1>2, <1>6, Untouched
<1> QED
  BY <1>5, <1>6, <1>7, <1>11, <1>12 DEF p

LEMMA EditMoves ==
    ASSUME TypeOK, NEW c \in Clients, Edit(c)
    PROVE  /\ \A d \in Clients : TabsMoves(d)
           /\ \A d \in Clients \ {c} : prov'[d] = prov[d] /\ up'[d] = up[d]
           /\ Made' = Made \cup {Coming} /\ Made \subseteq Made' /\ Coming \notin Made
           /\ prov[c].synced /\ Tidy(Keeping(prov[c], Coming), prov'[c])
           /\ prov'[c].opening = prov[c].opening
           /\ deps' \in Seq(SUBSET Edits) /\ Len(deps') <= MaxEdits
           /\ Made' \subseteq Edits /\ \A e \in Made : deps'[e] = deps[e]
<1> DEFINE p == prov[c]
<1>1. prov \in [Clients -> Providers(Made)]
  BY DEF TypeOK
<1>2. p \in Providers(Made) /\ p.doc \subseteq Made /\ p.mine \subseteq Made
  BY <1>1, ProviderFields
<1>3. PICK seen \in {p.mine, p.doc} : deps' = Append(deps, seen \cup UNION {deps[d] : d \in seen})
  BY DEF Edit
<1>4. seen \cup UNION {deps[d] : d \in seen} \in SUBSET Edits
  <2>1. Made \subseteq Edits /\ \A d \in Made : deps[d] \subseteq Edits
    BY SyncLoads DEF TypeOK, Made, Edits
  <2> QED
    BY <1>2, <2>1
<1>5. Len(deps) < MaxEdits
  BY DEF Edit
<1>6. /\ deps' \in Seq(SUBSET Edits) /\ Len(deps') <= MaxEdits
      /\ Made' = Made \cup {Coming} /\ Coming \notin Made
      /\ Made' \subseteq Nat /\ Made' \subseteq Edits
      /\ \A e \in Made : deps'[e] = deps[e]
  BY <1>3, <1>4, <1>5, MadeGrows DEF Coming
<1>7. p \in Providers(Made') /\ Coming \in Made' /\ Made' \in SUBSET Nat
  BY <1>2, <1>6, ProvidersGrow
<1>8. Carry(c, Local(p, Coming)) /\ p.synced
  BY DEF Edit, Coming
<1> HIDE DEF p
<1>9. Resends(Keeping(p, Coming), Local(p, Coming), Made')
  BY <1>7, LocalResends
<1>10. Keeping(p, Coming).opening = p.opening
  BY <1>7, KeepingFacts
<1>11. /\ \A d \in Clients \ {c} : prov'[d] = prov[d] /\ up'[d] = up[d]
       /\ prov'[c] \in Providers(Made') /\ Tidy(Keeping(p, Coming), prov'[c])
       /\ prov'[c].opening = p.opening /\ UpMoves(c)
  BY <1>8, <1>9, <1>10, CarryMoves
<1>12. TabsMoves(c)
  BY <1>6, <1>8, <1>11 DEF TabsMoves, ProvMoves, p
<1>13. ASSUME NEW d \in Clients \ {c} PROVE TabsMoves(d)
  BY <1>6, <1>11, Untouched
<1> QED
  BY <1>6, <1>8, <1>11, <1>12, <1>13 DEF p

LEMMA SendMoves ==
    ASSUME TypeOK, NEW c \in Clients, NEW s, Carry(c, s), Made' = Made,
           Resends(prov[c], s, Made)
    PROVE  /\ \A d \in Clients : TabsMoves(d)
           /\ \A d \in Clients \ {c} : prov'[d] = prov[d] /\ up'[d] = up[d]
           /\ Tidy(prov[c], prov'[c]) /\ prov'[c].opening = prov[c].opening
<1>1. /\ \A d \in Clients \ {c} : prov'[d] = prov[d] /\ up'[d] = up[d]
      /\ prov'[c] \in Providers(Made') /\ Tidy(prov[c], prov'[c])
      /\ prov'[c].opening = prov[c].opening /\ UpMoves(c)
  BY CarryMoves
<1>2. TabsMoves(c)
  BY <1>1 DEF TabsMoves, ProvMoves
<1>3. ASSUME NEW d \in Clients \ {c} PROVE TabsMoves(d)
  BY <1>1, Untouched
<1> QED
  BY <1>1, <1>2, <1>3

LEMMA PaceMoves ==
    ASSUME TypeOK, NEW c \in Clients, Pace(c)
    PROVE  /\ \A d \in Clients : TabsMoves(d)
           /\ \A d \in Clients \ {c} : prov'[d] = prov[d] /\ up'[d] = up[d]
           /\ Tidy(prov[c], prov'[c]) /\ prov'[c].opening = prov[c].opening
<1>1. prov[c] \in Providers(Made)
  BY DEF TypeOK
<1>2. Carry(c, Paced(prov[c])) /\ Made' = Made
  BY DEF Pace, edits, Made
<1>3. Resends(prov[c], Paced(prov[c]), Made)
  BY <1>1, PacedResends
<1> QED
  BY <1>2, <1>3, SendMoves

LEMMA ResendMoves ==
    ASSUME TypeOK, FrameInv, NEW c \in Clients, Resend(c)
    PROVE  /\ \A d \in Clients : TabsMoves(d)
           /\ \A d \in Clients \ {c} : prov'[d] = prov[d] /\ up'[d] = up[d]
           /\ Tidy(prov[c], prov'[c]) /\ prov'[c].opening = prov[c].opening
<1>1. prov[c] \in Providers(Made)
  BY DEF TypeOK
<1>2. PICK at \in SUBSET Overdue(prov[c]) : at # {} /\ Carry(c, SendMerged(prov[c], at))
  BY DEF Resend
<1>3. Made' = Made /\ prov[c].epoch # NoEpoch
  BY DEF Resend, edits, Made, FrameInv
<1>4. at \in SUBSET prov[c].outbox
  BY <1>2 DEF Overdue
<1>5. Resends(prov[c], SendMerged(prov[c], at), Made)
  BY <1>1, <1>2, <1>3, <1>4, SendResends
<1> QED
  BY <1>2, <1>3, <1>5, SendMoves

(* A step that leaves the provider as it is and at most takes a frame.     *)
LEMMA TakenMoves ==
    ASSUME TypeOK, Made \subseteq Made', NEW c \in Clients, prov'[c] = prov[c],
           up'[c] = up[c] \/ (up[c] # <<>> /\ up'[c] = Tail(up[c]))
    PROVE  TabsMoves(c)
<1>1. prov[c] \in Providers(Made)
  BY DEF TypeOK
<1>2. prov'[c] \in Providers(Made')
  BY <1>1, ProvidersGrow
<1>3. Tidy(prov[c], prov'[c])
  BY <1>1, TidySelf
<1> QED
  BY <1>2, <1>3 DEF TabsMoves, ProvMoves, UpMoves

(* A tab whose socket is lost.                                             *)
LEMMA AbandonMoves ==
    ASSUME TypeOK, Made' = Made, NEW c \in Clients, prov'[c] = Abandon(prov[c]), up'[c] = <<>>
    PROVE  TabsMoves(c) /\ ~prov'[c].opening
<1> DEFINE p == prov[c]
           q == [p EXCEPT !.opening = FALSE]
<1>1. p \in Providers(Made)
  BY DEF TypeOK
<1>2. prov'[c] = q
  BY DEF Abandon
<1>3. p \in ProviderRecords(Made) /\ p.mine \subseteq p.doc /\ p.counter \in Nat
  BY <1>1, ProviderFields
<1> HIDE DEF p
<1>4. /\ q \in ProviderRecords(Made) /\ q.outbox = p.outbox /\ q.counter = p.counter
      /\ q.gen = p.gen /\ q.epoch = p.epoch /\ q.synced = p.synced
      /\ q.doc = p.doc /\ q.mine = p.mine /\ ~q.opening
  BY <1>3 DEF ProviderRecords
<1> HIDE DEF q
<1>5. q \in Providers(Made) /\ Regroups(p, q)
  BY <1>1, <1>3, <1>4, SameOutbox
<1>6. Tidy(prov[c], prov'[c])
  BY <1>2, <1>4, <1>5 DEF Tidy, p
<1> QED
  BY <1>2, <1>4, <1>5, <1>6 DEF TabsMoves, ProvMoves, UpMoves

-----------------------------------------------------------------------------
(* What a step does to the frames on their way to a tab.                   *)

\* The acknowledgements and relays of a committed batch.
Announced(c) ==
    [i \in DOMAIN batch |->
        IF batch[i].client = c
        THEN [kind |-> "ack", id |-> batch[i].id, edits |-> batch[i].edits]
        ELSE [kind |-> "update", epoch |-> epoch, edits |-> batch[i].edits]]
    \o (IF extra = {} THEN <<>> ELSE <<[kind |-> "update", epoch |-> epoch, edits |-> extra]>>)

AckNew(c, m) ==
    \/ \E i \in DOMAIN batch :
         /\ batch[i].client = c
         /\ m = [kind |-> "ack", id |-> batch[i].id, edits |-> batch[i].edits]
    \/ \E i \in DOMAIN batch : m = [kind |-> "update", epoch |-> epoch, edits |-> batch[i].edits]
    \/ m = [kind |-> "update", epoch |-> epoch, edits |-> extra]

\* A frame the service sends to a tab.
DownNew(c, m) ==
    \/ m = [kind |-> "refuse"]
    \/ /\ m = [kind |-> "reset", epoch |-> epoch]
       /\ \/ running /\ phase = "replaced"
          \/ up[c] # <<>> /\ Head(up[c]).kind = "update" /\ Head(up[c]).epoch = epoch
    \/ /\ running /\ phase = "idle"
       /\ \E a \in asks : /\ a.client = c
                          /\ m = [kind |-> "open", gen |-> a.gen, epoch |-> epoch, doc |-> live]
    \/ running /\ phase = "committed" /\ AckNew(c, m)

DownMoves(c) ==
    \/ down'[c] = down[c]
    \/ down'[c] = <<>>
    \/ down[c] # <<>> /\ down'[c] = Tail(down[c])
    \/ \E m : DownNew(c, m) /\ down'[c] = Append(down[c], m)
    \/ running /\ phase = "committed" /\ down'[c] = down[c] \o Announced(c)

LEMMA DownNewType ==
    ASSUME TypeOK, NEW c \in Clients, NEW m, DownNew(c, m)
    PROVE  m \in Downs(Made)
<1>1. /\ epoch \in Nat \ {0} /\ live \in SUBSET Made /\ extra \in SUBSET Made
      /\ \A a \in asks : a.gen \in Nat
      /\ \A i \in DOMAIN batch : batch[i] \in Items(Made)
  BY DEF TypeOK, LoadRecords
<1>2. \A i \in DOMAIN batch : batch[i].id \in Ids /\ batch[i].edits \in SUBSET Made
  BY <1>1 DEF Items
<1>3. ASSUME AckNew(c, m) PROVE m \in Downs(Made)
  BY <1>1, <1>2, <1>3 DEF AckNew, Downs
<1>4. CASE m = [kind |-> "refuse"]
  BY <1>4 DEF Downs
<1>5. CASE m = [kind |-> "reset", epoch |-> epoch]
  BY <1>1, <1>5 DEF Downs
<1>6. CASE \E a \in asks : m = [kind |-> "open", gen |-> a.gen, epoch |-> epoch, doc |-> live]
  BY <1>1, <1>6 DEF Downs
<1> QED
  BY <1>3, <1>4, <1>5, <1>6 DEF DownNew

LEMMA AnnouncedFacts ==
    ASSUME TypeOK, NEW c \in Clients, running, phase = "committed"
    PROVE  /\ Announced(c) \in Seq(Downs(Made))
           /\ \A m : In(m, Announced(c)) => DownNew(c, m)
<1> DEFINE f == [i \in DOMAIN batch |->
                    IF batch[i].client = c
                    THEN [kind |-> "ack", id |-> batch[i].id, edits |-> batch[i].edits]
                    ELSE [kind |-> "update", epoch |-> epoch, edits |-> batch[i].edits]]
           x == [kind |-> "update", epoch |-> epoch, edits |-> extra]
           g == IF extra = {} THEN <<>> ELSE <<x>>
<1>1. batch \in Seq(Items(Made))
  BY DEF TypeOK
<1>2. \A i \in DOMAIN batch : DownNew(c, f[i])
  BY DEF DownNew, AckNew
<1>3. DownNew(c, x)
  BY DEF DownNew, AckNew
<1>4. DOMAIN f = DOMAIN batch /\ DOMAIN batch = 1 .. Len(batch) /\ Len(batch) \in Nat
  BY <1>1
<1>5. Announced(c) = f \o g
  BY DEF Announced
<1>6. f = [i \in 1 .. Len(batch) |-> f[i]]
  BY <1>4
<1> HIDE DEF f, x
<1>7. \A i \in 1 .. Len(batch) : f[i] \in Downs(Made)
  BY <1>2, <1>4, DownNewType
<1>8. f \in Seq(Downs(Made))
  BY <1>4, <1>6, <1>7
<1>9. x \in Downs(Made)
  BY <1>3, DownNewType
<1>10. g \in Seq(Downs(Made)) /\ \A m : In(m, g) => m = x
  BY <1>9 DEF In
<1>11. \A m : In(m, f) => DownNew(c, m)
  BY <1>2, <1>4 DEF In
<1> HIDE DEF g
<1>12. f \o g \in Seq(Downs(Made)) /\ \A m : In(m, f \o g) => In(m, f) \/ In(m, g)
  BY <1>8, <1>10, InConcat
<1> QED
  BY <1>3, <1>5, <1>10, <1>11, <1>12

LEMMA DownIn ==
    ASSUME TypeOK, NEW c \in Clients, DownMoves(c)
    PROVE  /\ down'[c] \in Seq(Downs(Made))
           /\ \A m : In(m, down'[c]) => In(m, down[c]) \/ DownNew(c, m)
<1>1. down[c] \in Seq(Downs(Made))
  BY DEF TypeOK
<1>2. CASE down'[c] = down[c]
  BY <1>1, <1>2
<1>3. CASE down'[c] = <<>>
  BY <1>3 DEF In
<1>4. CASE down[c] # <<>> /\ down'[c] = Tail(down[c])
  BY <1>1, <1>4, InTail
<1>5. CASE \E m : DownNew(c, m) /\ down'[c] = Append(down[c], m)
  <2>1. PICK m : DownNew(c, m) /\ down'[c] = Append(down[c], m)
    BY <1>5
  <2>2. m \in Downs(Made)
    BY <2>1, DownNewType
  <2>3. Append(down[c], m) \in Seq(Downs(Made))
    BY <1>1, <2>2
  <2> QED
    BY <1>1, <2>1, <2>3, InAppend
<1>6. CASE running /\ phase = "committed" /\ down'[c] = down[c] \o Announced(c)
  BY <1>1, <1>6, AnnouncedFacts, InConcat
<1> QED
  BY <1>2, <1>3, <1>4, <1>5, <1>6 DEF DownMoves

LEMMA UpIn ==
    ASSUME TypeOK, Made \subseteq Made', NEW c \in Clients, prov'[c] \in Providers(Made'), UpMoves(c)
    PROVE  /\ up'[c] \in Seq(Ups(Made'))
           /\ \A m : In(m, up'[c]) => In(m, up[c]) \/ UpNew(c, m)
<1>1. up[c] \in Seq(Ups(Made))
  BY DEF TypeOK
<1>2. up[c] \in Seq(Ups(Made'))
  <2>1. Ups(Made) \subseteq Ups(Made')
    BY FramesGrow
  <2> QED
    BY <1>1, <2>1
<1>3. CASE up'[c] = up[c]
  BY <1>2, <1>3
<1>4. CASE up'[c] = <<>>
  BY <1>4 DEF In
<1>5. CASE up[c] # <<>> /\ up'[c] = Tail(up[c])
  BY <1>2, <1>5, InTail
<1>6. CASE \E f : UpNew(c, f) /\ up'[c] = Append(up[c], f)
  <2>1. PICK f : UpNew(c, f) /\ up'[c] = Append(up[c], f)
    BY <1>6
  <2>2. f \in Ups(Made')
    <3>1. /\ prov'[c].gen \in Nat /\ prov'[c].epoch \in Nat
          /\ \A x \in prov'[c].outbox : x \in Entries(Made')
      BY ProviderFields
    <3>2. \A x \in prov'[c].outbox : x.id \in Ids /\ x.edits \in SUBSET Made'
      BY <3>1 DEF Entries
    <3> QED
      BY <2>1, <3>1, <3>2 DEF UpNew, Ups
  <2>3. Append(up[c], f) \in Seq(Ups(Made'))
    BY <1>2, <2>2
  <2> QED
    BY <1>2, <2>1, <2>3, InAppend
<1> QED
  BY <1>3, <1>4, <1>5, <1>6 DEF UpMoves

-----------------------------------------------------------------------------
(* What any step does to the tabs.                                         *)

Shaped ==
    /\ prov' = [c \in Clients |-> prov'[c]] /\ up' = [c \in Clients |-> up'[c]]
    /\ down' = [c \in Clients |-> down'[c]] /\ online' \in [Clients -> BOOLEAN]

Moves(c) ==
    /\ TabsMoves(c) /\ DownMoves(c)
    /\ ~online'[c] => up'[c] = <<>> /\ down'[c] = <<>> /\ ~prov'[c].opening

\* The steps of a tab that leave the service and its sockets' other end alone.
TabAct(c) == Connect(c) \/ Edit(c) \/ Pace(c) \/ Resend(c) \/ Receive(c)

\* The steps of the service that leave the tabs alone but for the frames it sends them.
ServiceAct ==
    \/ \E a \in asks : Greet(a)
    \/ Apply \/ Publish \/ CorrectTitle \/ CommitRows \/ CommitState \/ Acknowledge
    \/ Rebuild \/ ReplaceRows \/ AnnounceReset \/ CheckpointRows \/ Close \/ Restore

LEMMA NextActs ==
    Next <=> \/ \E c \in Clients : TabAct(c) \/ Lose(c) \/ Submit(c) \/ Refuse(c) \/ Ask(c)
             \/ ServiceAct \/ Crash
  BY DEF Next, TabAct, ServiceAct

LEMMA TabActMoves ==
    ASSUME TypeOK, FrameInv, NEW c \in Clients, TabAct(c)
    PROVE  Shaped /\ Made \subseteq Made' /\ \A d \in Clients : Moves(d)
<1>1. /\ prov \in [Clients -> Providers(Made)] /\ up \in [Clients -> Seq(Ups(Made))]
      /\ down \in [Clients -> Seq(Downs(Made))] /\ online \in [Clients -> BOOLEAN]
      /\ \A d \in Clients : ~online[d] => up[d] = <<>> /\ down[d] = <<>> /\ ~prov[d].opening
  BY DEF TypeOK
<1>2. CASE Connect(c)
  <2>1. /\ \A d \in Clients : TabsMoves(d)
        /\ \A d \in Clients \ {c} : prov'[d] = prov[d] /\ up'[d] = up[d]
    BY <1>2, ConnectMoves
  <2>2. /\ online' = [online EXCEPT ![c] = TRUE] /\ down' = down /\ Made' = Made
        /\ prov' = [prov EXCEPT ![c] = Resume(prov[c]).next]
        /\ up' = [up EXCEPT ![c] = Resume(prov[c]).frames]
    BY <1>2 DEF Connect, edits, Made
  <2>3. Shaped
    BY <1>1, <2>2 DEF Shaped
  <2>4. \A d \in Clients : DownMoves(d)
    BY <2>2 DEF DownMoves
  <2>5. \A d \in Clients : ~online'[d] => up'[d] = <<>> /\ down'[d] = <<>> /\ ~prov'[d].opening
    BY <1>1, <2>1, <2>2
  <2> QED
    BY <2>1, <2>2, <2>3, <2>4, <2>5 DEF Moves
<1>3. ASSUME NEW s, Carry(c, s)
      PROVE  /\ prov' = [d \in Clients |-> prov'[d]] /\ up' = [d \in Clients |-> up'[d]]
             /\ ~online[c] => up'[c] = up[c]
  BY <1>1, <1>3 DEF Carry
<1>4. ASSUME online' = online, down' = down, NEW s, Carry(c, s),
             \A d \in Clients : TabsMoves(d),
             \A d \in Clients \ {c} : prov'[d] = prov[d] /\ up'[d] = up[d],
             prov'[c].opening = prov[c].opening
      PROVE  Shaped /\ \A d \in Clients : Moves(d)
  <2>1. Shaped
    BY <1>1, <1>3, <1>4 DEF Shaped
  <2>2. \A d \in Clients : DownMoves(d)
    BY <1>4 DEF DownMoves
  <2>3. \A d \in Clients : ~online'[d] => up'[d] = <<>> /\ down'[d] = <<>> /\ ~prov'[d].opening
    BY <1>1, <1>3, <1>4
  <2> QED
    BY <1>4, <2>1, <2>2, <2>3 DEF Moves
<1>5. CASE Edit(c)
  <2>1. online' = online /\ down' = down /\ Carry(c, Local(prov[c], Len(deps) + 1))
    BY <1>5 DEF Edit
  <2>2. /\ \A d \in Clients : TabsMoves(d)
        /\ \A d \in Clients \ {c} : prov'[d] = prov[d] /\ up'[d] = up[d]
        /\ Made \subseteq Made' /\ prov'[c].opening = prov[c].opening
    BY <1>5, EditMoves
  <2> QED
    BY <1>4, <2>1, <2>2
<1>6. CASE Pace(c)
  <2>1. online' = online /\ down' = down /\ Carry(c, Paced(prov[c])) /\ Made' = Made
    BY <1>6 DEF Pace, edits, Made
  <2>2. /\ \A d \in Clients : TabsMoves(d)
        /\ \A d \in Clients \ {c} : prov'[d] = prov[d] /\ up'[d] = up[d]
        /\ prov'[c].opening = prov[c].opening
    BY <1>6, PaceMoves
  <2> QED
    BY <1>4, <2>1, <2>2
<1>7. CASE Resend(c)
  <2>1. online' = online /\ down' = down /\ Made' = Made
    BY <1>7 DEF Resend, edits, Made
  <2>2. PICK at \in SUBSET Overdue(prov[c]) : Carry(c, SendMerged(prov[c], at))
    BY <1>7 DEF Resend
  <2>3. /\ \A d \in Clients : TabsMoves(d)
        /\ \A d \in Clients \ {c} : prov'[d] = prov[d] /\ up'[d] = up[d]
        /\ prov'[c].opening = prov[c].opening
    BY <1>7, ResendMoves
  <2> QED
    BY <1>4, <2>1, <2>2, <2>3
<1>8. CASE Receive(c)
  <2>1. /\ down[c] # <<>> /\ down' = [down EXCEPT ![c] = Tail(down[c])]
        /\ online' = online /\ Made' = Made
    BY <1>8 DEF Receive, edits, Made
  <2>2. /\ \A d \in Clients : TabsMoves(d)
        /\ \A d \in Clients \ {c} : prov'[d] = prov[d] /\ up'[d] = up[d]
        /\ prov'[c].opening => online[c]
    BY <1>8, ReceiveMoves
  <2>3. online[c]
    BY <1>1, <2>1
  <2>4. \E s : Carry(c, s)
    BY <1>8 DEF Receive
  <2>5. /\ prov' = [d \in Clients |-> prov'[d]] /\ up' = [d \in Clients |-> up'[d]]
    BY <1>3, <2>4
  <2>6. Shaped
    BY <1>1, <2>1, <2>5 DEF Shaped
  <2>7. down'[c] = Tail(down[c]) /\ \A d \in Clients \ {c} : down'[d] = down[d]
    BY <1>1, <2>1
  <2>8. \A d \in Clients : DownMoves(d)
    BY <2>1, <2>7 DEF DownMoves
  <2>9. \A d \in Clients : ~online'[d] => up'[d] = <<>> /\ down'[d] = <<>> /\ ~prov'[d].opening
    BY <1>1, <2>1, <2>2, <2>3, <2>7
  <2> QED
    BY <2>1, <2>2, <2>6, <2>8, <2>9 DEF Moves
<1> QED
  BY <1>2, <1>5, <1>6, <1>7, <1>8 DEF TabAct

(* A step that leaves the providers alone and takes at most one frame.     *)
LEMMA StillMoves ==
    ASSUME TypeOK, Made \subseteq Made', prov' = prov, online' = online,
           up' = [d \in Clients |-> up'[d]], down' = [d \in Clients |-> down'[d]],
           \A d \in Clients : up'[d] = up[d] \/ (up[d] # <<>> /\ up'[d] = Tail(up[d])),
           \A d \in Clients : DownMoves(d) /\ (~online[d] => down'[d] = down[d])
    PROVE  Shaped /\ \A d \in Clients : Moves(d)
<1>1. /\ prov \in [Clients -> Providers(Made)] /\ online \in [Clients -> BOOLEAN]
      /\ \A d \in Clients : ~online[d] => up[d] = <<>> /\ down[d] = <<>> /\ ~prov[d].opening
  BY DEF TypeOK
<1>2. Shaped
  BY <1>1 DEF Shaped
<1>3. \A d \in Clients : TabsMoves(d)
  BY TakenMoves
<1>4. \A d \in Clients : ~online'[d] => up'[d] = <<>> /\ down'[d] = <<>> /\ ~prov'[d].opening
  BY <1>1
<1> QED
  BY <1>2, <1>3, <1>4 DEF Moves

LEMMA ToAllMoves ==
    ASSUME TypeOK, NEW cs, NEW m, down' = ToAll(cs, <<m>>),
           \A d \in Clients : d \in cs => DownNew(d, m)
    PROVE  /\ down' = [d \in Clients |-> down'[d]]
           /\ \A d \in Clients : DownMoves(d) /\ (~online[d] => down'[d] = down[d])
           /\ \A d \in Clients : d \in cs /\ online[d] => down'[d] = Append(down[d], m)
           /\ \A d \in Clients : ~(d \in cs /\ online[d]) => down'[d] = down[d]
<1>1. \A d \in Clients : down'[d] = IF d \in cs /\ online[d] THEN down[d] \o <<m>> ELSE down[d]
  BY DEF ToAll
<1>2. \A d \in Clients : down[d] \in Seq(Downs(Made))
  BY DEF TypeOK
<1>3. \A d \in Clients : down[d] \o <<m>> = Append(down[d], m)
  BY <1>2
<1>4. down' = [d \in Clients |-> down'[d]]
  BY DEF ToAll
<1>5. \A d \in Clients : DownMoves(d)
  BY <1>1, <1>3 DEF DownMoves
<1> QED
  BY <1>1, <1>3, <1>4, <1>5

LEMMA SocketMoves ==
    ASSUME TypeOK, NEW c \in Clients, Submit(c) \/ Refuse(c) \/ Ask(c)
    PROVE  Shaped /\ Made' = Made /\ \A d \in Clients : Moves(d)
<1>1. /\ prov' = prov /\ online' = online /\ Made' = Made
      /\ up[c] # <<>> /\ up' = [up EXCEPT ![c] = Tail(up[c])]
  BY DEF Submit, Refuse, Ask, edits, Made
<1>2. up \in [Clients -> Seq(Ups(Made))] /\ down \in [Clients -> Seq(Downs(Made))]
  BY DEF TypeOK
<1>3. /\ up' = [d \in Clients |-> up'[d]]
      /\ \A d \in Clients : up'[d] = up[d] \/ (up[d] # <<>> /\ up'[d] = Tail(up[d]))
  BY <1>1, <1>2
<1>4. CASE down' = down
  <2>1. down' = [d \in Clients |-> down'[d]] /\ \A d \in Clients : DownMoves(d)
    BY <1>2, <1>4 DEF DownMoves
  <2> QED
    BY <1>1, <1>3, <1>4, <2>1, StillMoves
<1>5. ASSUME NEW m, down' = ToAll({c}, <<m>>), DownNew(c, m)
      PROVE  Shaped /\ \A d \in Clients : Moves(d)
  <2>1. \A d \in Clients : d \in {c} => DownNew(d, m)
    BY <1>5
  <2> QED
    BY <1>1, <1>3, <1>5, <2>1, ToAllMoves, StillMoves
<1>6. \/ down' = down
      \/ down' = ToAll({c}, <<[kind |-> "refuse"]>>)
      \/ /\ up[c] # <<>> /\ Head(up[c]).kind = "update" /\ Head(up[c]).epoch = epoch
         /\ down' = ToAll({c}, <<[kind |-> "reset", epoch |-> epoch]>>)
  BY DEF Submit, Refuse, Ask
<1>7. CASE down' = ToAll({c}, <<[kind |-> "refuse"]>>)
  BY <1>1, <1>5, <1>7 DEF DownNew
<1>8. CASE /\ up[c] # <<>> /\ Head(up[c]).kind = "update" /\ Head(up[c]).epoch = epoch
           /\ down' = ToAll({c}, <<[kind |-> "reset", epoch |-> epoch]>>)
  BY <1>1, <1>5, <1>8 DEF DownNew
<1> QED
  BY <1>1, <1>4, <1>6, <1>7, <1>8

LEMMA ServiceMade ==
    ASSUME TypeOK, Publish \/ CorrectTitle
    PROVE  /\ Made' = Made \cup {Coming} /\ Made \subseteq Made' /\ Coming \notin Made
           /\ deps' \in Seq(SUBSET Edits) /\ Len(deps') <= MaxEdits
           /\ Made' \subseteq Edits /\ \A e \in Made : deps'[e] = deps[e]
<1>1. deps' = Append(deps, Shown(live)) /\ Len(deps) < MaxEdits
  BY DEF Publish, CorrectTitle
<1>2. Shown(live) \in SUBSET Edits
  <2>1. Made \subseteq Edits /\ live \subseteq Made
    BY SyncLoads DEF TypeOK, Made, Edits
  <2> QED
    BY <2>1 DEF Shown
<1> QED
  BY <1>1, <1>2, MadeGrows DEF Coming

LEMMA AcknowledgeDown ==
    ASSUME TypeOK, Acknowledge
    PROVE  /\ running /\ phase = "committed" /\ down' = [d \in Clients |-> down'[d]]
           /\ \A d \in Clients : down'[d] = IF online[d] THEN down[d] \o Announced(d) ELSE down[d]
<1> DEFINE f(c) == [i \in DOMAIN batch |->
                  IF batch[i].client = c
                  THEN [kind |-> "ack", id |-> batch[i].id, edits |-> batch[i].edits]
                  ELSE [kind |-> "update", epoch |-> epoch, edits |-> batch[i].edits]]
           g == IF extra = {} THEN <<>>
                ELSE <<[kind |-> "update", epoch |-> epoch, edits |-> extra]>>
<1>1. running /\ phase = "committed"
      /\ down' = [c \in Clients |-> IF ~online[c] THEN down[c] ELSE down[c] \o f(c) \o g]
  BY DEF Acknowledge
<1>2. ASSUME NEW c \in Clients PROVE down[c] \o f(c) \o g = down[c] \o Announced(c)
  <2>1. down[c] \in Seq(Downs(Made)) /\ batch \in Seq(Items(Made))
    BY DEF TypeOK
  <2> DEFINE A == Range(f(c)) \cup Range(g) \cup Downs(Made)
  <2>2. f(c) \in Seq(Range(f(c)))
    <3>1. DOMAIN f(c) = 1 .. Len(batch) /\ Len(batch) \in Nat
      BY <2>1
    <3> DEFINE h == f(c)
    <3>2. h = [i \in 1 .. Len(batch) |-> h[i]]
      BY <3>1
    <3> HIDE DEF f, h
    <3>3. \A i \in 1 .. Len(batch) : h[i] \in Range(h)
      BY <3>1 DEF Range, h
    <3>4. h \in Seq(Range(h))
      BY <3>1, <3>2, <3>3
    <3> QED
      BY <3>4 DEF h
  <2>3. g \in Seq(Range(g))
    <3> DEFINE x == [kind |-> "update", epoch |-> epoch, edits |-> extra]
    <3>1. g = <<>> \/ g = <<x>>
      OBVIOUS
    <3> HIDE DEF x, g
    <3>2. CASE g = <<>>
      BY <3>2
    <3>3. CASE g = <<x>>
      <4>1. x \in Range(<<x>>)
        BY DEF Range
      <4> QED
        BY <3>3, <4>1
    <3> QED
      BY <3>1, <3>2, <3>3
  <2>4. Announced(c) = f(c) \o g
    BY DEF Announced
  <2> HIDE DEF f, g
  <2>5. f(c) \in Seq(A) /\ g \in Seq(A) /\ down[c] \in Seq(A)
    BY <2>1, <2>2, <2>3
  <2> HIDE DEF A
  <2>6. (down[c] \o f(c)) \o g = down[c] \o (f(c) \o g)
    <3> DEFINE s == down[c]
               t == f(c)
    <3>1. s \in Seq(A) /\ t \in Seq(A) /\ g \in Seq(A)
      BY <2>5
    <3> HIDE DEF s, t
    <3>2. (s \o t) \o g = s \o (t \o g)
      BY <3>1, ConcatAssociative
    <3> QED
      BY <3>2 DEF s, t
  <2> QED
    BY <2>4, <2>6
<1> HIDE DEF f, g
<1>3. \A c \in Clients : down'[c] = IF ~online[c] THEN down[c] ELSE down[c] \o Announced(c)
  BY <1>1, <1>2
<1>4. down' = [c \in Clients |-> down'[c]]
  BY <1>1
<1> QED
  BY <1>1, <1>3, <1>4

LEMMA ServiceMoves ==
    ASSUME TypeOK, ServiceAct
    PROVE  /\ Shaped /\ Made \subseteq Made' /\ \A d \in Clients : Moves(d)
           /\ prov' = prov /\ online' = online /\ up' = up
<1>1. prov' = prov /\ online' = online /\ up' = up
  BY DEF ServiceAct, Greet, Apply, Publish, CorrectTitle, CommitRows, CommitState, Acknowledge,
         Rebuild, ReplaceRows, AnnounceReset, CheckpointRows, Close, Restore, tabs
<1>2. Made \subseteq Made'
  <2>1. CASE Publish \/ CorrectTitle
    BY <2>1, ServiceMade
  <2>2. CASE ~(Publish \/ CorrectTitle)
    BY <2>2 DEF ServiceAct, Greet, Apply, CommitRows, CommitState, Acknowledge,
         Rebuild, ReplaceRows, AnnounceReset, CheckpointRows, Close, Restore, edits, Made
  <2> QED
    BY <2>1, <2>2
<1>3. /\ up \in [Clients -> Seq(Ups(Made))] /\ down \in [Clients -> Seq(Downs(Made))]
      /\ online \in [Clients -> BOOLEAN]
  BY DEF TypeOK
<1>4. up' = [d \in Clients |-> up'[d]]
  BY <1>1, <1>3
<1> DEFINE Fine == /\ down' = [d \in Clients |-> down'[d]]
                   /\ \A d \in Clients : DownMoves(d) /\ (~online[d] => down'[d] = down[d])
<1>5. ASSUME down' = down PROVE Fine
  BY <1>3, <1>5 DEF DownMoves
<1>6. ASSUME NEW a \in asks, Greet(a) PROVE Fine
  <2> DEFINE m == [kind |-> "open", gen |-> a.gen, epoch |-> epoch, doc |-> live]
  <2>1. running /\ phase = "idle" /\ down' = ToAll({a.client}, <<m>>)
    BY <1>6 DEF Greet, GreetReady
  <2>2. \A d \in Clients : d \in {a.client} => DownNew(d, m)
    BY <1>6, <2>1 DEF DownNew
  <2> HIDE DEF m
  <2> QED
    BY <2>1, <2>2, ToAllMoves
<1>7. ASSUME AnnounceReset PROVE Fine
  <2> DEFINE m == [kind |-> "reset", epoch |-> epoch]
  <2>1. running /\ phase = "replaced" /\ down' = ToAll(Clients, <<m>>)
    BY <1>7 DEF AnnounceReset
  <2>2. \A d \in Clients : d \in Clients => DownNew(d, m)
    BY <1>7, <2>1 DEF DownNew
  <2> HIDE DEF m
  <2> QED
    BY <2>1, <2>2, ToAllMoves
<1>8. ASSUME Acknowledge PROVE Fine
  <2>1. /\ running /\ phase = "committed" /\ down' = [d \in Clients |-> down'[d]]
        /\ \A d \in Clients : down'[d] = IF online[d] THEN down[d] \o Announced(d) ELSE down[d]
    BY <1>8, AcknowledgeDown
  <2>2. \A d \in Clients : DownMoves(d)
    BY <2>1 DEF DownMoves
  <2> QED
    BY <2>1, <2>2
<1>9. down' = down \/ (\E a \in asks : Greet(a)) \/ AnnounceReset \/ Acknowledge
  BY DEF ServiceAct, Apply, Publish, CorrectTitle, CommitRows, CommitState,
         Rebuild, ReplaceRows, CheckpointRows, Close, Restore, tabs
<1>10. Fine
  BY <1>5, <1>6, <1>7, <1>8, <1>9
<1> HIDE DEF Fine
<1>11. /\ down' = [d \in Clients |-> down'[d]]
       /\ \A d \in Clients : DownMoves(d) /\ (~online[d] => down'[d] = down[d])
  BY <1>10 DEF Fine
<1> QED
  BY <1>1, <1>2, <1>4, <1>11, StillMoves

LEMMA LostMoves ==
    ASSUME TypeOK, Crash \/ \E c \in Clients : Lose(c)
    PROVE  Shaped /\ Made' = Made /\ \A d \in Clients : Moves(d)
<1>1. /\ prov \in [Clients -> Providers(Made)] /\ up \in [Clients -> Seq(Ups(Made))]
      /\ down \in [Clients -> Seq(Downs(Made))] /\ online \in [Clients -> BOOLEAN]
      /\ \A d \in Clients : ~online[d] => up[d] = <<>> /\ down[d] = <<>> /\ ~prov[d].opening
  BY DEF TypeOK
<1>2. Made' = Made
  BY DEF Crash, Lose, edits, Made
<1>3. /\ Shaped
      /\ \A d \in Clients :
           \/ prov'[d] = prov[d] /\ up'[d] = up[d] /\ down'[d] = down[d] /\ online'[d] = online[d]
           \/ prov'[d] = Abandon(prov[d]) /\ up'[d] = <<>> /\ down'[d] = <<>>
  <2>1. CASE Crash
    <3>1. /\ online' = [c \in Clients |-> FALSE]
          /\ up' = [c \in Clients |-> <<>>] /\ down' = [c \in Clients |-> <<>>]
          /\ prov' = [c \in Clients |-> IF online[c] THEN Abandon(prov[c]) ELSE prov[c]]
      BY <2>1 DEF Crash
    <3>2. Shaped
      BY <3>1 DEF Shaped
    <3> QED
      BY <1>1, <3>1, <3>2
  <2>2. ASSUME NEW c \in Clients, Lose(c)
        PROVE  /\ Shaped
               /\ \A d \in Clients :
                    \/ /\ prov'[d] = prov[d] /\ up'[d] = up[d] /\ down'[d] = down[d]
                       /\ online'[d] = online[d]
                    \/ prov'[d] = Abandon(prov[d]) /\ up'[d] = <<>> /\ down'[d] = <<>>
    <3>1. /\ online' = [online EXCEPT ![c] = FALSE]
          /\ up' = [up EXCEPT ![c] = <<>>] /\ down' = [down EXCEPT ![c] = <<>>]
          /\ prov' = [prov EXCEPT ![c] = Abandon(prov[c])]
      BY <2>2 DEF Lose
    <3>2. Shaped
      BY <1>1, <3>1 DEF Shaped
    <3> QED
      BY <1>1, <3>1, <3>2
  <2> QED
    BY <2>1, <2>2
<1>4. ASSUME NEW d \in Clients PROVE Moves(d)
  <2>1. CASE /\ prov'[d] = prov[d] /\ up'[d] = up[d] /\ down'[d] = down[d]
             /\ online'[d] = online[d]
    BY <1>1, <1>2, <2>1, Untouched DEF Moves, DownMoves
  <2>2. CASE prov'[d] = Abandon(prov[d]) /\ up'[d] = <<>> /\ down'[d] = <<>>
    BY <1>2, <2>2, AbandonMoves DEF Moves, DownMoves
  <2> QED
    BY <1>3, <2>1, <2>2
<1> QED
  BY <1>2, <1>3, <1>4

LEMMA AllMoves ==
    ASSUME TypeOK, FrameInv, Next
    PROVE  Shaped /\ Made \subseteq Made' /\ \A c \in Clients : Moves(c)
  BY NextActs, TabActMoves, SocketMoves, ServiceMoves, LostMoves

-----------------------------------------------------------------------------
(* The rows.                                                               *)

LEMMA RowFields ==
    ASSUME NEW M, NEW r \in Channels(M)
    PROVE  /\ r.revision \in Nat /\ r.next \in Nat \ {0}
           /\ r.operations \in SUBSET Operations(M)
           /\ r.updates \in SUBSET [sequence: Nat, revision: Nat, epoch: Nat, update: SUBSET M]
           /\ r.snapshot \in [epoch: Nat \ {0}, doc: SUBSET M, through: Nat, revision: Nat]
           /\ r.snapshot.epoch \in Nat \ {0} /\ r.snapshot.doc \subseteq M
           /\ r.snapshot.through \in Nat /\ r.snapshot.revision \in Nat
           /\ \A u \in r.updates : /\ u.sequence \in Nat /\ u.revision \in Nat /\ u.epoch \in Nat
                                   /\ u.update \subseteq M
           /\ Durable(r) \subseteq M
<1>1. /\ r.revision \in Nat /\ r.next \in Nat \ {0}
      /\ r.operations \in SUBSET Operations(M)
      /\ r.updates \in SUBSET [sequence: Nat, revision: Nat, epoch: Nat, update: SUBSET M]
      /\ r.snapshot \in [epoch: Nat \ {0}, doc: SUBSET M, through: Nat, revision: Nat]
  BY DEF Channels
<1>2. /\ r.snapshot.epoch \in Nat \ {0} /\ r.snapshot.doc \subseteq M
      /\ r.snapshot.through \in Nat /\ r.snapshot.revision \in Nat
      /\ \A u \in r.updates : /\ u.sequence \in Nat /\ u.revision \in Nat /\ u.epoch \in Nat
                              /\ u.update \subseteq M
  BY <1>1
<1>3. Durable(r) \subseteq M
  BY <1>2 DEF Durable, After
<1> QED
  BY <1>1, <1>2, <1>3

\* The journal is what comes after the checkpoint.
Trimmed(r) == \A u \in r.updates : u.sequence > r.snapshot.through

\* From the rows r to s an operation with the update t was committed.
Committed(r, s, op, t, M) ==
    /\ s \in Channels(M) /\ Trimmed(s) /\ Restorable(s)
    /\ Durable(s) = Durable(r) \cup t
    /\ s.operations = r.operations \cup {op} /\ s.snapshot = r.snapshot

LEMMA CommitFacts ==
    ASSUME NEW M, NEW r \in Channels(M), Trimmed(r), Restorable(r),
           NEW op \in Operations(M), NEW t \in SUBSET M
    PROVE  Committed(r, Commit(r, op, r.snapshot.epoch, t), op, t, M)
<1> DEFINE x == [sequence |-> r.next, revision |-> r.revision + 1,
                 epoch |-> r.snapshot.epoch, update |-> t]
           v == IF t = {} THEN r.updates ELSE r.updates \cup {x}
           o == r.operations \cup {op}
           s == Commit(r, op, r.snapshot.epoch, t)
<1>1. /\ r.revision \in Nat /\ r.next \in Nat \ {0}
      /\ r.operations \in SUBSET Operations(M)
      /\ r.updates \in SUBSET [sequence: Nat, revision: Nat, epoch: Nat, update: SUBSET M]
      /\ r.snapshot \in [epoch: Nat \ {0}, doc: SUBSET M, through: Nat, revision: Nat]
      /\ r.snapshot.epoch \in Nat \ {0} /\ r.snapshot.through \in Nat
      /\ \A u \in r.updates : u.sequence \in Nat /\ u.revision \in Nat
      /\ r.snapshot.revision \in Nat
  BY RowFields
<1>2. After(r) = r.updates
  BY DEF After, Trimmed
<1>3. /\ r.snapshot.revision <= r.revision /\ r.snapshot.through < r.next
      /\ \A u \in r.updates : /\ u.sequence < r.next /\ u.revision <= r.revision
                              /\ u.epoch = r.snapshot.epoch
                              /\ \A w \in r.updates : u.sequence = w.sequence => u = w
  BY <1>2 DEF Restorable
<1>4. s = [r EXCEPT !.revision = r.revision + 1, !.next = r.next + 1, !.operations = o,
                    !.updates = v]
  BY DEF Commit
<1>5. x \in [sequence: Nat, revision: Nat, epoch: Nat, update: SUBSET M]
  BY <1>1
<1>6. v \in SUBSET [sequence: Nat, revision: Nat, epoch: Nat, update: SUBSET M]
  <2> HIDE DEF x
  <2> QED
    BY <1>1, <1>5
<1>7. o \in SUBSET Operations(M)
  BY <1>1
<1>8. /\ x.sequence = r.next /\ x.revision = r.revision + 1
      /\ x.epoch = r.snapshot.epoch /\ x.update = t
  OBVIOUS
<1>9. /\ r.updates \subseteq v /\ \A u \in v : u \in r.updates \/ u = x
      /\ t # {} => x \in v
  <2> HIDE DEF x
  <2> QED
    OBVIOUS
<1> HIDE DEF x, v, o, s
<1>10. /\ s \in Channels(M) /\ s.revision = r.revision + 1 /\ s.next = r.next + 1
       /\ s.operations = o /\ s.updates = v /\ s.snapshot = r.snapshot
  <2> DEFINE U == [sequence: Nat, revision: Nat, epoch: Nat, update: SUBSET M]
             S == [epoch: Nat \ {0}, doc: SUBSET M, through: Nat, revision: Nat]
             a == r.revision + 1
             b == r.next + 1
  <2>1. v \in SUBSET U /\ o \in SUBSET Operations(M) /\ a \in Nat /\ b \in Nat \ {0}
    BY <1>1, <1>6, <1>7
  <2>2. r \in [revision: Nat, next: Nat \ {0}, operations: SUBSET Operations(M),
              updates: SUBSET U, snapshot: S]
    BY DEF Channels
  <2>3. s = [r EXCEPT !.revision = a, !.next = b, !.operations = o, !.updates = v]
    BY <1>4
  <2> HIDE DEF U, S, a, b
  <2>4. /\ s.revision = a /\ s.next = b
        /\ s.operations = o /\ s.updates = v /\ s.snapshot = r.snapshot
    BY <2>2, <2>3
  <2>5. s \in [revision: Nat, next: Nat \ {0}, operations: SUBSET Operations(M),
              updates: SUBSET U, snapshot: S]
    BY <2>1, <2>2, <2>3
  <2>6. s \in Channels(M)
    BY <2>5 DEF Channels, U, S
  <2> QED
    BY <2>4, <2>6 DEF a, b
<1>11. Trimmed(s)
  BY <1>1, <1>3, <1>8, <1>9, <1>10 DEF Trimmed
<1>12. After(s) = v
  BY <1>10, <1>11 DEF After, Trimmed
<1> DEFINE A == UNION {u.update : u \in v}
           B == UNION {u.update : u \in r.updates}
<1>13. A = B \cup t
  <2>1. ASSUME NEW z, NEW u \in v, z \in u.update PROVE z \in B \cup t
    BY <1>8, <1>9, <2>1
  <2>2. ASSUME NEW z \in t PROVE z \in A
    <3>1. x \in v /\ z \in x.update
      BY <1>8, <1>9, <2>2
    <3> QED
      BY <3>1
  <2>3. ASSUME NEW z, NEW u \in r.updates, z \in u.update PROVE z \in A
    BY <1>9, <2>3
  <2>4. \A z : z \in A => \E u \in v : z \in u.update
    OBVIOUS
  <2>5. \A z : z \in B => \E u \in r.updates : z \in u.update
    OBVIOUS
  <2> HIDE DEF A, B
  <2> QED
    BY <2>1, <2>2, <2>3, <2>4, <2>5
<1>14. Durable(s) = Durable(r) \cup t
  <2>1. Durable(s) = r.snapshot.doc \cup A
    BY <1>10, <1>12 DEF Durable
  <2>2. Durable(r) = r.snapshot.doc \cup B
    BY <1>2 DEF Durable
  <2> HIDE DEF A, B
  <2> QED
    BY <1>13, <2>1, <2>2
<1>15. \A u \in v : /\ u.sequence < s.next /\ u.revision <= s.revision
                    /\ u.epoch = s.snapshot.epoch
                    /\ \A w \in v : u.sequence = w.sequence => u = w
  BY <1>1, <1>3, <1>8, <1>9, <1>10
<1>16. Restorable(s)
  BY <1>1, <1>3, <1>10, <1>12, <1>15 DEF Restorable
<1> QED
  BY <1>10, <1>11, <1>14, <1>16 DEF s, o, Committed

LEMMA CheckpointFacts ==
    ASSUME NEW M, NEW r \in Channels(M), Trimmed(r), Restorable(r)
    PROVE  LET s == Checkpoint(r, r.revision, r.next - 1, r.snapshot.epoch, Durable(r))
           IN  /\ s \in Channels(M) /\ Trimmed(s) /\ Restorable(s) /\ Durable(s) = Durable(r)
               /\ s.revision = r.revision /\ s.next = r.next
               /\ s.operations = r.operations /\ s.snapshot.epoch = r.snapshot.epoch
<1> DEFINE n == [epoch |-> r.snapshot.epoch, doc |-> Durable(r), through |-> r.next - 1,
                 revision |-> r.revision]
           v == {u \in r.updates : u.sequence > r.next - 1}
           s == Checkpoint(r, r.revision, r.next - 1, r.snapshot.epoch, Durable(r))
<1>1. /\ r.revision \in Nat /\ r.next \in Nat \ {0}
      /\ r.operations \in SUBSET Operations(M)
      /\ r.snapshot.epoch \in Nat \ {0} /\ Durable(r) \in SUBSET M
      /\ \A u \in r.updates : u.sequence \in Nat
  BY RowFields
<1>2. After(r) = r.updates
  BY DEF After, Trimmed
<1>3. v = {}
  <2>1. \A u \in r.updates : u.sequence < r.next
    BY <1>2 DEF Restorable
  <2> QED
    BY <1>1, <2>1
<1>4. s = [r EXCEPT !.snapshot = n, !.updates = v]
  BY DEF Checkpoint
<1>5. /\ n \in [epoch: Nat \ {0}, doc: SUBSET M, through: Nat, revision: Nat]
      /\ n.epoch = r.snapshot.epoch /\ n.doc = Durable(r) /\ n.through = r.next - 1
      /\ n.revision = r.revision
  BY <1>1
<1> HIDE DEF n, v, s
<1>6. /\ s \in Channels(M) /\ s.revision = r.revision /\ s.next = r.next
      /\ s.operations = r.operations /\ s.updates = {} /\ s.snapshot = n
  BY <1>1, <1>3, <1>4, <1>5 DEF Channels
<1>7. After(s) = {}
  BY <1>6 DEF After
<1>8. Durable(s) = Durable(r)
  <2>1. Durable(s) = n.doc
    BY <1>6, <1>7 DEF Durable
  <2> QED
    BY <1>5, <2>1
<1>9. Restorable(s) /\ Trimmed(s)
  BY <1>1, <1>5, <1>6, <1>7 DEF Restorable, Trimmed
<1> QED
  BY <1>5, <1>6, <1>8, <1>9 DEF s

LEMMA ReplaceFacts ==
    ASSUME NEW M, NEW r \in Channels(M), NEW op \in Operations(M), NEW ep \in Nat \ {0},
           NEW d \in SUBSET M
    PROVE  LET s == Replace(r, op, ep, d)
           IN  /\ s \in Channels(M) /\ Trimmed(s) /\ Restorable(s) /\ Durable(s) = d
               /\ s.revision = r.revision + 1 /\ s.next = r.next + 1
               /\ s.operations = r.operations \cup {op} /\ s.snapshot.epoch = ep
<1> DEFINE n == [epoch |-> ep, doc |-> d, through |-> r.next, revision |-> r.revision + 1]
           o == r.operations \cup {op}
           s == Replace(r, op, ep, d)
<1>1. /\ r.revision \in Nat /\ r.next \in Nat \ {0} /\ o \in SUBSET Operations(M)
  BY RowFields
<1>2. s = [r EXCEPT !.revision = r.revision + 1, !.next = r.next + 1, !.operations = o,
                    !.snapshot = n, !.updates = {}]
  BY DEF Replace
<1>3. /\ n \in [epoch: Nat \ {0}, doc: SUBSET M, through: Nat, revision: Nat]
      /\ n.epoch = ep /\ n.doc = d /\ n.through = r.next /\ n.revision = r.revision + 1
  BY <1>1
<1> HIDE DEF n, o, s
<1>4. /\ s \in Channels(M) /\ s.revision = r.revision + 1 /\ s.next = r.next + 1
      /\ s.operations = o /\ s.updates = {} /\ s.snapshot = n
  <2> DEFINE U == [sequence: Nat, revision: Nat, epoch: Nat, update: SUBSET M]
             S == [epoch: Nat \ {0}, doc: SUBSET M, through: Nat, revision: Nat]
             a == r.revision + 1
             b == r.next + 1
  <2>1. n \in S /\ o \in SUBSET Operations(M) /\ a \in Nat /\ b \in Nat \ {0}
    BY <1>1, <1>3
  <2>2. r \in [revision: Nat, next: Nat \ {0}, operations: SUBSET Operations(M),
              updates: SUBSET U, snapshot: S]
    BY DEF Channels
  <2>3. s = [r EXCEPT !.revision = a, !.next = b, !.operations = o, !.snapshot = n, !.updates = {}]
    BY <1>2
  <2> HIDE DEF U, S, a, b
  <2>4. /\ s.revision = a /\ s.next = b
        /\ s.operations = o /\ s.updates = {} /\ s.snapshot = n
    BY <2>2, <2>3
  <2>5. s \in [revision: Nat, next: Nat \ {0}, operations: SUBSET Operations(M),
              updates: SUBSET U, snapshot: S]
    BY <2>1, <2>2, <2>3
  <2>6. s \in Channels(M)
    BY <2>5 DEF Channels, U, S
  <2> QED
    BY <2>4, <2>6 DEF a, b
<1>5. After(s) = {}
  BY <1>4 DEF After
<1>6. Durable(s) = d
  <2>1. Durable(s) = n.doc
    BY <1>4, <1>5 DEF Durable
  <2> QED
    BY <1>3, <2>1
<1>7. Restorable(s) /\ Trimmed(s)
  BY <1>1, <1>3, <1>4, <1>5 DEF Restorable, Trimmed
<1> QED
  BY <1>3, <1>4, <1>6, <1>7 DEF s, o

-----------------------------------------------------------------------------
(* The service, its chain and the rows.                                    *)

\* Edits are only added.
Grown ==
    /\ deps' \in Seq(SUBSET Edits) /\ Len(deps') <= MaxEdits /\ bad' \subseteq Made'
    /\ Made \subseteq Made' /\ \A e \in Made : deps'[e] = deps[e]
    /\ bad' \cap Made = bad

LEMMA GrownStep ==
    ASSUME TypeOK, Next
    PROVE  Grown
<1>1. deps \in Seq(SUBSET Edits) /\ Len(deps) <= MaxEdits /\ bad \subseteq Made
  BY DEF TypeOK
<1>2. CASE UNCHANGED edits
  BY <1>1, <1>2 DEF Grown, edits, Made
<1>3. ASSUME NEW c \in Clients, Edit(c) PROVE Grown
  <2>1. /\ deps' \in Seq(SUBSET Edits) /\ Len(deps') <= MaxEdits
        /\ Made' = Made \cup {Coming} /\ Made \subseteq Made' /\ Coming \notin Made
        /\ \A e \in Made : deps'[e] = deps[e]
    BY <1>3, EditMoves
  <2>2. \E b \in {{}, {Coming}} : bad' = bad \cup b
    BY <1>3 DEF Edit, Coming
  <2> QED
    BY <1>1, <2>1, <2>2 DEF Grown
<1>4. CASE Publish \/ CorrectTitle
  <2>1. bad' = bad
    BY <1>4 DEF Publish, CorrectTitle
  <2> QED
    BY <1>1, <1>4, <2>1, ServiceMade DEF Grown
<1>5. UNCHANGED edits \/ (\E c \in Clients : Edit(c)) \/ Publish \/ CorrectTitle
  BY DEF Next, Connect, Pace, Resend, Receive, Lose, Submit, Refuse, Ask, Greet, Apply, CommitRows,
         CommitState, Acknowledge, Rebuild, ReplaceRows, AnnounceReset, CheckpointRows, Close,
         Crash, Restore
<1> QED
  BY <1>2, <1>3, <1>4, <1>5

LEMMA ValidStays ==
    ASSUME TypeOK, Grown, NEW s \in SUBSET Made, Valid(s)
    PROVE  {e \in s : deps'[e] \subseteq s} \cap bad' = {}
  BY DEF Valid, Shown, Grown

LEMMA LoadStep ==
    ASSUME TypeOK, Next
    PROVE  load' \in LoadRecords /\ load'.epochs = load.epochs /\ load'.tabs = load.tabs
<1>1. load \in LoadRecords
  BY DEF TypeOK
<1>2. CASE load' = load
  BY <1>1, <1>2
<1>3. CASE Spend("losses") \/ Spend("crashes")
  BY <1>1, <1>3 DEF Spend, LoadRecords
<1>4. CASE load.refusals > 0 /\ load' = [load EXCEPT !.refusals = load.refusals - 1, !.refused = TRUE]
  <2> DEFINE n == load.refusals - 1
             b == TRUE
             R == [load EXCEPT !.refusals = n, !.refused = b]
  <2>1. n \in Nat /\ b \in BOOLEAN
    BY <1>1, <1>4 DEF LoadRecords
  <2>2. load' = R
    BY <1>4
  <2> HIDE DEF n, b
  <2>3. R.epochs = load.epochs /\ R.tabs = load.tabs
    BY <1>1 DEF LoadRecords
  <2>4. R \in LoadRecords
    BY <1>1, <2>1 DEF LoadRecords
  <2> QED
    BY <2>2, <2>3, <2>4
<1>5. \/ load' = load \/ Spend("losses") \/ Spend("crashes")
      \/ load.refusals > 0 /\ load' = [load EXCEPT !.refusals = load.refusals - 1, !.refused = TRUE]
  BY DEF Next, Connect, Edit, Pace, Resend, Receive, Lose, Submit, Refuse, Ask, Greet, Apply,
         Publish, CorrectTitle, CommitRows, CommitState, Acknowledge, Rebuild, ReplaceRows,
         AnnounceReset, CheckpointRows, Close, Crash, Restore
<1> QED
  BY <1>2, <1>3, <1>4, <1>5

ServerInv == Recoverable /\ InStep /\ JournalInv /\ ChainInv

\* A step writes the rows of the same history, or starts the next one with the same document.
StoreStep ==
    /\ ch' \in Channels(Made')
    /\ \/ ch'.snapshot.epoch = ch.snapshot.epoch /\ Durable(ch) \subseteq Durable(ch')
       \/ /\ ch'.snapshot.epoch = ch.snapshot.epoch + 1 /\ Durable(ch') = Durable(ch)
          /\ UNCHANGED <<prov, online, up, down>>

LEMMA RowsKept ==
    ASSUME TypeOK, ServerInv, Grown, ch' = ch, load'.epochs = load.epochs
    PROVE  Recoverable' /\ JournalInv' /\ StoreStep
<1>1. ch \in Channels(Made)
  BY DEF TypeOK
<1>2. Durable(ch) \in SUBSET Made
  BY <1>1, RowFields
<1>3. {e \in Durable(ch) : deps'[e] \subseteq Durable(ch)} \cap bad' = {}
  BY <1>2, ValidStays DEF ServerInv, Recoverable
<1>4. Recoverable'
  BY <1>3 DEF ServerInv, Recoverable, Valid, Shown
<1>5. ch' \in Channels(Made')
  BY <1>1, ChannelsGrow DEF Grown
<1> QED
  BY <1>4, <1>5 DEF ServerInv, JournalInv, StoreStep

(* Nothing of the open plan changes but, perhaps, who is told.             *)
LEMMA ServerSteady ==
    ASSUME TypeOK, ServerInv, Grown, ch' = ch, room' = room, phase' = phase, extra' = extra,
           BatchEdits' = BatchEdits, batch = <<>> => batch' = <<>>, ~running => queue' = <<>>,
           load'.epochs = load.epochs
    PROVE  ServerInv' /\ StoreStep
<1>1. Recoverable' /\ JournalInv' /\ StoreStep
  BY RowsKept
<1>2. ChainInv'
  BY DEF ServerInv, ChainInv, room
<1>3. InStep'
  BY DEF ServerInv, InStep, room, Saved
<1> QED
  BY <1>1, <1>2, <1>3 DEF ServerInv

LEMMA GoneFacts ==
    ASSUME NEW M, NEW s \in Seq(Items(M)), NEW lost \in SUBSET Clients
    PROVE  /\ Gone(s, lost) \in Seq(Items(M)) /\ DOMAIN Gone(s, lost) = DOMAIN s
           /\ s = <<>> => Gone(s, lost) = <<>>
           /\ \A i \in DOMAIN s :
                /\ Gone(s, lost)[i].id = s[i].id /\ Gone(s, lost)[i].edits = s[i].edits
                /\ Gone(s, lost)[i].epoch = s[i].epoch
                /\ Gone(s, lost)[i].client = s[i].client \/ Gone(s, lost)[i].client = NoClient
<1> DEFINE g == Gone(s, lost)
           h(x) == IF x.client \in lost THEN [x EXCEPT !.client = NoClient] ELSE x
<1>1. g = [i \in DOMAIN s |-> h(s[i])]
  BY DEF Gone
<1>2. \A x \in Items(M) : /\ h(x) \in Items(M) /\ h(x).id = x.id /\ h(x).edits = x.edits
                          /\ h(x).epoch = x.epoch
                          /\ h(x).client = x.client \/ h(x).client = NoClient
  BY DEF Items
<1>3. \A i \in DOMAIN s : s[i] \in Items(M)
  OBVIOUS
<1> HIDE DEF h
<1>4. DOMAIN g = DOMAIN s /\ \A i \in DOMAIN s : g[i] = h(s[i])
  BY <1>1
<1>5. g = [i \in 1 .. Len(s) |-> g[i]] /\ Len(s) \in Nat
  BY <1>1, <1>4
<1>6. g \in Seq(Items(M))
  <2>1. \A i \in 1 .. Len(s) : g[i] \in Items(M)
    BY <1>2, <1>3, <1>4
  <2> HIDE DEF g
  <2> QED
    BY <1>5, <2>1
<1>7. s = <<>> => g = <<>>
  <2> HIDE DEF g
  <2> QED
    BY <1>4, <1>6
<1> QED
  BY <1>2, <1>3, <1>4, <1>6, <1>7

LEMMA ServerFacts ==
    ASSUME TypeOK, ServerInv
    PROVE  /\ ch \in Channels(Made) /\ Trimmed(ch) /\ Restorable(ch) /\ Valid(Durable(ch))
           /\ ch.snapshot.epoch \in 1 .. load.epochs /\ ch.snapshot.epoch \in Nat \ {0}
           /\ load.epochs \in Nat /\ epoch \in 1 .. load.epochs
           /\ ch.revision \in Nat /\ ch.next \in Nat \ {0} /\ ch.snapshot.through < ch.next
           /\ Durable(ch) \in SUBSET Made /\ BatchEdits \in SUBSET Made /\ extra \in SUBSET Made
           /\ \A op \in ch.operations : op[1] = "update" => op[3] \subseteq Durable(ch)
           /\ ch.snapshot.through \in Nat
<1>1. ch \in Channels(Made) /\ epoch \in 1 .. load.epochs /\ load \in LoadRecords
  BY DEF TypeOK
<1>2. batch \in Seq(Items(Made)) /\ extra \in SUBSET Made
  BY DEF TypeOK
<1>3. \A i \in DOMAIN batch : batch[i].edits \subseteq Made
  <2>1. \A i \in DOMAIN batch : batch[i] \in Items(Made)
    BY <1>2
  <2> QED
    BY <2>1 DEF Items
<1>4. BatchEdits \in SUBSET Made
  BY <1>3 DEF BatchEdits
<1>5. load.epochs \in Nat
  BY <1>1 DEF LoadRecords
<1>6. /\ ch.snapshot.epoch \in 1 .. load.epochs /\ Trimmed(ch) /\ Restorable(ch)
      /\ \A op \in ch.operations : op[1] = "update" => op[3] \subseteq Durable(ch)
      /\ Valid(Durable(ch))
  BY DEF ServerInv, JournalInv, Recoverable, Trimmed
<1>7. ch.snapshot.through < ch.next
  BY <1>6 DEF Restorable
<1> QED
  BY <1>1, <1>2, <1>4, <1>5, <1>6, <1>7, RowFields

(* The rows are written: what is left is what the rows promise.            *)
LEMMA RowsWritten ==
    ASSUME TypeOK, Made' = Made, deps' = deps, bad' = bad, load'.epochs = load.epochs,
           ch' \in Channels(Made), Trimmed(ch'), Restorable(ch'), Valid(Durable(ch')),
           ch'.snapshot.epoch \in 1 .. load.epochs,
           \A op \in ch'.operations : op[1] = "update" => op[3] \subseteq Durable(ch')
    PROVE  Recoverable' /\ JournalInv'
<1>1. Recoverable'
  BY DEF Recoverable, Valid, Shown
<1>2. JournalInv'
  BY DEF JournalInv, Trimmed
<1> QED
  BY <1>1, <1>2

LEMMA ApplyServer ==
    ASSUME TypeOK, ServerInv, Grown, load'.epochs = load.epochs,
           Apply \/ Publish \/ CorrectTitle
    PROVE  ServerInv' /\ StoreStep
<1>1. ch' = ch /\ running /\ running' = running /\ epoch' = epoch /\ known' = known /\ saved' = saved
  BY DEF Apply, Publish, CorrectTitle
<1>2. Recoverable' /\ JournalInv' /\ StoreStep
  BY <1>1, RowsKept
<1>3. phase' = "applied" /\ phase \in {"idle", "applied"}
  BY DEF Apply, Publish, CorrectTitle
<1>4. InStep'
  BY <1>3 DEF InStep
<1>5. epoch = ch.snapshot.epoch /\ known = Durable(ch)
  BY <1>1, <1>3 DEF ServerInv, ChainInv
<1>6. live' = Durable(ch) \cup BatchEdits' \cup extra'
  <2>1. CASE Apply
    <3>1. /\ live = Durable(ch) /\ extra = {}
      BY <2>1 DEF Apply, ServerInv, ChainInv
    <3>2. batch' = queue /\ extra' = extra
          /\ live' = live \cup UNION {queue[i].edits : i \in DOMAIN queue}
      BY <2>1 DEF Apply
    <3>3. BatchEdits' = UNION {queue[i].edits : i \in DOMAIN queue}
      BY <3>2 DEF BatchEdits
    <3> QED
      BY <3>1, <3>2, <3>3
  <2>2. CASE Publish
    <3>1. live = Durable(ch) /\ batch = <<>>
      BY <2>2 DEF Publish, ServerInv, ChainInv
    <3>2. BatchEdits' = {} /\ live' = live \cup extra'
      BY <2>2, <3>1 DEF BatchEdits, Publish
    <3> QED
      BY <3>1, <3>2
  <2>3. CASE CorrectTitle
    <3>1. live = Durable(ch) \cup (BatchEdits \cup extra) /\ extra = {}
      BY <2>3 DEF CorrectTitle, ServerInv, ChainInv
    <3>2. BatchEdits' = BatchEdits /\ live' = live \cup extra'
      BY <2>3 DEF BatchEdits, CorrectTitle
    <3> QED
      BY <3>1, <3>2
  <2> QED
    BY <2>1, <2>2, <2>3
<1>7. ChainInv'
  BY <1>1, <1>3, <1>5, <1>6 DEF ChainInv
<1> QED
  BY <1>2, <1>4, <1>7 DEF ServerInv

LEMMA CommitServer ==
    ASSUME TypeOK, ServerInv, Grown, load'.epochs = load.epochs, CommitRows
    PROVE  ServerInv' /\ StoreStep
<1> DEFINE D == Durable(ch)
           t == BatchEdits \cup extra
<1>1. /\ ch \in Channels(Made) /\ Trimmed(ch) /\ Restorable(ch)
      /\ ch.snapshot.epoch \in 1 .. load.epochs /\ epoch \in Nat
      /\ t \in SUBSET Made
      /\ \A op \in ch.operations : op[1] = "update" => op[3] \subseteq Durable(ch)
  BY ServerFacts
<1>2. /\ running /\ phase = "applied" /\ Valid(live) /\ UNCHANGED <<edits, room, batch, extra>>
  BY DEF CommitRows, Accepts
<1>3. epoch = ch.snapshot.epoch /\ live = D \cup t /\ known = D
  BY <1>2 DEF ServerInv, ChainInv
<1>4. BatchEdits' = BatchEdits
  BY <1>2 DEF BatchEdits
<1>5. Operation \in Operations(Made) /\ Operation[1] = "update" /\ Operation[3] = t
  BY <1>1 DEF Operation, Operations
<1>6. CASE ch' = Commit(ch, Operation, epoch, t) /\ phase' = "committed"
  <2>1. /\ ch' \in Channels(Made) /\ Trimmed(ch') /\ Restorable(ch')
        /\ Durable(ch') = D \cup t /\ ch'.operations = ch.operations \cup {Operation}
        /\ ch'.snapshot = ch.snapshot
    <3>1. ch' = Commit(ch, Operation, ch.snapshot.epoch, t)
      BY <1>3, <1>6
    <3> HIDE DEF t
    <3>2. Committed(ch, ch', Operation, t, Made)
      BY <1>1, <1>5, <3>1, CommitFacts
    <3> QED
      BY <3>2 DEF Committed
  <2>5. Made' = Made
    BY <1>2 DEF edits, Made
  <2>2. Recoverable' /\ JournalInv'
    <3>1. \A op \in ch'.operations : op[1] = "update" => op[3] \subseteq Durable(ch')
      BY <1>1, <1>5, <2>1
    <3>2. Valid(Durable(ch'))
      BY <1>2, <1>3, <2>1
    <3>3. Made' = Made /\ deps' = deps /\ bad' = bad
      BY <1>2 DEF edits, Made
    <3> QED
      BY <1>1, <2>1, <3>1, <3>2, <3>3, RowsWritten
  <2>3. InStep'
    BY <1>6 DEF InStep
  <2>4. ChainInv'
    BY <1>2, <1>3, <1>4, <1>6, <2>1 DEF ChainInv, room
  <2> QED
    BY <2>1, <2>2, <2>3, <2>4, <2>5 DEF ServerInv, StoreStep
<1>7. CASE ch' = ch /\ phase' = "conflict"
  <2>1. Recoverable' /\ JournalInv' /\ StoreStep
    BY <1>7, RowsKept
  <2>2. ChainInv' /\ InStep'
    BY <1>2, <1>3, <1>4, <1>7 DEF ChainInv, InStep, room
  <2> QED
    BY <2>1, <2>2 DEF ServerInv
<1>8. CASE Repeated(ch, Operation) /\ ch' = ch /\ phase' = "repeated"
  <2>1. Recoverable' /\ JournalInv' /\ StoreStep
    BY <1>8, RowsKept
  <2>2. t \subseteq D
    BY <1>1, <1>5, <1>8 DEF Repeated
  <2>3. live = D /\ D = known \cup t
    BY <1>3, <2>2
  <2>4. ChainInv' /\ InStep'
    BY <1>2, <1>3, <1>4, <1>8, <2>3 DEF ChainInv, InStep, room
  <2> QED
    BY <2>1, <2>4 DEF ServerInv
<1> QED
  BY <1>6, <1>7, <1>8 DEF CommitRows

LEMMA CommitStateServer ==
    ASSUME TypeOK, ServerInv, Grown, load'.epochs = load.epochs, CommitState
    PROVE  ServerInv' /\ StoreStep
<1> DEFINE D == Durable(ch)
           op == <<"state", ch.next>>
<1>1. /\ ch \in Channels(Made) /\ Trimmed(ch) /\ Restorable(ch) /\ Valid(D)
      /\ ch.snapshot.epoch \in 1 .. load.epochs /\ ch.next \in Nat
      /\ \A o \in ch.operations : o[1] = "update" => o[3] \subseteq Durable(ch)
  BY ServerFacts
<1>2. /\ running /\ phase = "repeated" /\ UNCHANGED <<edits, room, batch, extra>>
      /\ ch' = Commit(ch, op, epoch, {}) /\ phase' = "committed"
  BY DEF CommitState
<1>3. epoch = ch.snapshot.epoch /\ live = D /\ known = D /\ D = known \cup BatchEdits \cup extra
  BY <1>2 DEF ServerInv, ChainInv
<1>4. BatchEdits' = BatchEdits
  BY <1>2 DEF BatchEdits
<1>5. op \in Operations(Made) /\ op[1] = "state"
  BY <1>1 DEF Operations
<1> HIDE DEF op
<1>6. /\ ch' \in Channels(Made) /\ Trimmed(ch') /\ Restorable(ch')
      /\ Durable(ch') = D /\ ch'.operations = ch.operations \cup {op}
      /\ ch'.snapshot = ch.snapshot
  <2> DEFINE t == {}
  <2>1. t \in SUBSET Made /\ D \cup t = D
    OBVIOUS
  <2>2. ch' = Commit(ch, op, ch.snapshot.epoch, t)
    BY <1>2, <1>3
  <2> HIDE DEF t
  <2>3. Committed(ch, ch', op, t, Made)
    BY <1>1, <1>5, <2>1, <2>2, CommitFacts
  <2> QED
    BY <2>1, <2>3 DEF Committed
<1>7. Recoverable' /\ JournalInv'
  <2>1. \A o \in ch'.operations : o[1] = "update" => o[3] \subseteq Durable(ch')
    BY <1>1, <1>5, <1>6
  <2>2. Valid(Durable(ch'))
    BY <1>1, <1>6
  <2>3. Made' = Made /\ deps' = deps /\ bad' = bad
    BY <1>2 DEF edits, Made
  <2> QED
    BY <1>1, <1>6, <2>1, <2>2, <2>3, RowsWritten
<1>8. ChainInv' /\ InStep'
  BY <1>2, <1>3, <1>4, <1>6 DEF ChainInv, InStep, room
<1>9. Made' = Made
  BY <1>2 DEF edits, Made
<1> QED
  BY <1>6, <1>7, <1>8, <1>9 DEF ServerInv, StoreStep

LEMMA TellServer ==
    ASSUME TypeOK, ServerInv, Grown, load'.epochs = load.epochs, Acknowledge \/ AnnounceReset
    PROVE  ServerInv' /\ StoreStep
<1>1. /\ ch.snapshot.epoch \in Nat \ {0} /\ ch.next \in Nat \ {0}
      /\ ch.snapshot.through < ch.next /\ ch.snapshot.through \in Nat /\ ch.revision \in Nat
  BY ServerFacts
<1>2. /\ running /\ ch' = ch /\ running' = running /\ epoch' = epoch /\ live' = live
      /\ phase' = "idle" /\ batch' = <<>> /\ extra' = {} /\ known' = live /\ saved' = NextSaved
      /\ phase \in {"committed", "replaced"}
  BY DEF Acknowledge, AnnounceReset, KnownAfterCommit
<1>3. Recoverable' /\ JournalInv' /\ StoreStep
  BY <1>2, RowsKept
<1>4. epoch = ch.snapshot.epoch /\ live = Durable(ch)
  BY <1>2 DEF ServerInv, ChainInv
<1>5. ChainInv'
  BY <1>2, <1>4 DEF ChainInv
<1>6. saved' = Saved /\ Saved' = Saved
  BY <1>2, <1>4 DEF NextSaved, Saved
<1>7. MayCheckpoint(ch, Saved.revision, Saved.sequence)
  BY <1>1 DEF MayCheckpoint, Saved
<1>8. InStep'
  BY <1>2, <1>4, <1>6, <1>7 DEF InStep
<1> QED
  BY <1>3, <1>5, <1>8 DEF ServerInv

LEMMA RebuildServer ==
    ASSUME TypeOK, ServerInv, Grown, load'.epochs = load.epochs, Rebuild
    PROVE  ServerInv' /\ StoreStep
<1>1. /\ running /\ phase \in {"conflict", "applied"} /\ ch' = ch /\ running' = running
      /\ epoch' = epoch + 1 /\ live' = known /\ known' = known /\ phase' = "replacing"
  BY DEF Rebuild
<1>2. Recoverable' /\ JournalInv' /\ StoreStep
  BY <1>1, RowsKept
<1>3. epoch = ch.snapshot.epoch /\ known = Durable(ch)
  BY <1>1 DEF ServerInv, ChainInv
<1>4. ChainInv' /\ InStep'
  BY <1>1, <1>3 DEF ChainInv, InStep
<1> QED
  BY <1>2, <1>4 DEF ServerInv

LEMMA ReplaceServer ==
    ASSUME TypeOK, ServerInv, Grown, load'.epochs = load.epochs, ReplaceRows
    PROVE  ServerInv' /\ StoreStep
<1> DEFINE D == Durable(ch)
           op == <<"epoch", epoch>>
<1>1. /\ ch \in Channels(Made) /\ Trimmed(ch) /\ Restorable(ch) /\ Valid(D) /\ D \in SUBSET Made
      /\ ch.snapshot.epoch \in Nat \ {0} /\ epoch \in 1 .. load.epochs /\ load.epochs \in Nat
      /\ \A o \in ch.operations : o[1] = "update" => o[3] \subseteq Durable(ch)
  BY ServerFacts
<1>2. /\ running /\ phase = "replacing" /\ UNCHANGED <<edits, room, batch, extra, tabs>>
      /\ ch' = Replace(ch, op, epoch, live) /\ phase' = "replaced"
  BY DEF ReplaceRows
<1>3. epoch = ch.snapshot.epoch + 1 /\ live = D /\ known = D
  BY <1>2 DEF ServerInv, ChainInv
<1>4. op \in Operations(Made) /\ op[1] = "epoch" /\ epoch \in Nat \ {0} /\ epoch > 1
  BY <1>1, <1>3 DEF Operations
<1> HIDE DEF op
<1>5. /\ ch' \in Channels(Made) /\ Trimmed(ch') /\ Restorable(ch')
      /\ Durable(ch') = D /\ ch'.operations = ch.operations \cup {op}
      /\ ch'.snapshot.epoch = epoch
  BY <1>1, <1>2, <1>3, <1>4, ReplaceFacts
<1>6. Recoverable' /\ JournalInv'
  <2>1. \A o \in ch'.operations : o[1] = "update" => o[3] \subseteq Durable(ch')
    BY <1>1, <1>4, <1>5
  <2>2. Valid(Durable(ch')) /\ ch'.snapshot.epoch \in 1 .. load.epochs
    BY <1>1, <1>5
  <2>3. Made' = Made /\ deps' = deps /\ bad' = bad
    BY <1>2 DEF edits, Made
  <2> QED
    BY <1>1, <1>5, <2>1, <2>2, <2>3, RowsWritten
<1>7. ChainInv' /\ InStep'
  BY <1>2, <1>3, <1>4, <1>5 DEF ChainInv, InStep, room
<1>8. StoreStep
  BY <1>2, <1>3, <1>5 DEF StoreStep, tabs, edits, Made
<1> QED
  BY <1>6, <1>7, <1>8 DEF ServerInv

LEMMA CheckpointServer ==
    ASSUME TypeOK, ServerInv, Grown, load'.epochs = load.epochs, CheckpointRows \/ Close
    PROVE  ServerInv' /\ StoreStep
<1> DEFINE D == Durable(ch)
<1>1. /\ ch \in Channels(Made) /\ Trimmed(ch) /\ Restorable(ch) /\ Valid(D)
      /\ ch.snapshot.epoch \in 1 .. load.epochs
      /\ ch.next \in Nat \ {0} /\ ch.revision \in Nat
      /\ \A o \in ch.operations : o[1] = "update" => o[3] \subseteq Durable(ch)
  BY ServerFacts
<1>2. /\ running /\ phase = "idle" /\ UNCHANGED <<edits, epoch, saved, phase, batch, extra>>
      /\ ch' = Checkpoint(ch, saved.revision, saved.sequence, saved.epoch, saved.doc)
  BY DEF CheckpointRows, Close, chain
<1>3. /\ saved = Saved /\ live = D /\ known = D /\ epoch = ch.snapshot.epoch
      /\ batch = <<>> /\ extra = {}
  BY <1>2 DEF ServerInv, InStep, ChainInv
<1>4. /\ saved.revision = ch.revision /\ saved.sequence = ch.next - 1
      /\ saved.epoch = ch.snapshot.epoch /\ saved.doc = D
  BY <1>3 DEF Saved
<1>5. /\ ch' \in Channels(Made) /\ Trimmed(ch') /\ Restorable(ch')
      /\ Durable(ch') = D /\ ch'.operations = ch.operations
      /\ ch'.revision = ch.revision /\ ch'.next = ch.next
      /\ ch'.snapshot.epoch = ch.snapshot.epoch
  BY <1>1, <1>2, <1>4, CheckpointFacts
<1>6. Recoverable' /\ JournalInv'
  <2>1. Valid(Durable(ch'))
    BY <1>1, <1>5
  <2>2. Made' = Made /\ deps' = deps /\ bad' = bad
    BY <1>2 DEF edits, Made
  <2> QED
    BY <1>1, <1>5, <2>1, <2>2, RowsWritten
<1>7. StoreStep
  BY <1>2, <1>5 DEF StoreStep, edits, Made
<1>8. CASE CheckpointRows
  <2>1. running' = running /\ live' = live /\ known' = D /\ queue' = queue
    BY <1>4, <1>8 DEF CheckpointRows
  <2>2. ChainInv'
    BY <1>2, <1>3, <1>5, <2>1 DEF ChainInv, BatchEdits
  <2>3. Saved' = Saved
    BY <1>5 DEF Saved
  <2>4. MayCheckpoint(ch', saved.revision, saved.sequence)
    <3>1. ch'.snapshot.through = saved.sequence
      <4> DEFINE n == [epoch |-> saved.epoch, doc |-> saved.doc, through |-> saved.sequence,
                       revision |-> saved.revision]
                 w == {u \in ch.updates : u.sequence > saved.sequence}
      <4>1. ch' = [ch EXCEPT !.snapshot = n, !.updates = w]
        BY <1>2 DEF Checkpoint
      <4>2. n.through = saved.sequence
        OBVIOUS
      <4> HIDE DEF n, w
      <4>3. ch'.snapshot = n
        BY <1>1, <4>1 DEF Channels
      <4> QED
        BY <4>2, <4>3
    <3> QED
      BY <1>1, <1>4, <1>5, <3>1 DEF MayCheckpoint
  <2>5. InStep'
    BY <1>2, <1>3, <1>5, <2>1, <2>3, <2>4 DEF InStep
  <2> QED
    BY <1>6, <1>7, <2>2, <2>5 DEF ServerInv
<1>9. CASE Close
  <2>1. ~running' /\ queue' = <<>>
    BY <1>9 DEF Close
  <2>2. ChainInv' /\ InStep'
    BY <1>2, <1>3, <1>5, <2>1 DEF ChainInv, InStep
  <2> QED
    BY <1>6, <1>7, <2>2 DEF ServerInv
<1> QED
  BY <1>8, <1>9

LEMMA StopServer ==
    ASSUME TypeOK, ServerInv, Grown, load'.epochs = load.epochs, Crash \/ Restore
    PROVE  ServerInv' /\ StoreStep
<1>1. /\ ch.snapshot.epoch \in Nat \ {0} /\ ch.next \in Nat \ {0}
      /\ ch.snapshot.through < ch.next /\ ch.snapshot.through \in Nat /\ ch.revision \in Nat
  BY ServerFacts
<1>2. ch' = ch /\ saved' = Saved /\ epoch' = ch.snapshot.epoch
  BY DEF Crash, Restore
<1>3. Recoverable' /\ JournalInv' /\ StoreStep
  BY <1>2, RowsKept
<1>4. CASE Crash
  <2>1. ~running' /\ phase' = "idle" /\ batch' = <<>> /\ extra' = {} /\ queue' = <<>>
    BY <1>4 DEF Crash
  <2>2. ChainInv' /\ InStep'
    BY <1>2, <2>1 DEF ChainInv, InStep
  <2> QED
    BY <1>3, <2>2 DEF ServerInv
<1>5. CASE Restore
  <2>1. /\ ~running /\ running' /\ live' = Durable(ch) /\ known' = Durable(ch)
        /\ UNCHANGED <<phase, batch, extra>>
    BY <1>5 DEF Restore, chain
  <2>2. phase = "idle" /\ batch = <<>> /\ extra = {}
    BY <2>1 DEF ServerInv, ChainInv
  <2>3. ChainInv'
    BY <1>2, <2>1, <2>2 DEF ChainInv
  <2>4. Saved' = Saved /\ MayCheckpoint(ch, Saved.revision, Saved.sequence)
    BY <1>1, <1>2 DEF Saved, MayCheckpoint
  <2>5. InStep'
    BY <1>2, <2>1, <2>4 DEF InStep
  <2> QED
    BY <1>3, <2>3, <2>5 DEF ServerInv
<1> QED
  BY <1>4, <1>5

(* The steps of tabs and sockets.                                          *)
LEMMA OutsideServer ==
    ASSUME TypeOK, ServerInv, Grown, load'.epochs = load.epochs,
           \/ \E c \in Clients : TabAct(c) \/ Lose(c) \/ Submit(c) \/ Refuse(c) \/ Ask(c)
           \/ \E a \in asks : Greet(a)
    PROVE  ServerInv' /\ StoreStep
<1>1. /\ ch' = ch /\ room' = room /\ phase' = phase /\ extra' = extra
  BY DEF TabAct, Connect, Edit, Pace, Resend, Receive, Lose, Submit, Refuse, Ask, Greet, chain, room
<1>2. CASE batch' = batch /\ (~running => queue' = queue)
  <2>1. ~running => queue' = <<>>
    BY <1>2 DEF ServerInv, ChainInv
  <2>2. BatchEdits' = BatchEdits
    BY <1>2 DEF BatchEdits
  <2> QED
    BY <1>1, <1>2, <2>1, <2>2, ServerSteady
<1>3. ASSUME NEW c \in Clients, Lose(c) PROVE ServerInv' /\ StoreStep
  <2>1. queue' = Gone(queue, {c}) /\ batch' = Gone(batch, {c})
    BY <1>3 DEF Lose
  <2>2. queue \in Seq(Items(Made)) /\ batch \in Seq(Items(Made)) /\ {c} \in SUBSET Clients
    BY DEF TypeOK
  <2>3. ~running => queue' = <<>>
    BY <2>1, <2>2, GoneFacts DEF ServerInv, ChainInv
  <2>4. DOMAIN batch' = DOMAIN batch /\ \A i \in DOMAIN batch : batch'[i].edits = batch[i].edits
    BY <2>1, <2>2, GoneFacts
  <2>5. BatchEdits' = BatchEdits
    BY <2>4 DEF BatchEdits
  <2>6. batch = <<>> => batch' = <<>>
    BY <2>1, <2>2, GoneFacts
  <2> QED
    BY <1>1, <2>3, <2>5, <2>6, ServerSteady
<1>4. (batch' = batch /\ (~running => queue' = queue)) \/ \E c \in Clients : Lose(c)
  BY DEF TabAct, Connect, Edit, Pace, Resend, Receive, Submit, Refuse, Ask, Greet, chain
<1> QED
  BY <1>2, <1>3, <1>4

LEMMA ServerStep ==
    ASSUME TypeOK, ServerInv, Next
    PROVE  ServerInv' /\ StoreStep
<1>1. Grown /\ load'.epochs = load.epochs
  BY GrownStep, LoadStep
<1> QED
  BY <1>1, NextActs, ApplyServer, CommitServer, CommitStateServer, TellServer, RebuildServer,
     ReplaceServer, CheckpointServer, StopServer, OutsideServer DEF ServiceAct

-----------------------------------------------------------------------------
(* Where queued updates and opens come from, and the types.                *)

\* The item x is y, or y without its sender.
From(x, y) ==
    /\ x.id = y.id /\ x.edits = y.edits /\ x.epoch = y.epoch
    /\ x.client = y.client \/ x.client = NoClient

\* The item that the first frame a tab has sent becomes.
Arrived(c) ==
    [client |-> c, id |-> Head(up[c]).id, edits |-> Head(up[c]).edits, epoch |-> Head(up[c]).epoch]

QueueMoves ==
    /\ \A x : In(x, queue') =>
         \/ \E y : In(y, queue) /\ From(x, y)
         \/ \E c \in Clients : /\ up[c] # <<>> /\ Head(up[c]).kind = "update"
                               /\ Head(up[c]).epoch = epoch /\ x = Arrived(c)
    /\ \A x : In(x, batch') => \E y : (In(y, batch) \/ In(y, queue)) /\ From(x, y)
    /\ \A a \in asks' :
         \/ a \in asks
         \/ \E c \in Clients : /\ up[c] # <<>> /\ Head(up[c]).kind = "open"
                               /\ a = [client |-> c, gen |-> Head(up[c]).gen]

LEMMA GoneFrom ==
    ASSUME NEW M, NEW s \in Seq(Items(M)), NEW lost \in SUBSET Clients
    PROVE  \A x : In(x, Gone(s, lost)) => \E y : In(y, s) /\ From(x, y)
  BY GoneFacts DEF In, From

LEMMA FromSelf ==
    \A s : \A x : In(x, s) => \E y : In(y, s) /\ From(x, y)
  BY DEF From

LEMMA QueueStep ==
    ASSUME TypeOK, Next
    PROVE  /\ QueueMoves
           /\ queue' \in Seq(Items(Made)) /\ batch' \in Seq(Items(Made))
           /\ asks' \subseteq [client: Clients, gen: Nat]
<1>1. /\ queue \in Seq(Items(Made)) /\ batch \in Seq(Items(Made))
      /\ asks \subseteq [client: Clients, gen: Nat] /\ up \in [Clients -> Seq(Ups(Made))]
      /\ epoch \in Nat \ {0}
  BY DEF TypeOK, LoadRecords
<1> DEFINE Goal == /\ QueueMoves
                   /\ queue' \in Seq(Items(Made)) /\ batch' \in Seq(Items(Made))
                   /\ asks' \subseteq [client: Clients, gen: Nat]
<1>2. \A x : ~In(x, <<>>)
  BY DEF In
<1>3. ASSUME queue' = queue \/ queue' = <<>>,
             batch' = batch \/ batch' = <<>> \/ batch' = queue,
             asks' \subseteq asks
      PROVE  Goal
  <2>1. \A x : In(x, queue') => \E y : In(y, queue) /\ From(x, y)
    BY <1>2, <1>3, FromSelf
  <2>2. \A x : In(x, batch') => \E y : (In(y, batch) \/ In(y, queue)) /\ From(x, y)
    BY <1>2, <1>3, FromSelf
  <2>3. queue' \in Seq(Items(Made)) /\ batch' \in Seq(Items(Made))
    <3>1. <<>> \in Seq(Items(Made))
      OBVIOUS
    <3> QED
      BY <1>1, <1>3, <3>1
  <2> QED
    BY <1>1, <1>3, <2>1, <2>2, <2>3 DEF QueueMoves
<1>4. ASSUME NEW c \in Clients, Lose(c) PROVE Goal
  <2>1. /\ queue' = Gone(queue, {c}) /\ batch' = Gone(batch, {c}) /\ asks' \subseteq asks
        /\ {c} \in SUBSET Clients
    BY <1>4 DEF Lose
  <2>2. \A x : In(x, queue') => \E y : In(y, queue) /\ From(x, y)
    BY <1>1, <2>1, GoneFrom
  <2>3. \A x : In(x, batch') => \E y : (In(y, batch) \/ In(y, queue)) /\ From(x, y)
    BY <1>1, <2>1, GoneFrom
  <2>4. queue' \in Seq(Items(Made)) /\ batch' \in Seq(Items(Made))
    BY <1>1, <2>1, GoneFacts
  <2> QED
    BY <1>1, <2>1, <2>2, <2>3, <2>4 DEF QueueMoves
<1>5. ASSUME NEW c \in Clients, Submit(c) PROVE Goal
  <2>1. /\ up[c] # <<>> /\ Head(up[c]).kind = "update" /\ batch' = batch /\ asks' = asks
        /\ \/ queue' = queue
           \/ Head(up[c]).epoch = epoch /\ queue' = Append(queue, Arrived(c))
    BY <1>5 DEF Submit, chain, Arrived
  <2>2. CASE queue' = queue
    BY <1>3, <2>1, <2>2
  <2>3. CASE Head(up[c]).epoch = epoch /\ queue' = Append(queue, Arrived(c))
    <3>1. Head(up[c]) \in Ups(Made)
      BY <1>1, <2>1, InTail
    <3>2. Arrived(c) \in Items(Made)
      BY <1>1, <2>1, <2>3, <3>1 DEF Arrived, Items, Ups
    <3>3. \A x : In(x, queue') => In(x, queue) \/ x = Arrived(c)
      BY <1>1, <2>3, InAppend
    <3>4. \A x : In(x, batch') => \E y : (In(y, batch) \/ In(y, queue)) /\ From(x, y)
      BY <2>1, FromSelf
    <3>5. queue' \in Seq(Items(Made)) /\ batch' \in Seq(Items(Made))
      BY <1>1, <2>1, <2>3, <3>2
    <3> QED
      BY <1>1, <2>1, <2>3, <3>3, <3>4, <3>5, FromSelf DEF QueueMoves
  <2> QED
    BY <2>1, <2>2, <2>3
<1>6. ASSUME NEW c \in Clients, Ask(c) PROVE Goal
  <2>1. /\ up[c] # <<>> /\ Head(up[c]).kind = "open" /\ queue' = queue /\ batch' = batch
        /\ asks' = asks \cup {[client |-> c, gen |-> Head(up[c]).gen]}
    BY <1>6 DEF Ask, chain
  <2>2. Head(up[c]) \in Ups(Made)
    BY <1>1, <2>1, InTail
  <2>3. Head(up[c]).gen \in Nat
    BY <2>1, <2>2 DEF Ups
  <2>4. asks' \subseteq [client: Clients, gen: Nat]
    BY <1>1, <2>1, <2>3
  <2>5. QueueMoves
    BY <2>1, FromSelf DEF QueueMoves
  <2> QED
    BY <1>1, <2>1, <2>4, <2>5
<1>7. ASSUME ~\E c \in Clients : Lose(c) \/ Submit(c) \/ Ask(c) PROVE Goal
  <2>1. /\ queue' = queue \/ queue' = <<>>
        /\ batch' = batch \/ batch' = <<>> \/ batch' = queue
        /\ asks' \subseteq asks
    BY <1>7 DEF Next, Connect, Edit, Pace, Resend, Receive, Refuse, Greet, Apply,
         Publish, CorrectTitle, CommitRows, CommitState, Acknowledge, Rebuild, ReplaceRows,
         AnnounceReset, CheckpointRows, Close, Crash, Restore, chain
  <2> QED
    BY <1>3, <2>1
<1> QED
  BY <1>4, <1>5, <1>6, <1>7

LEMMA RoomTypes ==
    ASSUME TypeOK, ServerInv, Next
    PROVE  /\ running' \in BOOLEAN /\ epoch' \in 1 .. load'.epochs /\ due' \in BOOLEAN
           /\ live' \subseteq Made' /\ known' \subseteq live' /\ extra' \subseteq Made'
           /\ phase' \in Phases
<1>1. Grown /\ load'.epochs = load.epochs
  BY GrownStep, LoadStep
<1>2. Made \subseteq Made'
  BY <1>1 DEF Grown
<1>3. /\ running \in BOOLEAN /\ epoch \in 1 .. load.epochs /\ due \in BOOLEAN
      /\ live \subseteq Made /\ known \subseteq live /\ extra \subseteq Made /\ phase \in Phases
  BY DEF TypeOK
<1>4. /\ ch.snapshot.epoch \in 1 .. load.epochs /\ Durable(ch) \in SUBSET Made
      /\ load.epochs \in Nat
  BY ServerFacts
<1> DEFINE Goal == /\ running' \in BOOLEAN /\ epoch' \in 1 .. load'.epochs /\ due' \in BOOLEAN
                   /\ live' \subseteq Made' /\ known' \subseteq live' /\ extra' \subseteq Made'
                   /\ phase' \in Phases
<1>5. ASSUME room' = room, phase' \in Phases, extra' = extra PROVE Goal
  BY <1>1, <1>2, <1>3, <1>5 DEF room
<1>6. CASE \/ \E c \in Clients : TabAct(c) \/ Lose(c) \/ Submit(c) \/ Refuse(c) \/ Ask(c)
           \/ \E a \in asks : Greet(a)
           \/ CommitRows \/ CommitState \/ ReplaceRows
  <2>1. CASE \/ \E c \in Clients : TabAct(c) \/ Lose(c) \/ Submit(c) \/ Refuse(c) \/ Ask(c)
             \/ \E a \in asks : Greet(a)
    <3>1. room' = room /\ phase' = phase /\ extra' = extra
      BY <2>1 DEF TabAct, Connect, Edit, Pace, Resend, Receive, Lose, Submit, Refuse, Ask,
         Greet, chain, room
    <3> QED
      BY <1>3, <1>5, <3>1
  <2>2. CASE CommitRows \/ CommitState \/ ReplaceRows
    <3>1. /\ room' = room /\ extra' = extra
          /\ phase' \in {"committed", "repeated", "conflict", "replaced"}
      BY <2>2 DEF CommitRows, CommitState, ReplaceRows
    <3> QED
      BY <1>5, <3>1 DEF Phases
  <2> QED
    BY <1>6, <2>1, <2>2
<1>7. CASE Apply
  <2>1. \A i \in DOMAIN queue : queue[i].edits \subseteq Made
    <3>1. \A i \in DOMAIN queue : queue[i] \in Items(Made)
      BY DEF TypeOK
    <3> QED
      BY <3>1 DEF Items
  <2>2. live' \subseteq Made' /\ live \subseteq live'
    BY <1>2, <1>3, <1>7, <2>1 DEF Apply
  <2> QED
    BY <1>1, <1>2, <1>3, <1>7, <2>2 DEF Apply, Phases
<1>8. CASE Publish \/ CorrectTitle
  <2>1. Made' = Made \cup {Coming}
    BY <1>8, ServiceMade
  <2>2. extra' = {Coming} /\ live' = live \cup extra' /\ known' = known /\ phase' = "applied"
        /\ running' = running /\ epoch' = epoch /\ due' = due
    BY <1>8 DEF Publish, CorrectTitle, Coming
  <2> QED
    BY <1>1, <1>3, <2>1, <2>2 DEF Phases
<1>9. CASE Acknowledge \/ AnnounceReset
  BY <1>1, <1>2, <1>3, <1>9 DEF Acknowledge, AnnounceReset, KnownAfterCommit, Phases
<1>10. CASE Rebuild
  <2>1. epoch' = epoch + 1 /\ epoch < load.epochs /\ live' = known /\ known' = known
        /\ running' = running /\ due' = due /\ extra' = extra /\ phase' = "replacing"
    BY <1>10 DEF Rebuild
  <2> QED
    BY <1>1, <1>2, <1>3, <1>4, <2>1 DEF Phases
<1>11. CASE CheckpointRows \/ Close
  <2>1. running /\ phase = "idle" /\ epoch' = epoch /\ extra' = extra /\ phase' = phase
        /\ due' = FALSE /\ running' \in BOOLEAN
    BY <1>3, <1>11 DEF CheckpointRows, Close, chain
  <2>2. saved.doc = live
    BY <2>1 DEF ServerInv, InStep, Saved
  <2>3. live' \subseteq Made' /\ known' \subseteq live'
    BY <1>2, <1>3, <1>11, <2>2 DEF CheckpointRows, Close
  <2> QED
    BY <1>1, <1>2, <1>3, <2>1, <2>3
<1>12. CASE Crash \/ Restore
  <2>1. epoch' = ch.snapshot.epoch /\ due' \in BOOLEAN /\ running' \in BOOLEAN
        /\ (extra' = extra \/ extra' = {}) /\ (phase' = phase \/ phase' = "idle")
        /\ live' = known' /\ (live' = {} \/ live' = Durable(ch))
    BY <1>3, <1>12 DEF Crash, Restore, chain
  <2> QED
    BY <1>1, <1>2, <1>3, <1>4, <2>1 DEF Phases
<1> QED
  BY <1>6, <1>7, <1>8, <1>9, <1>10, <1>11, <1>12, NextActs DEF ServiceAct

\* Only a frame that makes a tab discard its document changes what is known of its past.
LEMMA PastMoves ==
    ASSUME TypeOK, Next
    PROVE  \/ past' = past
           \/ \E c \in Clients : past' = [past EXCEPT ![c] = Discarded(@, prov[c])]
<1>1. ASSUME NEW c \in Clients, Receive(c)
      PROVE  past' = past \/ past' = [past EXCEPT ![c] = Discarded(@, prov[c])]
  BY <1>1 DEF Receive
<1>2. ASSUME NEW c \in Clients, TabAct(c), ~Receive(c)
      PROVE  past' = past
  BY <1>2 DEF TabAct, Connect, Edit, Pace, Resend
<1>3. ASSUME NEW c \in Clients, Lose(c) \/ Submit(c) \/ Refuse(c) \/ Ask(c)
      PROVE  past' = past
  BY <1>3 DEF Lose, Submit, Refuse, Ask
<1>4. CASE ServiceAct
  BY <1>4 DEF ServiceAct, Greet, Apply, Publish, CorrectTitle, CommitRows, CommitState, Acknowledge,
              Rebuild, ReplaceRows, AnnounceReset, CheckpointRows, Close, Restore, tabs
<1>5. CASE Crash
  BY <1>5 DEF Crash
<1> QED
  BY <1>1, <1>2, <1>3, <1>4, <1>5, NextActs

LEMMA PastTypes ==
    ASSUME TypeOK, Next, Made \subseteq Made'
    PROVE  past' \in [Clients -> [mine: SUBSET Made', lost: SUBSET Made']]
<1>1. /\ past \in [Clients -> [mine: SUBSET Made, lost: SUBSET Made]]
      /\ prov \in [Clients -> Providers(Made)]
  BY DEF TypeOK
<1>2. past \in [Clients -> [mine: SUBSET Made', lost: SUBSET Made']]
  BY <1>1
<1>3. ASSUME NEW c \in Clients
      PROVE  Discarded(past[c], prov[c]) \in [mine: SUBSET Made', lost: SUBSET Made']
  <2>1. prov[c].outbox \subseteq Entries(Made) /\ prov[c].mine \subseteq Made
    BY <1>1, ProviderFields
  <2>2. Held(prov[c]) \subseteq Made
    BY <2>1 DEF Held, Entries
  <2>3. Accountable(prov[c]) \subseteq Made
    BY <2>1 DEF Accountable
  <2>4. past[c].mine \subseteq Made' /\ past[c].lost \subseteq Made'
    BY <1>2
  <2> QED
    BY <2>2, <2>3, <2>4 DEF Discarded
<1> QED
  BY <1>2, <1>3, PastMoves

LEMMA TypeStep ==
    ASSUME TypeOK, ServerInv, FrameInv, Next
    PROVE  TypeOK'
<1>1. Grown /\ load' \in LoadRecords
  BY GrownStep, LoadStep
<1>2. ch' \in Channels(Made')
  BY ServerStep DEF StoreStep
<1>3. /\ running' \in BOOLEAN /\ epoch' \in 1 .. load'.epochs /\ due' \in BOOLEAN
      /\ live' \subseteq Made' /\ known' \subseteq live' /\ extra' \subseteq Made'
      /\ phase' \in Phases
  BY RoomTypes
<1>4. Shaped /\ Made \subseteq Made' /\ \A c \in Clients : Moves(c)
  BY AllMoves
<1>5. queue' \in Seq(Items(Made')) /\ batch' \in Seq(Items(Made'))
      /\ asks' \subseteq [client: Clients, gen: Nat]
  <2>1. Items(Made) \subseteq Items(Made')
    BY <1>4, FramesGrow
  <2> QED
    BY <2>1, QueueStep
<1>6. prov' \in [Clients -> Providers(Made')]
  <2>1. \A c \in Clients : prov'[c] \in Providers(Made')
    BY <1>4 DEF Moves, TabsMoves
  <2> QED
    BY <1>4, <2>1 DEF Shaped
<1>7. up' \in [Clients -> Seq(Ups(Made'))]
  <2>1. \A c \in Clients : up'[c] \in Seq(Ups(Made'))
    BY <1>4, UpIn DEF Moves, TabsMoves
  <2> QED
    BY <1>4, <2>1 DEF Shaped
<1>8. down' \in [Clients -> Seq(Downs(Made'))]
  <2>1. \A c \in Clients : down'[c] \in Seq(Downs(Made))
    BY <1>4, DownIn DEF Moves
  <2>2. Downs(Made) \subseteq Downs(Made')
    BY <1>4, FramesGrow
  <2>3. \A c \in Clients : down'[c] \in Seq(Downs(Made'))
    BY <2>1, <2>2
  <2> QED
    BY <1>4, <2>3 DEF Shaped
<1>9. /\ online' \in [Clients -> BOOLEAN]
      /\ \A c \in Clients : ~online'[c] => up'[c] = <<>> /\ down'[c] = <<>> /\ ~prov'[c].opening
  BY <1>4 DEF Shaped, Moves
<1>10. past' \in [Clients -> [mine: SUBSET Made', lost: SUBSET Made']]
  BY <1>4, PastTypes
<1> QED
  BY <1>1, <1>2, <1>3, <1>5, <1>6, <1>7, <1>8, <1>9, <1>10 DEF TypeOK, Grown

-----------------------------------------------------------------------------
(* What a tab knows, in the terms of its provider's fields.                *)

\* The same history, and the edits made and held are the same but for those in s.
Follows(p, q, s) ==
    /\ q.gen = p.gen /\ q.epoch = p.epoch /\ q.synced = p.synced
    /\ q.mine = p.mine \cup s
    /\ s = {} /\ p.outbox = {} => q.outbox = {}

Replaced(p, q) ==
    /\ q.gen = p.gen + 1 /\ q.epoch = NoEpoch /\ ~q.synced
    /\ q.doc = {} /\ q.mine = {} /\ q.outbox = {}

Turns(c, p, q) ==
    \/ Follows(p, q, {}) /\ q.doc = p.doc /\ Held(q) = Held(p)
    \/ /\ p.synced /\ Made' = Made \cup {Coming}
       /\ Follows(p, q, {Coming}) /\ q.doc = p.doc \cup {Coming} /\ Held(q) = Held(p) \cup {Coming}
    \/ \E m : /\ Takes(c, m) /\ m.kind = "ack"
              /\ Follows(p, q, {}) /\ q.doc = p.doc /\ q.outbox = {e \in p.outbox : e.id # m.id}
    \/ \E m : /\ Takes(c, m) /\ m.kind = "update"
              /\ Follows(p, q, {}) /\ Held(q) = Held(p)
              /\ q.doc = IF m.epoch = p.epoch THEN p.doc \cup m.edits ELSE p.doc
    \/ \E m : /\ Takes(c, m) /\ m.kind \in {"reset", "open"} /\ m.epoch # p.epoch
              /\ m.kind = "open" => p.epoch # NoEpoch /\ m.gen = p.gen
              /\ Replaced(p, q)
    \/ \E m : /\ Takes(c, m) /\ m.kind = "open" /\ m.gen = p.gen
              /\ p.epoch = NoEpoch \/ p.epoch = m.epoch
              /\ q.gen = p.gen /\ q.epoch = m.epoch /\ q.synced /\ q.mine = p.mine
              /\ q.doc = p.doc \cup m.doc /\ Held(q) = Held(p)

LEMMA TakesIn ==
    ASSUME TypeOK, NEW c \in Clients, NEW m, Takes(c, m)
    PROVE  In(m, down[c]) /\ m \in Downs(Made)
<1>1. down[c] \in Seq(Downs(Made)) /\ down[c] # <<>> /\ m = Head(down[c])
  BY DEF TypeOK, Takes
<1> QED
  BY <1>1, InTail

LEMMA TidyFollows ==
    ASSUME NEW p, NEW q, Tidy(p, q)
    PROVE  /\ q.gen = p.gen /\ q.epoch = p.epoch /\ q.synced = p.synced
           /\ q.mine = p.mine /\ q.doc = p.doc /\ Held(q) = Held(p)
           /\ p.outbox = {} => q.outbox = {}
  BY DEF Tidy, Regroups

LEMMA TurnsStep ==
    ASSUME TypeOK, NEW c \in Clients, ProvMoves(c)
    PROVE  Turns(c, prov[c], prov'[c])
<1> DEFINE p == prov[c]
           q == prov'[c]
<1>1. p \in Providers(Made)
  BY DEF TypeOK
<1> HIDE DEF p, q
<1>2. ASSUME Tidy(p, q) PROVE Turns(c, p, q)
  <2>1. Follows(p, q, {}) /\ q.doc = p.doc /\ Held(q) = Held(p)
    BY <1>2, TidyFollows DEF Follows
  <2> QED
    BY <2>1 DEF Turns
<1>3. ASSUME p.synced, Made' = Made \cup {Coming}, Tidy(Keeping(p, Coming), q)
      PROVE  Turns(c, p, q)
  <2> DEFINE k == Keeping(p, Coming)
             x0 == [id |-> <<"edit", Coming>>, edits |-> {Coming}, unsent |-> TRUE, sends |-> 0]
  <2>1. Coming \in Nat /\ Made \subseteq Nat
    BY DEF TypeOK, Coming, Made
  <2>2. Made' \in SUBSET Nat /\ Coming \in Made' /\ Made \subseteq Made'
    BY <1>3, <2>1
  <2>3. p \in Providers(Made')
    BY <1>1, <2>2, ProvidersGrow
  <2>4. /\ k.gen = p.gen /\ k.epoch = p.epoch /\ k.synced = p.synced
        /\ k.doc = p.doc \cup {Coming} /\ k.mine = p.mine \cup {Coming}
        /\ k.outbox = p.outbox \cup {x0}
    BY <2>2, <2>3, KeepingFacts
  <2>5. x0.edits = {Coming}
    OBVIOUS
  <2> HIDE DEF x0, k
  <2>6. Held(k) = Held(p) \cup {Coming}
    BY <2>4, <2>5 DEF Held
  <2>7. /\ q.gen = k.gen /\ q.epoch = k.epoch /\ q.synced = k.synced
        /\ q.mine = k.mine /\ q.doc = k.doc /\ Held(q) = Held(k)
    BY <1>3, TidyFollows DEF k
  <2>8. /\ Follows(p, q, {Coming}) /\ q.doc = p.doc \cup {Coming}
        /\ Held(q) = Held(p) \cup {Coming}
    BY <2>4, <2>6, <2>7 DEF Follows
  <2> QED
    BY <1>3, <2>8 DEF Turns
<1>4. ASSUME NEW m, Takes(c, m), m.kind = "ack", q = Settle(p, m.id) PROVE Turns(c, p, q)
  <2>1. Same(p, q) /\ q.outbox = {e \in p.outbox : e.id # m.id}
    BY <1>1, <1>4, SettleFacts
  <2>2. Follows(p, q, {}) /\ q.doc = p.doc
    BY <2>1 DEF Same, Follows
  <2> QED
    BY <1>4, <2>1, <2>2 DEF Turns
<1>5. ASSUME NEW m, Takes(c, m), m.kind = "update", q = Remote(p, m.epoch, m.edits)
      PROVE  Turns(c, p, q)
  <2>1. p \in ProviderRecords(Made)
    BY <1>1, ProviderFields
  <2>2. /\ q.gen = p.gen /\ q.epoch = p.epoch /\ q.synced = p.synced /\ q.mine = p.mine
        /\ q.outbox = p.outbox
        /\ q.doc = IF m.epoch = p.epoch THEN p.doc \cup m.edits ELSE p.doc
    BY <1>5, <2>1 DEF Remote, ProviderRecords
  <2>3. Follows(p, q, {}) /\ Held(q) = Held(p)
    BY <2>2 DEF Follows, Held
  <2> QED
    BY <1>5, <2>2, <2>3 DEF Turns
<1>6. ASSUME NEW m, Takes(c, m), m.kind \in {"reset", "open"}, m.epoch # p.epoch,
             m.kind = "open" => p.epoch # NoEpoch /\ m.gen = p.gen,
             q.gen = p.gen + 1 /\ q.epoch = NoEpoch /\ ~q.synced
                 /\ q.doc = {} /\ q.mine = {} /\ q.outbox = {}
      PROVE  Turns(c, p, q)
  <2>1. Replaced(p, q)
    BY <1>6 DEF Replaced
  <2> QED
    BY <1>6, <2>1 DEF Turns
<1>7. ASSUME NEW m, Takes(c, m), m.kind = "open", m.gen = p.gen,
             p.epoch = NoEpoch \/ p.epoch = m.epoch, Tidy(Joined(p, m.epoch, m.doc), q)
      PROVE  Turns(c, p, q)
  <2> DEFINE j == Joined(p, m.epoch, m.doc)
  <2>1. m \in Downs(Made)
    BY <1>7, TakesIn
  <2>2. m.epoch \in Nat /\ m.doc \in SUBSET Made
    BY <1>7, <2>1 DEF Downs
  <2>3. /\ Regroups(p, j) /\ j.gen = p.gen /\ j.epoch = m.epoch /\ j.synced
        /\ j.doc = p.doc \cup m.doc /\ j.mine = p.mine
    BY <1>1, <2>2, JoinedFacts
  <2> HIDE DEF j
  <2>4. /\ q.gen = j.gen /\ q.epoch = j.epoch /\ q.synced = j.synced
        /\ q.mine = j.mine /\ q.doc = j.doc /\ Held(q) = Held(j)
    BY <1>7, TidyFollows DEF j
  <2>5. Held(j) = Held(p)
    BY <2>3 DEF Regroups
  <2> QED
    BY <1>7, <2>3, <2>4, <2>5 DEF Turns
<1>8. Turns(c, p, q)
  <2>1. \/ Tidy(p, q)
        \/ p.synced /\ Made' = Made \cup {Coming} /\ Tidy(Keeping(p, Coming), q)
        \/ \E m : Takes(c, m) /\ m.kind = "ack" /\ q = Settle(p, m.id)
        \/ \E m : Takes(c, m) /\ m.kind = "update" /\ q = Remote(p, m.epoch, m.edits)
        \/ \E m : /\ Takes(c, m) /\ m.kind \in {"reset", "open"} /\ m.epoch # p.epoch
                  /\ m.kind = "open" => p.epoch # NoEpoch /\ m.gen = p.gen
                  /\ q.gen = p.gen + 1 /\ q.epoch = NoEpoch /\ ~q.synced
                  /\ q.doc = {} /\ q.mine = {} /\ q.outbox = {}
        \/ \E m : /\ Takes(c, m) /\ m.kind = "open" /\ m.gen = p.gen
                  /\ p.epoch = NoEpoch \/ p.epoch = m.epoch
                  /\ Tidy(Joined(p, m.epoch, m.doc), q)
    BY DEF ProvMoves, p, q
  <2> QED
    BY <1>2, <1>3, <1>4, <1>5, <1>6, <1>7, <2>1
<1> QED
  BY <1>8 DEF p, q

-----------------------------------------------------------------------------
(* Frames carry what is durable, and tabs see nothing else.                *)

\* What FrameInv asks of a frame on its way to a tab, when the rows are r.
Told(r, m) ==
    /\ m.kind \in {"update", "reset", "open"} => m.epoch \in 1 .. r.snapshot.epoch
    /\ m.kind = "ack" => m.edits \subseteq Durable(r)
    /\ m.kind = "update" /\ m.epoch = r.snapshot.epoch => m.edits \subseteq Durable(r)
    /\ m.kind = "open" /\ m.epoch = r.snapshot.epoch => m.doc \subseteq Durable(r)

LEMMA FrameFacts ==
    ASSUME FrameInv, NEW c \in Clients
    PROVE  /\ prov[c].epoch <= ch.snapshot.epoch
           /\ prov[c].epoch = NoEpoch => ~prov[c].synced /\ prov[c].doc = {} /\ prov[c].outbox = {}
           /\ \A m : In(m, up[c]) /\ m.kind = "update" => m.epoch \in 1 .. ch.snapshot.epoch
           /\ \A m : In(m, down[c]) => Told(ch, m)
  BY DEF FrameInv, In, Told

LEMMA NewTold ==
    ASSUME TypeOK, ServerInv, FrameInv, NEW c \in Clients, NEW m, DownNew(c, m)
    PROVE  Told(ch, m)
<1>1. /\ ch.snapshot.epoch \in Nat \ {0} /\ epoch \in Nat
  BY ServerFacts
<1>2. epoch = ch.snapshot.epoch => epoch \in 1 .. ch.snapshot.epoch
  BY <1>1
<1>3. CASE m = [kind |-> "refuse"]
  BY <1>3 DEF Told
<1>4. CASE /\ m = [kind |-> "reset", epoch |-> epoch]
           /\ \/ running /\ phase = "replaced"
              \/ up[c] # <<>> /\ Head(up[c]).kind = "update" /\ Head(up[c]).epoch = epoch
  <2>1. CASE running /\ phase = "replaced"
    <3>1. epoch = ch.snapshot.epoch
      BY <2>1 DEF ServerInv, ChainInv
    <3> QED
      BY <1>2, <1>4, <3>1 DEF Told
  <2>2. CASE up[c] # <<>> /\ Head(up[c]).kind = "update" /\ Head(up[c]).epoch = epoch
    <3>1. up[c] \in Seq(Ups(Made))
      BY DEF TypeOK
    <3>2. In(Head(up[c]), up[c])
      BY <2>2, <3>1, InTail
    <3>3. epoch \in 1 .. ch.snapshot.epoch
      BY <2>2, <3>2, FrameFacts
    <3> QED
      BY <1>4, <3>3 DEF Told
  <2> QED
    BY <1>4, <2>1, <2>2
<1>5. CASE /\ running /\ phase = "idle"
           /\ \E a \in asks : m = [kind |-> "open", gen |-> a.gen, epoch |-> epoch, doc |-> live]
  <2>1. epoch = ch.snapshot.epoch /\ live = Durable(ch)
    BY <1>5 DEF ServerInv, InStep
  <2> QED
    BY <1>2, <1>5, <2>1 DEF Told
<1>6. CASE running /\ phase = "committed" /\ AckNew(c, m)
  <2>1. epoch = ch.snapshot.epoch /\ Durable(ch) = known \cup BatchEdits \cup extra
    BY <1>6 DEF ServerInv, ChainInv
  <2>2. \A i \in DOMAIN batch : batch[i].edits \subseteq Durable(ch)
    BY <2>1 DEF BatchEdits
  <2>3. extra \subseteq Durable(ch)
    BY <2>1
  <2> QED
    BY <1>2, <1>6, <2>1, <2>2, <2>3 DEF Told, AckNew
<1> QED
  BY <1>3, <1>4, <1>5, <1>6 DEF DownNew

LEMMA ToldStays ==
    ASSUME TypeOK, ServerInv, StoreStep, NEW m, Told(ch, m)
    PROVE  Told(ch', m)
<1>1. ch.snapshot.epoch \in Nat \ {0}
  BY ServerFacts
<1>2. CASE ch'.snapshot.epoch = ch.snapshot.epoch /\ Durable(ch) \subseteq Durable(ch')
  BY <1>2 DEF Told
<1>3. CASE ch'.snapshot.epoch = ch.snapshot.epoch + 1 /\ Durable(ch') = Durable(ch)
  BY <1>1, <1>3 DEF Told
<1> QED
  BY <1>2, <1>3 DEF StoreStep

LEMMA FrameStep ==
    ASSUME TypeOK, ServerInv, FrameInv, Next
    PROVE  FrameInv'
<1>1. Shaped /\ Made \subseteq Made' /\ \A c \in Clients : Moves(c)
  BY AllMoves
<1>2. StoreStep
  BY ServerStep
<1>3. ch.snapshot.epoch \in Nat \ {0}
  BY ServerFacts
<1>4. ch'.snapshot.epoch \in Nat /\ ch.snapshot.epoch <= ch'.snapshot.epoch
  BY <1>2, <1>3 DEF StoreStep
<1>5. ASSUME NEW c \in Clients
      PROVE  /\ prov'[c].epoch <= ch.snapshot.epoch /\ prov'[c].epoch \in Nat
             /\ prov'[c].epoch = NoEpoch =>
                  ~prov'[c].synced /\ prov'[c].doc = {} /\ prov'[c].outbox = {}
  <2> DEFINE p == prov[c]
             q == prov'[c]
  <2>1. Turns(c, p, q) /\ p \in Providers(Made) /\ q \in Providers(Made')
    BY <1>1, TurnsStep DEF Moves, TabsMoves, TypeOK
  <2>2. p.epoch \in Nat /\ q.epoch \in Nat
    BY <2>1, ProviderFields
  <2>3. /\ p.epoch <= ch.snapshot.epoch
        /\ p.epoch = NoEpoch => ~p.synced /\ p.doc = {} /\ p.outbox = {}
    BY FrameFacts
  <2>4. \A m : Takes(c, m) => m \in Downs(Made) /\ Told(ch, m)
    BY TakesIn, FrameFacts
  <2> HIDE DEF p, q
  <2>5. ASSUME Follows(p, q, {}), q.doc = p.doc
        PROVE  /\ q.epoch <= ch.snapshot.epoch
               /\ q.epoch = NoEpoch => ~q.synced /\ q.doc = {} /\ q.outbox = {}
    BY <2>3, <2>5 DEF Follows
  <2>6. ASSUME p.synced, Follows(p, q, {Coming})
        PROVE  q.epoch <= ch.snapshot.epoch /\ q.epoch # NoEpoch
    BY <2>3, <2>6 DEF Follows
  <2>7. ASSUME NEW m, Takes(c, m), m.kind = "update", Follows(p, q, {}),
               q.doc = IF m.epoch = p.epoch THEN p.doc \cup m.edits ELSE p.doc
        PROVE  /\ q.epoch <= ch.snapshot.epoch
               /\ q.epoch = NoEpoch => ~q.synced /\ q.doc = {} /\ q.outbox = {}
    <3>1. m.epoch \in 1 .. ch.snapshot.epoch
      BY <2>4, <2>7 DEF Told
    <3>2. m.epoch # NoEpoch
      BY <1>3, <3>1 DEF NoEpoch
    <3> QED
      BY <2>3, <2>7, <3>2 DEF Follows
  <2>8. ASSUME Replaced(p, q)
        PROVE  /\ q.epoch <= ch.snapshot.epoch
               /\ q.epoch = NoEpoch => ~q.synced /\ q.doc = {} /\ q.outbox = {}
    BY <1>3, <2>8 DEF Replaced, NoEpoch
  <2>9. ASSUME NEW m, Takes(c, m), m.kind = "open", q.epoch = m.epoch
        PROVE  q.epoch <= ch.snapshot.epoch /\ q.epoch # NoEpoch
    <3>1. m.epoch \in 1 .. ch.snapshot.epoch
      BY <2>4, <2>9 DEF Told
    <3> QED
      BY <1>3, <2>9, <3>1 DEF NoEpoch
  <2>10. /\ q.epoch <= ch.snapshot.epoch
         /\ q.epoch = NoEpoch => ~q.synced /\ q.doc = {} /\ q.outbox = {}
    BY <2>1, <2>5, <2>6, <2>7, <2>8, <2>9 DEF Turns
  <2> QED
    BY <2>2, <2>10 DEF q
<1>6. ASSUME NEW c \in Clients, NEW m, In(m, up'[c]), m.kind = "update"
      PROVE  m.epoch \in 1 .. ch'.snapshot.epoch
  <2>1. In(m, up[c]) \/ UpNew(c, m)
    BY <1>1, <1>6, UpIn DEF Moves, TabsMoves
  <2>2. CASE In(m, up[c])
    BY <1>3, <1>4, <1>6, <2>2, FrameFacts
  <2>3. CASE UpNew(c, m)
    <3>1. m.epoch = prov'[c].epoch /\ prov'[c].epoch # NoEpoch
      BY <1>6, <2>3 DEF UpNew
    <3> QED
      BY <1>3, <1>4, <1>5, <3>1 DEF NoEpoch
  <2> QED
    BY <2>1, <2>2, <2>3
<1>7. ASSUME NEW c \in Clients, NEW m, In(m, down'[c]) PROVE Told(ch', m)
  <2>1. In(m, down[c]) \/ DownNew(c, m)
    BY <1>1, <1>7, DownIn DEF Moves
  <2>2. Told(ch, m)
    BY <2>1, FrameFacts, NewTold
  <2> QED
    BY <1>2, <2>2, ToldStays
<1>8. ASSUME NEW c \in Clients
      PROVE  /\ prov'[c].epoch <= ch'.snapshot.epoch
             /\ prov'[c].epoch = NoEpoch =>
                  ~prov'[c].synced /\ prov'[c].doc = {} /\ prov'[c].outbox = {}
             /\ \A i \in DOMAIN up'[c] :
                  up'[c][i].kind = "update" => up'[c][i].epoch \in 1 .. ch'.snapshot.epoch
             /\ \A i \in DOMAIN down'[c] : Told(ch', down'[c][i])
  <2>1. prov'[c].epoch <= ch'.snapshot.epoch
    BY <1>3, <1>4, <1>5
  <2>2. \A i \in DOMAIN up'[c] : In(up'[c][i], up'[c])
    BY DEF In
  <2>3. \A i \in DOMAIN down'[c] : In(down'[c][i], down'[c])
    BY DEF In
  <2> QED
    BY <1>5, <1>6, <1>7, <2>1, <2>2, <2>3
<1> QED
  BY <1>8 DEF FrameInv, Told

LEMMA SeenStep ==
    ASSUME TypeOK, ServerInv, FrameInv, SeenDurable, Next
    PROVE  SeenDurable'
<1>1. \A c \in Clients : Moves(c)
  BY AllMoves
<1>2. StoreStep
  BY ServerStep
<1>3. ch.snapshot.epoch \in Nat \ {0}
  BY ServerFacts
<1>4. ASSUME NEW c \in Clients, prov'[c].epoch = ch'.snapshot.epoch
      PROVE  prov'[c].doc \subseteq Durable(ch') \cup prov'[c].mine
  <2> DEFINE p == prov[c]
             q == prov'[c]
             D == Durable(ch)
  <2>1. Turns(c, p, q) /\ p \in Providers(Made)
    BY <1>1, TurnsStep DEF Moves, TabsMoves, TypeOK
  <2>2. /\ p.epoch <= ch.snapshot.epoch /\ p.epoch \in Nat
        /\ p.epoch = NoEpoch => p.doc = {}
    BY <2>1, FrameFacts, ProviderFields
  <2>3. ch'.snapshot.epoch = ch.snapshot.epoch /\ D \subseteq Durable(ch')
    <3>1. CASE ch'.snapshot.epoch = ch.snapshot.epoch + 1 /\ prov' = prov
      BY <1>3, <1>4, <2>2, <3>1
    <3> QED
      BY <1>2, <3>1 DEF StoreStep
  <2>4. p.epoch = ch.snapshot.epoch => p.doc \subseteq D \cup p.mine
    BY DEF SeenDurable, Current
  <2>5. \A m : Takes(c, m) => Told(ch, m)
    BY TakesIn, FrameFacts
  <2>6. q.epoch = ch.snapshot.epoch
    BY <1>4, <2>3
  <2> HIDE DEF p, q, D
  <2>7. q.doc \subseteq D \cup q.mine
    <3>1. CASE Follows(p, q, {}) /\ q.doc = p.doc
      BY <2>4, <2>6, <3>1 DEF Follows
    <3>2. CASE Follows(p, q, {Coming}) /\ q.doc = p.doc \cup {Coming}
      BY <2>4, <2>6, <3>2 DEF Follows
    <3>3. ASSUME NEW m, Takes(c, m), m.kind = "update", Follows(p, q, {}),
                 q.doc = IF m.epoch = p.epoch THEN p.doc \cup m.edits ELSE p.doc
          PROVE  q.doc \subseteq D \cup q.mine
      <4>1. p.epoch = ch.snapshot.epoch /\ q.mine = p.mine
        BY <2>6, <3>3 DEF Follows
      <4>2. m.epoch = p.epoch => m.edits \subseteq D
        BY <2>5, <3>3, <4>1 DEF Told, D
      <4> QED
        BY <2>4, <3>3, <4>1, <4>2
    <3>4. CASE Replaced(p, q)
      BY <3>4 DEF Replaced
    <3>5. ASSUME NEW m, Takes(c, m), m.kind = "open", p.epoch = NoEpoch \/ p.epoch = m.epoch,
                 q.epoch = m.epoch, q.mine = p.mine, q.doc = p.doc \cup m.doc
          PROVE  q.doc \subseteq D \cup q.mine
      <4>1. m.doc \subseteq D
        BY <2>5, <2>6, <3>5 DEF Told, D
      <4>2. p.doc \subseteq D \cup p.mine
        BY <2>2, <2>4, <2>6, <3>5
      <4> QED
        BY <3>5, <4>1, <4>2
    <3> QED
      BY <2>1, <3>1, <3>2, <3>3, <3>4, <3>5 DEF Turns
  <2> QED
    BY <2>3, <2>7 DEF q
<1> QED
  BY <1>4 DEF SeenDurable, Current

-----------------------------------------------------------------------------
(* The first history: a tab has one provider, and an id one meaning.       *)

LEMMA CoversGrow ==
    ASSUME NEW M, NEW N, M \subseteq N, NEW p
    PROVE  \A y : Covers(p, y, M) => Covers(p, y, N)
  BY DEF Covers, Used

LEMMA OwnedTwice ==
    ASSUME NEW M, NEW N, NEW O, NEW p, NEW k, NEW q, Owned(p, k, M, N), Owned(k, q, N, O)
    PROVE  Owned(p, q, M, O)
  BY DEF Owned

LEMMA OwnedTidy ==
    ASSUME NEW M, NEW N, M \subseteq N, NEW p \in Providers(M), NEW q \in Providers(N),
           Regroups(p, q), q.mine = p.mine, \A x \in p.outbox : Covers(p, x, M)
    PROVE  Owned(p, q, M, N)
<1>1. p \in Providers(N)
  BY ProvidersGrow
<1>2. \A y : Covers(p, y, M) => Covers(p, y, N)
  BY CoversGrow
<1>3. \A x \in p.outbox : Covers(p, x, N)
  BY <1>2
<1>4. p.mine \subseteq q.mine
  OBVIOUS
<1>5. Owned(p, q, N, N)
  BY <1>1, <1>3, <1>4, OwnedRegroups
<1> QED
  BY <1>2, <1>5 DEF Owned

LEMMA OwnedMoves ==
    ASSUME TypeOK, NEW c \in Clients, TabsMoves(c), Made \subseteq Made',
           \A x \in prov[c].outbox : Covers(prov[c], x, Made),
           prov'[c].gen = prov[c].gen
    PROVE  Owned(prov[c], prov'[c], Made, Made')
<1> DEFINE p == prov[c]
           q == prov'[c]
<1>1. p \in Providers(Made) /\ q \in Providers(Made') /\ p.gen \in Nat /\ q.gen = p.gen
      /\ \A x \in p.outbox : Covers(p, x, Made)
  BY ProviderFields DEF TypeOK, TabsMoves
<1>2. p.counter \in Nat
  BY <1>1, ProviderFields
<1>3. \/ Tidy(p, q)
      \/ Made' = Made \cup {Coming} /\ Tidy(Keeping(p, Coming), q)
      \/ \E m : Takes(c, m) /\ m.kind = "ack" /\ q = Settle(p, m.id)
      \/ \E m : Takes(c, m) /\ m.kind = "update" /\ q = Remote(p, m.epoch, m.edits)
      \/ q.gen = p.gen + 1
      \/ \E m : /\ Takes(c, m) /\ m.kind = "open" /\ Tidy(Joined(p, m.epoch, m.doc), q)
  BY DEF TabsMoves, ProvMoves
<1> HIDE DEF p, q
<1>4. ASSUME Tidy(p, q) PROVE Owned(p, q, Made, Made')
  <2>1. Regroups(p, q) /\ q.mine = p.mine
    BY <1>4 DEF Tidy
  <2> QED
    BY <1>1, <2>1, OwnedTidy
<1>5. ASSUME Made' = Made \cup {Coming}, Tidy(Keeping(p, Coming), q)
      PROVE  Owned(p, q, Made, Made')
  <2> DEFINE k == Keeping(p, Coming)
  <2>1. Coming \in Nat /\ Made \in SUBSET Nat /\ Coming \notin Made
    BY DEF TypeOK, Coming, Made
  <2>2. k \in Providers(Made') /\ Owned(p, k, Made, Made')
    BY <1>1, <1>5, <2>1, OwnedKeeping
  <2>3. \A x \in k.outbox : Covers(k, x, Made')
    BY <2>2 DEF Owned
  <2> HIDE DEF k
  <2>4. Regroups(k, q) /\ q.mine = k.mine
    BY <1>5 DEF Tidy, k
  <2>5. Owned(k, q, Made', Made')
    BY <1>1, <2>2, <2>3, <2>4, OwnedTidy
  <2>6. Owned(p, k, Made, Made')
    BY <2>2
  <2> QED
    BY <2>5, <2>6, OwnedTwice
<1>6. ASSUME NEW m, q = Settle(p, m.id) PROVE Owned(p, q, Made, Made')
  <2>1. Same(p, q) /\ q.counter = p.counter /\ q.outbox = {e \in p.outbox : e.id # m.id}
    BY <1>1, <1>6, SettleFacts
  <2>2. p.mine \subseteq q.mine /\ p.counter <= q.counter
    BY <1>2, <2>1 DEF Same
  <2>3. \A x \in q.outbox : \E y \in p.outbox : y.id = x.id /\ y.edits = x.edits
    BY <2>1
  <2> QED
    BY <1>1, <2>2, <2>3, OwnedFollows
<1>7. ASSUME NEW m, q = Remote(p, m.epoch, m.edits) PROVE Owned(p, q, Made, Made')
  <2>1. p \in ProviderRecords(Made)
    BY <1>1, ProviderFields
  <2>2. q.mine = p.mine /\ q.outbox = p.outbox /\ q.counter = p.counter
    BY <1>7, <2>1 DEF Remote, ProviderRecords
  <2>3. p.mine \subseteq q.mine /\ p.counter <= q.counter
    BY <1>2, <2>2
  <2>4. \A x \in q.outbox : \E y \in p.outbox : y.id = x.id /\ y.edits = x.edits
    BY <2>2
  <2> QED
    BY <1>1, <2>3, <2>4, OwnedFollows
<1>8. ASSUME NEW m, Takes(c, m), m.kind = "open", Tidy(Joined(p, m.epoch, m.doc), q)
      PROVE  Owned(p, q, Made, Made')
  <2> DEFINE j == Joined(p, m.epoch, m.doc)
  <2>1. m \in Downs(Made)
    BY <1>8, TakesIn
  <2>2. m.epoch \in Nat /\ m.doc \in SUBSET Made
    BY <1>8, <2>1 DEF Downs
  <2>3. j \in Providers(Made) /\ Regroups(p, j) /\ j.mine = p.mine
    BY <1>1, <2>2, JoinedFacts
  <2> HIDE DEF j
  <2>4. Owned(p, j, Made, Made)
    BY <1>1, <2>3, OwnedTidy
  <2>5. \A x \in j.outbox : Covers(j, x, Made)
    BY <2>4 DEF Owned
  <2>6. Regroups(j, q) /\ q.mine = j.mine
    BY <1>8 DEF Tidy, j
  <2>7. Owned(j, q, Made, Made')
    BY <1>1, <2>3, <2>5, <2>6, OwnedTidy
  <2> QED
    BY <2>4, <2>7, OwnedTwice
<1>9. q.gen # p.gen + 1
  BY <1>1
<1>10. Owned(p, q, Made, Made')
  BY <1>3, <1>4, <1>5, <1>6, <1>7, <1>8, <1>9
<1> QED
  BY <1>10 DEF p, q

(* An acknowledgement on its way out names an item of its client's.        *)
LEMMA NewAck ==
    ASSUME NEW c \in Clients, NEW m, DownNew(c, m), m.kind = "ack"
    PROVE  \E x : In(x, batch) /\ x.client = c /\ m.id = x.id /\ m.edits = x.edits
<1>1. \E i \in DOMAIN batch :
        /\ batch[i].client = c
        /\ m = [kind |-> "ack", id |-> batch[i].id, edits |-> batch[i].edits]
  BY DEF DownNew, AckNew
<1> QED
  BY <1>1 DEF In

\* What OwnInv and FirstTab say of the frames and items themselves.
LEMMA OwnFacts ==
    ASSUME NEW c \in Clients, OwnInv(c), prov[c].gen = 1
    PROVE  /\ prov[c].mine \subseteq Durable(ch) \cup Held(prov[c])
           /\ \A x \in prov[c].outbox : Covers(prov[c], x, Made)
           /\ \A m : In(m, up[c]) /\ m.kind = "update" => Covers(prov[c], m, Made)
           /\ \A x : In(x, queue) /\ x.client = c => Covers(prov[c], x, Made)
           /\ \A x : In(x, batch) /\ x.client = c => Covers(prov[c], x, Made)
           /\ \A m : In(m, down[c]) /\ m.kind = "ack" => Covers(prov[c], m, Made)
  BY DEF OwnInv, In

LEMMA TabFacts ==
    ASSUME NEW c \in Clients, FirstTab(c)
    PROVE  /\ prov[c].gen = 1
           /\ \A m : In(m, up[c]) => IF m.kind = "update" THEN prov[c].epoch = 1 ELSE m.gen = 1
           /\ \A a \in asks : a.gen = 1
           /\ \A m : In(m, down[c]) =>
                /\ m.kind = "reset" => prov[c].epoch = 1
                /\ m.kind = "open" => m.gen = 1
  BY DEF FirstTab, In

(* A provider does not become a first one.                                 *)
LEMMA GenMoves ==
    ASSUME TypeOK, NEW c \in Clients, TabsMoves(c), prov'[c].gen = 1
    PROVE  prov[c].gen = 1 /\ ~Replaced(prov[c], prov'[c])
<1> DEFINE p == prov[c]
           q == prov'[c]
<1>1. Turns(c, p, q) /\ p \in Providers(Made)
  BY TurnsStep DEF TabsMoves, TypeOK
<1>2. p.gen \in Nat \ {0}
  BY <1>1, ProviderFields
<1>3. q.gen = p.gen \/ q.gen = p.gen + 1
  BY <1>1 DEF Turns, Follows, Replaced
<1> QED
  BY <1>2, <1>3 DEF Replaced

\* A provider of the first history is not replaced.
Lasts(p, q) ==
    /\ q.gen = p.gen /\ p.mine \subseteq q.mine /\ p.doc \subseteq q.doc
    /\ p.epoch = 1 => q.epoch = 1

LEMMA FirstLasts ==
    ASSUME TypeOK, FrameInv, NEW c \in Clients, FirstTab(c), TabsMoves(c), ch.snapshot.epoch = 1
    PROVE  Lasts(prov[c], prov'[c])
<1> DEFINE p == prov[c]
           q == prov'[c]
<1>1. Turns(c, p, q) /\ p \in Providers(Made)
  BY TurnsStep DEF TabsMoves, TypeOK
<1>2. p.epoch \in Nat /\ p.epoch <= 1
  BY <1>1, ProviderFields, FrameFacts
<1>3. ASSUME NEW m, Takes(c, m), m.kind \in {"reset", "open"}
      PROVE  m.epoch = 1 /\ (m.kind = "reset" => p.epoch = 1)
  <2>1. In(m, down[c]) /\ Told(ch, m)
    BY <1>3, TakesIn, FrameFacts
  <2>2. m.epoch \in 1 .. 1
    BY <1>3, <2>1 DEF Told
  <2> QED
    BY <1>3, <2>1, <2>2, TabFacts
<1> HIDE DEF p, q
<1>4. ASSUME NEW s, Follows(p, q, s), p.doc \subseteq q.doc PROVE Lasts(p, q)
  BY <1>4 DEF Follows, Lasts
<1>5. ASSUME NEW m, Takes(c, m), m.kind \in {"reset", "open"}, m.epoch # p.epoch,
             m.kind = "open" => p.epoch # NoEpoch
      PROVE  FALSE
  BY <1>2, <1>3, <1>5 DEF NoEpoch
<1>6. ASSUME NEW m, Takes(c, m), m.kind = "open", q.gen = p.gen, q.epoch = m.epoch,
             q.mine = p.mine, q.doc = p.doc \cup m.doc
      PROVE  Lasts(p, q)
  BY <1>3, <1>6 DEF Lasts
<1>7. Lasts(p, q)
  BY <1>1, <1>4, <1>5, <1>6 DEF Turns
<1> QED
  BY <1>7 DEF p, q

(* As long as its provider stays, what leaves an outbox is acknowledged.   *)
LEMMA HeldMoves ==
    ASSUME TypeOK, NEW c \in Clients, TabsMoves(c), ~Replaced(prov[c], prov'[c]),
           prov[c].mine \subseteq Durable(ch) \cup Held(prov[c]),
           \A m : Takes(c, m) /\ m.kind = "ack" =>
                    \A x \in prov[c].outbox : x.id = m.id => x.edits \subseteq Durable(ch)
    PROVE  prov'[c].mine \subseteq Durable(ch) \cup Held(prov'[c])
<1> DEFINE p == prov[c]
           q == prov'[c]
           D == Durable(ch)
<1>1. Turns(c, p, q)
  BY TurnsStep DEF TabsMoves
<1>2. p.mine \subseteq D \cup Held(p)
  OBVIOUS
<1>3. \A m : Takes(c, m) /\ m.kind = "ack" => \A x \in p.outbox : x.id = m.id => x.edits \subseteq D
  OBVIOUS
<1>4. ~Replaced(p, q)
  OBVIOUS
<1> HIDE DEF p, q, D
<1>5. ASSUME q.mine = p.mine, Held(q) = Held(p) PROVE q.mine \subseteq D \cup Held(q)
  BY <1>2, <1>5
<1>6. ASSUME Follows(p, q, {Coming}), Held(q) = Held(p) \cup {Coming}
      PROVE  q.mine \subseteq D \cup Held(q)
  BY <1>2, <1>6 DEF Follows
<1>7. ASSUME NEW m, Takes(c, m), m.kind = "ack", Follows(p, q, {}),
             q.outbox = {e \in p.outbox : e.id # m.id}
      PROVE  q.mine \subseteq D \cup Held(q)
  <2>1. \A e \in p.outbox : e.id = m.id => e.edits \subseteq D
    BY <1>3, <1>7
  <2>2. Held(p) \subseteq D \cup Held(q)
    <3>1. ASSUME NEW e \in p.outbox, NEW z \in e.edits PROVE z \in D \cup Held(q)
      <4>1. CASE e.id = m.id
        BY <2>1, <3>1, <4>1
      <4>2. CASE e.id # m.id
        BY <1>7, <3>1, <4>2 DEF Held
      <4> QED
        BY <4>1, <4>2
    <3> QED
      BY <3>1 DEF Held
  <2>3. q.mine = p.mine
    BY <1>7 DEF Follows
  <2> QED
    BY <1>2, <2>2, <2>3
<1>8. \A t : Follows(p, q, t) => q.mine = p.mine \cup t
  BY DEF Follows
<1>9. ASSUME q.mine = p.mine, Held(q) = Held(p) \/ Held(p) \subseteq Held(q)
      PROVE  q.mine \subseteq D \cup Held(q)
  BY <1>2, <1>9
<1>10. Follows(p, q, {}) => q.mine = p.mine
  BY <1>8
<1>11. q.mine \subseteq D \cup Held(q)
  <2>1. CASE Follows(p, q, {}) /\ q.doc = p.doc /\ Held(q) = Held(p)
    BY <1>9, <1>10, <2>1
  <2>2. CASE Follows(p, q, {Coming}) /\ Held(q) = Held(p) \cup {Coming}
    BY <1>6, <2>2
  <2>3. CASE \E m : /\ Takes(c, m) /\ m.kind = "ack" /\ Follows(p, q, {})
                    /\ q.outbox = {e \in p.outbox : e.id # m.id}
    BY <1>7, <2>3
  <2>4. CASE Follows(p, q, {}) /\ Held(q) = Held(p)
    BY <1>9, <1>10, <2>4
  <2>5. CASE q.mine = p.mine /\ Held(q) = Held(p)
    BY <1>9, <2>5
  <2> QED
    BY <1>1, <1>4, <2>1, <2>2, <2>3, <2>4, <2>5 DEF Turns
<1> QED
  BY <1>11 DEF q, D

LEMMA OwnHeld ==
    ASSUME TypeOK, FrameInv, NEW c \in Clients, OwnInv(c), TabsMoves(c), prov'[c].gen = 1
    PROVE  prov'[c].mine \subseteq Durable(ch) \cup Held(prov'[c])
<1>1. prov[c].gen = 1 /\ ~Replaced(prov[c], prov'[c])
  BY GenMoves
<1>2. prov[c].mine \subseteq Durable(ch) \cup Held(prov[c])
  BY <1>1, OwnFacts
<1>3. ASSUME NEW m, Takes(c, m), m.kind = "ack", NEW x \in prov[c].outbox, x.id = m.id
      PROVE  x.edits \subseteq Durable(ch)
  <2>1. In(m, down[c])
    BY <1>3, TakesIn
  <2>2. Covers(prov[c], m, Made)
    BY <1>1, <1>3, <2>1, OwnFacts
  <2>3. m.edits \subseteq Durable(ch)
    BY <1>3, <2>1, FrameFacts DEF Told
  <2> QED
    BY <1>3, <2>2, <2>3 DEF Covers
<1> QED
  BY <1>1, <1>2, <1>3, HeldMoves

LEMMA OwnStep ==
    ASSUME TypeOK, ServerInv, FrameInv, Next, NEW c \in Clients, OwnInv(c)
    PROVE  OwnInv(c)'
<1> SUFFICES ASSUME prov'[c].gen = 1 PROVE OwnInv(c)'
  BY DEF OwnInv
<1> DEFINE p == prov[c]
           q == prov'[c]
<1>1. Made \subseteq Made' /\ TabsMoves(c) /\ DownMoves(c)
  BY AllMoves DEF Moves
<1>2. p.gen = 1
  BY <1>1, GenMoves
<1>3. /\ \A x \in p.outbox : Covers(p, x, Made)
      /\ \A m : In(m, up[c]) /\ m.kind = "update" => Covers(p, m, Made)
      /\ \A x : In(x, queue) /\ x.client = c => Covers(p, x, Made)
      /\ \A x : In(x, batch) /\ x.client = c => Covers(p, x, Made)
      /\ \A m : In(m, down[c]) /\ m.kind = "ack" => Covers(p, m, Made)
  BY <1>2, OwnFacts
<1>4. Durable(ch) \subseteq Durable(ch')
  BY ServerStep DEF StoreStep
<1>5. Owned(p, q, Made, Made')
  BY <1>1, <1>2, <1>3, OwnedMoves
<1>6. q.mine \subseteq Durable(ch') \cup Held(q)
  BY <1>1, <1>4, OwnHeld
<1>7. \A x \in q.outbox : Covers(q, x, Made')
  BY <1>5 DEF Owned
<1>8. /\ up[c] \in Seq(Ups(Made)) /\ down[c] \in Seq(Downs(Made)) /\ c # NoClient
      /\ queue \in Seq(Items(Made)) /\ batch \in Seq(Items(Made))
  BY ClientAssumption DEF TypeOK
<1>9. ASSUME NEW y, y.id \in Ids, Covers(p, y, Made) PROVE Covers(q, y, Made')
  BY <1>5, <1>9 DEF Owned
<1>10. \A x : In(x, queue) \/ In(x, batch) => x.id \in Ids
  <2>1. \A x : In(x, queue) \/ In(x, batch) => x \in Items(Made)
    BY <1>8 DEF In
  <2> QED
    BY <2>1 DEF Items
<1>11. QueueMoves
  BY QueueStep
<1> HIDE DEF p, q
<1>12. ASSUME NEW m, In(m, up'[c]), m.kind = "update" PROVE Covers(q, m, Made')
  <2>1. In(m, up[c]) \/ UpNew(c, m)
    BY <1>1, <1>12, UpIn DEF TabsMoves
  <2>2. CASE In(m, up[c])
    <3>1. m \in Ups(Made)
      BY <1>8, <2>2 DEF In
    <3>2. m.id \in Ids
      BY <1>12, <3>1 DEF Ups
    <3> QED
      BY <1>3, <1>9, <1>12, <2>2, <3>2
  <2>3. CASE UpNew(c, m)
    <3>1. PICK x \in q.outbox : m.id = x.id /\ m.edits = x.edits
      BY <1>12, <2>3 DEF UpNew, q
    <3> QED
      BY <1>7, <3>1 DEF Covers
  <2> QED
    BY <2>1, <2>2, <2>3
<1>13. ASSUME NEW x, NEW y, From(x, y), x.client = c, In(y, queue) \/ In(y, batch)
       PROVE  Covers(q, x, Made')
  <2>1. y.client = c /\ x.id = y.id /\ x.edits = y.edits
    BY <1>8, <1>13 DEF From
  <2>2. Covers(q, y, Made')
    BY <1>3, <1>9, <1>10, <1>13, <2>1
  <2> QED
    BY <2>1, <2>2 DEF Covers
<1>14. ASSUME NEW x, In(x, queue'), x.client = c PROVE Covers(q, x, Made')
  <2>1. ASSUME NEW d \in Clients, up[d] # <<>>, Head(up[d]).kind = "update", x = Arrived(d)
        PROVE  Covers(q, x, Made')
    <3>1. d = c /\ x.id = Head(up[c]).id /\ x.edits = Head(up[c]).edits
      BY <1>14, <2>1 DEF Arrived
    <3>2. In(Head(up[c]), up[c]) /\ Head(up[c]) \in Ups(Made)
      BY <1>8, <2>1, <3>1, InTail
    <3>3. Head(up[c]).id \in Ids
      BY <2>1, <3>1, <3>2 DEF Ups
    <3>4. Covers(q, Head(up[c]), Made')
      BY <1>3, <1>9, <2>1, <3>1, <3>2, <3>3
    <3> QED
      BY <3>1, <3>4 DEF Covers
  <2> QED
    BY <1>11, <1>13, <1>14, <2>1 DEF QueueMoves
<1>15. ASSUME NEW x, In(x, batch'), x.client = c PROVE Covers(q, x, Made')
  BY <1>11, <1>13, <1>15 DEF QueueMoves
<1>16. ASSUME NEW m, In(m, down'[c]), m.kind = "ack" PROVE Covers(q, m, Made')
  <2>1. In(m, down[c]) \/ DownNew(c, m)
    BY <1>1, <1>16, DownIn
  <2>2. CASE In(m, down[c])
    <3>1. m \in Downs(Made)
      BY <1>8, <2>2 DEF In
    <3>2. m.id \in Ids
      BY <1>16, <3>1 DEF Downs
    <3> QED
      BY <1>3, <1>9, <1>16, <2>2, <3>2
  <2>3. CASE DownNew(c, m)
    <3>1. PICK x : In(x, batch) /\ x.client = c /\ m.id = x.id /\ m.edits = x.edits
      BY <1>16, <2>3, NewAck
    <3>2. Covers(q, x, Made')
      BY <1>3, <1>9, <1>10, <3>1
    <3> QED
      BY <3>1, <3>2 DEF Covers
  <2> QED
    BY <2>1, <2>2, <2>3
<1> QED
  <2>1. \A s : \A i \in DOMAIN s : In(s[i], s)
    BY DEF In
  <2>2. \A i \in DOMAIN up'[c] : up'[c][i].kind = "update" => Covers(q, up'[c][i], Made')
    BY <1>12, <2>1
  <2>3. /\ \A i \in DOMAIN queue' : queue'[i].client = c => Covers(q, queue'[i], Made')
        /\ \A i \in DOMAIN batch' : batch'[i].client = c => Covers(q, batch'[i], Made')
    BY <1>14, <1>15, <2>1
  <2>4. \A i \in DOMAIN down'[c] : down'[c][i].kind = "ack" => Covers(q, down'[c][i], Made')
    BY <1>16, <2>1
  <2> QED
    BY <1>6, <1>7, <2>2, <2>3, <2>4 DEF OwnInv, q

(* While the first history lasts nothing tells a tab to start again.       *)
LEMMA FirstTabStep ==
    ASSUME TypeOK, ServerInv, FrameInv, Next, NEW c \in Clients, \A d \in Clients : FirstTab(d),
           ch.snapshot.epoch = 1, ch'.snapshot.epoch = 1
    PROVE  FirstTab(c)'
<1> DEFINE p == prov[c]
           q == prov'[c]
<1>1. TabsMoves(c) /\ DownMoves(c) /\ Made \subseteq Made'
  BY AllMoves DEF Moves
<1>2. Lasts(p, q)
  BY <1>1, FirstLasts
<1>3. /\ p.gen = 1
      /\ \A m : In(m, up[c]) => IF m.kind = "update" THEN p.epoch = 1 ELSE m.gen = 1
      /\ \A a \in asks : a.gen = 1
      /\ \A m : In(m, down[c]) =>
           /\ m.kind = "reset" => p.epoch = 1
           /\ m.kind = "open" => m.gen = 1
  BY TabFacts
<1>4. q.gen = 1 /\ (p.epoch = 1 => q.epoch = 1)
  BY <1>2, <1>3 DEF Lasts
<1>5. q.epoch \in Nat /\ q.epoch <= 1
  <2>1. FrameInv'
    BY FrameStep
  <2>2. q.epoch <= 1
    BY <2>1 DEF FrameInv
  <2> QED
    BY <1>1, <2>2, ProviderFields DEF TabsMoves
<1>6. /\ down[c] \in Seq(Downs(Made)) /\ \A d \in Clients : up[d] \in Seq(Ups(Made))
  BY DEF TypeOK
<1>7. QueueMoves
  BY QueueStep
<1> HIDE DEF p, q
<1>8. ASSUME NEW m, In(m, up'[c]) PROVE IF m.kind = "update" THEN q.epoch = 1 ELSE m.gen = 1
  <2>1. In(m, up[c]) \/ UpNew(c, m)
    BY <1>1, <1>8, UpIn DEF TabsMoves
  <2>2. CASE In(m, up[c])
    BY <1>3, <1>4, <2>2
  <2>3. CASE UpNew(c, m)
    BY <1>4, <1>5, <2>3 DEF UpNew, NoEpoch, q
  <2> QED
    BY <2>1, <2>2, <2>3
<1>9. \A a \in asks' : a.gen = 1
  <2>1. ASSUME NEW d \in Clients, up[d] # <<>>, Head(up[d]).kind = "open"
        PROVE  Head(up[d]).gen = 1
    <3>1. In(Head(up[d]), up[d])
      BY <1>6, <2>1, InTail
    <3> QED
      BY <2>1, <3>1, TabFacts
  <2> QED
    BY <1>3, <1>7, <2>1 DEF QueueMoves
<1>10. ASSUME NEW m, In(m, down'[c])
       PROVE  /\ m.kind = "reset" => q.epoch = 1
              /\ m.kind = "open" => m.gen = 1
  <2>1. In(m, down[c]) \/ DownNew(c, m)
    BY <1>1, <1>10, DownIn
  <2>2. CASE In(m, down[c])
    BY <1>3, <1>4, <2>2
  <2>3. CASE m = [kind |-> "refuse"]
    BY <2>3
  <2>4. CASE /\ m = [kind |-> "reset", epoch |-> epoch]
             /\ running /\ phase = "replaced"
    <3>1. epoch > 1 /\ epoch = 1
      BY <2>4 DEF ServerInv, ChainInv
    <3> QED
      BY <3>1
  <2>5. CASE /\ m = [kind |-> "reset", epoch |-> epoch]
             /\ up[c] # <<>> /\ Head(up[c]).kind = "update" /\ Head(up[c]).epoch = epoch
    <3>1. In(Head(up[c]), up[c])
      BY <1>6, <2>5, InTail
    <3> QED
      BY <1>3, <1>4, <2>5, <3>1
  <2>6. CASE \E a \in asks : m = [kind |-> "open", gen |-> a.gen, epoch |-> epoch, doc |-> live]
    BY <1>3, <2>6
  <2>7. CASE AckNew(c, m)
    BY <2>7 DEF AckNew
  <2> QED
    BY <2>1, <2>2, <2>3, <2>4, <2>5, <2>6, <2>7 DEF DownNew
<1> QED
  <2>1. \A s : \A i \in DOMAIN s : In(s[i], s)
    BY DEF In
  <2>2. \A i \in DOMAIN up'[c] :
          IF up'[c][i].kind = "update" THEN q.epoch = 1 ELSE up'[c][i].gen = 1
    BY <1>8, <2>1
  <2>3. \A i \in DOMAIN down'[c] :
          LET m == down'[c][i]
          IN  /\ m.kind = "reset" => q.epoch = 1
              /\ m.kind = "open" => m.gen = 1
    BY <1>10, <2>1
  <2> QED
    BY <1>4, <1>9, <2>2, <2>3 DEF FirstTab, q

-----------------------------------------------------------------------------
(* Whichever provider made it, the id of an edit has one meaning.          *)

\* What PlainInv asks of a provider by itself.
PlainTab(p) ==
    /\ Cardinality(p.mine) <= p.counter
    /\ \A x \in p.outbox : Plain(x)
    /\ ~Merged(p) => \A x \in p.outbox : x.id[1] = "edit"

LEMMA EditCount ==
    ASSUME TypeOK, NEW M \in SUBSET Made
    PROVE  IsFiniteSet(M) /\ Cardinality(M) \in Nat
<1>1. deps \in Seq(SUBSET Edits)
  BY DEF TypeOK
<1>2. Made = 1 .. Len(deps) /\ Len(deps) \in Nat
  BY <1>1 DEF Made
<1>3. IsFiniteSet(Made)
  BY <1>2, FS_Interval
<1> QED
  BY <1>3, FS_Subset, FS_CardinalityType

LEMMA PlainRegroups ==
    ASSUME NEW M, NEW N, NEW p \in Providers(M), NEW q \in Providers(N), Regroups(p, q),
           q.mine = p.mine, Cardinality(p.mine) \in Nat, PlainTab(p)
    PROVE  PlainTab(q) /\ (~Merged(q) => ~Merged(p))
<1>1. p.counter \in Nat /\ q.counter \in Nat /\ p.counter <= q.counter /\ q.outbox \subseteq Entries(N)
  BY ProviderFields DEF Regroups
<1>2. \A x \in q.outbox :
        \/ \E y \in p.outbox : y.id = x.id /\ y.edits = x.edits
        \/ x.id[1] = "merged" /\ x.id[2] >= p.counter /\ x.id[2] < q.counter
  BY DEF Regroups
<1>3. Cardinality(q.mine) = Cardinality(p.mine)
  OBVIOUS
<1>4. Cardinality(q.mine) <= q.counter
  BY <1>1, <1>3 DEF PlainTab
<1>5. \A x \in q.outbox : Plain(x)
  BY <1>2 DEF PlainTab, Plain
<1>6. ASSUME ~Merged(q) PROVE ~Merged(p) /\ q.counter = p.counter
  BY <1>1, <1>3, <1>6 DEF Merged, PlainTab
<1>7. ASSUME ~Merged(q), NEW x \in q.outbox PROVE x.id[1] = "edit"
  <2>1. x.id[2] \in Nat
    BY <1>1 DEF Entries, Ids
  <2>2. PICK y \in p.outbox : y.id = x.id
    BY <1>1, <1>2, <1>6, <1>7, <2>1
  <2> QED
    BY <1>6, <1>7, <2>2 DEF PlainTab
<1> QED
  BY <1>4, <1>5, <1>6, <1>7 DEF PlainTab

LEMMA PlainKeeping ==
    ASSUME NEW M \in SUBSET Nat, NEW p \in Providers(M), NEW e \in Nat, e \notin M,
           IsFiniteSet(p.mine), PlainTab(p)
    PROVE  PlainTab(Keeping(p, e)) /\ (~Merged(Keeping(p, e)) => ~Merged(p))
<1> DEFINE k == Keeping(p, e)
           x == [id |-> <<"edit", e>>, edits |-> {e}, unsent |-> TRUE, sends |-> 0]
<1>1. M \cup {e} \in SUBSET Nat /\ e \in M \cup {e} /\ p \in Providers(M \cup {e})
  BY ProvidersGrow
<1>2. /\ k.mine = p.mine \cup {e} /\ k.counter = p.counter + 1 /\ k.outbox = p.outbox \cup {x}
  BY <1>1, KeepingFacts
<1>3. e \notin p.mine /\ p.counter \in Nat
  BY ProviderFields
<1>4. Cardinality(p.mine \cup {e}) = Cardinality(p.mine) + 1 /\ Cardinality(p.mine) \in Nat
  BY <1>3, FS_AddElement, FS_CardinalityType
<1>5. x.id = <<"edit", e>> /\ x.edits = {e} /\ x.id[1] = "edit" /\ x.id[2] = e
  OBVIOUS
<1> HIDE DEF k, x
<1>6. Cardinality(k.mine) <= k.counter
  BY <1>2, <1>3, <1>4 DEF PlainTab
<1>7. \A y \in k.outbox : Plain(y)
  BY <1>2, <1>5 DEF PlainTab, Plain
<1>8. ~Merged(k) => ~Merged(p)
  BY <1>2, <1>3, <1>4 DEF Merged
<1>9. ~Merged(k) => \A y \in k.outbox : y.id[1] = "edit"
  BY <1>2, <1>5, <1>8 DEF PlainTab
<1> QED
  BY <1>6, <1>7, <1>8, <1>9 DEF PlainTab, k

LEMMA PlainMoves ==
    ASSUME TypeOK, NEW c \in Clients, TabsMoves(c), Made \subseteq Made', PlainTab(prov[c])
    PROVE  /\ PlainTab(prov'[c])
           /\ ~Merged(prov'[c]) /\ ~Replaced(prov[c], prov'[c]) => ~Merged(prov[c])
<1> DEFINE p == prov[c]
           q == prov'[c]
           Goal == PlainTab(q) /\ (~Merged(q) /\ ~Replaced(p, q) => ~Merged(p))
<1>1. p \in Providers(Made) /\ q \in Providers(Made') /\ ProvMoves(c)
  BY DEF TypeOK, TabsMoves
<1>2. /\ p.mine \subseteq Made /\ IsFiniteSet(p.mine) /\ Cardinality(p.mine) \in Nat
      /\ q.counter \in Nat
  BY <1>1, ProviderFields, EditCount
<1>3. PlainTab(p)
  OBVIOUS
<1>4. \/ Tidy(p, q)
      \/ Made' = Made \cup {Coming} /\ Tidy(Keeping(p, Coming), q)
      \/ \E m : Takes(c, m) /\ m.kind = "ack" /\ q = Settle(p, m.id)
      \/ \E m : Takes(c, m) /\ m.kind = "update" /\ q = Remote(p, m.epoch, m.edits)
      \/ Replaced(p, q)
      \/ \E m : Takes(c, m) /\ m.kind = "open" /\ Tidy(Joined(p, m.epoch, m.doc), q)
  BY <1>1 DEF ProvMoves, Replaced
<1>5. \A m : Takes(c, m) => m \in Downs(Made)
  BY TakesIn
<1>6. Made \in SUBSET Nat /\ Coming \in Nat /\ Coming \notin Made
  <2>1. deps \in Seq(SUBSET Edits)
    BY DEF TypeOK
  <2> QED
    BY <2>1 DEF Made, Coming
<1> HIDE DEF p, q
<1>7. ASSUME NEW M, NEW k \in Providers(M), Tidy(k, q), Cardinality(k.mine) \in Nat, PlainTab(k)
      PROVE  PlainTab(q) /\ (~Merged(q) => ~Merged(k))
  BY <1>1, <1>7, PlainRegroups DEF Tidy
<1>8. ASSUME Tidy(p, q) PROVE Goal
  BY <1>1, <1>2, <1>3, <1>7, <1>8
<1>9. ASSUME Tidy(Keeping(p, Coming), q) PROVE Goal
  <2> DEFINE k == Keeping(p, Coming)
             N == Made \cup {Coming}
  <2>1. PlainTab(k) /\ (~Merged(k) => ~Merged(p))
    BY <1>1, <1>2, <1>3, <1>6, PlainKeeping
  <2>2. N \in SUBSET Nat /\ Coming \in N /\ p \in Providers(N)
    BY <1>1, <1>6, ProvidersGrow
  <2>3. k \in Providers(N) /\ k.mine = p.mine \cup {Coming}
    BY <2>2, KeepingFacts
  <2>4. Cardinality(k.mine) \in Nat
    BY <1>2, <2>3, FS_AddElement, FS_CardinalityType
  <2> HIDE DEF k, N
  <2> QED
    BY <1>7, <1>9, <2>1, <2>3, <2>4 DEF k
<1>10. ASSUME NEW m, q = Settle(p, m.id) PROVE Goal
  <2>1. q.mine = p.mine /\ q.counter = p.counter /\ q.outbox \subseteq p.outbox
    BY <1>1, <1>10, SettleFacts DEF Same
  <2>2. Merged(q) <=> Merged(p)
    BY <2>1 DEF Merged
  <2> QED
    BY <1>3, <2>1, <2>2 DEF PlainTab
<1>11. ASSUME NEW m, Takes(c, m), m.kind = "update", q = Remote(p, m.epoch, m.edits) PROVE Goal
  <2>1. m.edits \in SUBSET Made
    BY <1>5, <1>11 DEF Downs
  <2>2. Regroups(p, Remote(p, m.epoch, m.edits)) /\ Remote(p, m.epoch, m.edits).mine = p.mine
    <3>1. ASSUME NEW s \in SUBSET Made, NEW ep
          PROVE  Regroups(p, Remote(p, ep, s)) /\ Remote(p, ep, s).mine = p.mine
      <4>1. Regroups(p, Remote(p, ep, s))
        BY <1>1, RemoteFacts
      <4>2. p \in ProviderRecords(Made)
        BY <1>1, ProviderFields
      <4>3. Remote(p, ep, s).mine = p.mine
        BY <4>2 DEF Remote, ProviderRecords
      <4> QED
        BY <4>1, <4>3
    <3> QED
      BY <2>1, <3>1
  <2>3. Regroups(p, q) /\ q.mine = p.mine
    BY <1>11, <2>2
  <2> QED
    BY <1>1, <1>2, <1>3, <2>3, PlainRegroups
<1>12. ASSUME Replaced(p, q) PROVE Goal
  <2>1. q.mine = {} /\ q.outbox = {}
    BY <1>12 DEF Replaced
  <2>2. Cardinality(q.mine) = 0
    BY <2>1, FS_EmptySet
  <2> QED
    BY <1>2, <1>12, <2>1, <2>2 DEF PlainTab
<1>13. ASSUME NEW m, Takes(c, m), m.kind = "open", Tidy(Joined(p, m.epoch, m.doc), q) PROVE Goal
  <2> DEFINE k == Joined(p, m.epoch, m.doc)
  <2>1. m.epoch \in Nat /\ m.doc \in SUBSET Made
    BY <1>5, <1>13 DEF Downs
  <2>2. k \in Providers(Made) /\ Regroups(p, k) /\ k.mine = p.mine
    BY <1>1, <2>1, JoinedFacts
  <2> HIDE DEF k
  <2>3. PlainTab(k) /\ (~Merged(k) => ~Merged(p))
    BY <1>1, <1>2, <1>3, <2>2, PlainRegroups
  <2>4. Cardinality(k.mine) \in Nat
    BY <1>2, <2>2
  <2> QED
    BY <1>7, <1>13, <2>2, <2>3, <2>4 DEF k
<1>14. Goal
  <2> HIDE DEF Goal
  <2> QED
    BY <1>4, <1>8, <1>9, <1>10, <1>11, <1>12, <1>13
<1> QED
  BY <1>14 DEF p, q

\* What PlainInv says of the frames and items themselves.
LEMMA PlainFacts ==
    ASSUME PlainInv
    PROVE  /\ \A x : In(x, queue) \/ In(x, batch) => Plain(x)
           /\ \A c \in Clients :
                /\ PlainTab(prov[c])
                /\ ~Merged(prov[c]) => prov[c].mine \subseteq Durable(ch) \cup Held(prov[c])
                /\ \A m : In(m, up[c]) /\ m.kind = "update" => Plain(m)
                /\ \A m : In(m, down[c]) /\ m.kind = "ack" => Plain(m)
  BY DEF PlainInv, PlainTab, In

LEMMA PlainHeld ==
    ASSUME TypeOK, FrameInv, PlainInv, NEW c \in Clients, TabsMoves(c), Made \subseteq Made',
           ~Merged(prov'[c])
    PROVE  prov'[c].mine \subseteq Durable(ch) \cup Held(prov'[c])
<1>1. CASE Replaced(prov[c], prov'[c])
  BY <1>1 DEF Replaced
<1>2. CASE ~Replaced(prov[c], prov'[c])
  <2>1. ~Merged(prov[c]) /\ PlainTab(prov[c])
    BY <1>2, PlainFacts, PlainMoves
  <2>2. prov[c].mine \subseteq Durable(ch) \cup Held(prov[c])
    BY <2>1, PlainFacts
  <2>3. ASSUME NEW m, Takes(c, m), m.kind = "ack", NEW x \in prov[c].outbox, x.id = m.id
        PROVE  x.edits \subseteq Durable(ch)
    <3>1. In(m, down[c])
      BY <2>3, TakesIn
    <3>2. Plain(m) /\ m.edits \subseteq Durable(ch)
      BY <2>3, <3>1, PlainFacts, FrameFacts DEF Told
    <3>3. Plain(x) /\ x.id[1] = "edit"
      BY <2>1 DEF PlainTab
    <3> QED
      BY <2>3, <3>2, <3>3 DEF Plain
  <2> QED
    BY <1>2, <2>2, <2>3, HeldMoves
<1> QED
  BY <1>1, <1>2

LEMMA PlainStep ==
    ASSUME TypeOK, ServerInv, FrameInv, PlainInv, Next
    PROVE  PlainInv'
<1>1. Made \subseteq Made' /\ \A c \in Clients : TabsMoves(c) /\ DownMoves(c)
  BY AllMoves DEF Moves
<1>2. Durable(ch) \subseteq Durable(ch')
  BY ServerStep DEF StoreStep
<1>3. \A c \in Clients : PlainTab(prov'[c])
  BY <1>1, PlainFacts, PlainMoves
<1>4. ASSUME NEW c \in Clients, ~Merged(prov'[c])
      PROVE  prov'[c].mine \subseteq Durable(ch') \cup Held(prov'[c])
  BY <1>1, <1>2, <1>4, PlainHeld
<1>5. ASSUME NEW c \in Clients, NEW m, In(m, up'[c]), m.kind = "update" PROVE Plain(m)
  <2>1. In(m, up[c]) \/ UpNew(c, m)
    BY <1>1, <1>5, UpIn DEF TabsMoves
  <2>2. CASE In(m, up[c])
    BY <1>5, <2>2, PlainFacts
  <2>3. CASE UpNew(c, m)
    <3>1. PICK x \in prov'[c].outbox : m.id = x.id /\ m.edits = x.edits
      BY <1>5, <2>3 DEF UpNew
    <3> QED
      BY <1>3, <3>1 DEF PlainTab, Plain
  <2> QED
    BY <2>1, <2>2, <2>3
<1>6. ASSUME NEW c \in Clients, NEW m, In(m, down'[c]), m.kind = "ack" PROVE Plain(m)
  <2>1. In(m, down[c]) \/ DownNew(c, m)
    BY <1>1, <1>6, DownIn
  <2>2. CASE In(m, down[c])
    BY <1>6, <2>2, PlainFacts
  <2>3. CASE DownNew(c, m)
    <3>1. PICK x : In(x, batch) /\ m.id = x.id /\ m.edits = x.edits
      BY <1>6, <2>3, NewAck
    <3> QED
      BY <3>1, PlainFacts DEF Plain
  <2> QED
    BY <2>1, <2>2, <2>3
<1>7. QueueMoves
  BY QueueStep
<1>8. ASSUME NEW x, NEW y, From(x, y), In(y, queue) \/ In(y, batch) PROVE Plain(x)
  BY <1>8, PlainFacts DEF From, Plain
<1>9. ASSUME NEW d \in Clients, up[d] # <<>>, Head(up[d]).kind = "update" PROVE Plain(Arrived(d))
  <2>1. up[d] \in Seq(Ups(Made))
    BY DEF TypeOK
  <2>2. In(Head(up[d]), up[d])
    BY <1>9, <2>1, InTail
  <2>3. Arrived(d).id = Head(up[d]).id /\ Arrived(d).edits = Head(up[d]).edits
    BY DEF Arrived
  <2> QED
    BY <1>9, <2>2, <2>3, PlainFacts DEF Plain
<1>10. \A x : In(x, queue') \/ In(x, batch') => Plain(x)
  BY <1>7, <1>8, <1>9 DEF QueueMoves
<1> QED
  <2>1. \A s : \A i \in DOMAIN s : In(s[i], s)
    BY DEF In
  <2>2. \A c \in Clients :
          /\ \A i \in DOMAIN up'[c] : up'[c][i].kind = "update" => Plain(up'[c][i])
          /\ \A i \in DOMAIN down'[c] : down'[c][i].kind = "ack" => Plain(down'[c][i])
    BY <1>5, <1>6, <2>1
  <2>3. /\ \A i \in DOMAIN queue' : Plain(queue'[i])
        /\ \A i \in DOMAIN batch' : Plain(batch'[i])
    BY <1>10, <2>1
  <2> QED
    BY <1>3, <1>4, <2>2, <2>3 DEF PlainInv, PlainTab

-----------------------------------------------------------------------------
(* What a tab's discarded providers leave.                                 *)

\* An edit of the tab's provider is durable or in its outbox, while its ids tell it apart.
LEMMA AccountableKept ==
    ASSUME PlainInv, NEW c \in Clients, OwnInv(c)
    PROVE  Accountable(prov[c]) \subseteq Durable(ch) \cup Held(prov[c])
<1>1. CASE prov[c].gen = 1
  BY <1>1, OwnFacts DEF Accountable
<1>2. CASE prov[c].gen # 1
  BY <1>2, PlainFacts DEF Accountable
<1> QED
  BY <1>1, <1>2

LEMMA PastStep ==
    ASSUME TypeOK, PlainInv, PastInv, \A c \in Clients : OwnInv(c), Next,
           Durable(ch) \subseteq Durable(ch')
    PROVE  PastInv'
<1>1. \A d \in Clients : past[d].mine \subseteq Durable(ch') \cup past[d].lost
  BY DEF PastInv
<1>2. CASE past' = past
  BY <1>1, <1>2 DEF PastInv
<1>3. ASSUME NEW c \in Clients, past' = [past EXCEPT ![c] = Discarded(@, prov[c])]
      PROVE  PastInv'
  <2>1. past \in [Clients -> [mine: SUBSET Made, lost: SUBSET Made]]
    BY DEF TypeOK
  <2>2. \A d \in Clients : past'[d] = IF d = c THEN Discarded(past[c], prov[c]) ELSE past[d]
    BY <1>3, <2>1
  <2>3. Accountable(prov[c]) \subseteq Durable(ch') \cup Held(prov[c])
    BY AccountableKept
  <2>4. /\ Discarded(past[c], prov[c]).mine = past[c].mine \cup Accountable(prov[c])
        /\ Discarded(past[c], prov[c]).lost = past[c].lost \cup Held(prov[c])
    BY DEF Discarded
  <2>5. \A d \in Clients : past'[d].mine \subseteq Durable(ch') \cup past'[d].lost
    BY <1>1, <2>2, <2>3, <2>4
  <2> QED
    BY <2>5 DEF PastInv
<1> QED
  BY <1>2, <1>3, PastMoves

-----------------------------------------------------------------------------
(* What was announced and a tab lacks is on its way.                       *)

\* The updates in s behind its k-th frame.
Behind(s, k) == UNION {s[i].edits : i \in {j \in DOMAIN s : j > k /\ s[j].kind = "update"}}

LEMMA BehindIn ==
    ASSUME NEW s, NEW k, NEW i \in DOMAIN s, i > k, s[i].kind = "update"
    PROVE  s[i].edits \subseteq Behind(s, k)
  BY DEF Behind

LEMMA BehindFrom ==
    ASSUME NEW s, NEW k, NEW z \in Behind(s, k)
    PROVE  \E i \in DOMAIN s : i > k /\ s[i].kind = "update" /\ z \in s[i].edits
  BY DEF Behind

LEMMA BehindTail ==
    ASSUME NEW S, NEW s \in Seq(S), s # <<>>
    PROVE  /\ \A k \in Nat : Behind(s, k + 1) \subseteq Behind(Tail(s), k)
           /\ Head(s).kind = "update" => Behind(s, 0) \subseteq Head(s).edits \cup Behind(Tail(s), 0)
           /\ Head(s).kind # "update" => Behind(s, 0) \subseteq Behind(Tail(s), 0)
<1>1. \A i \in DOMAIN s : i \in Nat /\ i >= 1 /\ (i > 1 => i - 1 \in DOMAIN Tail(s) /\ Tail(s)[i - 1] = s[i])
  OBVIOUS
<1>2. Head(s) = s[1]
  OBVIOUS
<1>3. ASSUME NEW k \in Nat, NEW i \in DOMAIN s, i > k + 1, s[i].kind = "update", NEW z \in s[i].edits
      PROVE  z \in Behind(Tail(s), k)
  <2>1. i - 1 \in DOMAIN Tail(s) /\ Tail(s)[i - 1] = s[i] /\ i - 1 > k
    BY <1>1, <1>3
  <2> QED
    BY <1>3, <2>1, BehindIn
<1>4. \A k \in Nat : Behind(s, k + 1) \subseteq Behind(Tail(s), k)
  <2>1. ASSUME NEW k \in Nat, NEW z \in Behind(s, k + 1) PROVE z \in Behind(Tail(s), k)
    BY <1>3, <2>1, BehindFrom
  <2> QED
    BY <2>1
<1>5. ASSUME NEW z \in Behind(s, 0)
      PROVE  z \in Behind(Tail(s), 0) \/ (Head(s).kind = "update" /\ z \in Head(s).edits)
  <2>1. PICK i \in DOMAIN s : i > 0 /\ s[i].kind = "update" /\ z \in s[i].edits
    BY <1>5, BehindFrom
  <2>2. CASE i = 1
    BY <1>2, <2>1, <2>2
  <2>3. CASE i # 1
    <3>1. i > 0 + 1 /\ 0 \in Nat
      BY <1>1, <2>1, <2>3
    <3> QED
      BY <1>3, <2>1, <3>1
  <2> QED
    BY <2>2, <2>3
<1> QED
  BY <1>4, <1>5

LEMMA BehindConcat ==
    ASSUME NEW S, NEW s \in Seq(S), NEW t \in Seq(S)
    PROVE  /\ \A k \in Nat : Behind(s, k) \subseteq Behind(s \o t, k)
           /\ \A k \in Nat : k <= Len(s) => Behind(t, 0) \subseteq Behind(s \o t, k)
<1>1. /\ \A i \in DOMAIN s : i \in DOMAIN (s \o t) /\ (s \o t)[i] = s[i]
      /\ \A j \in DOMAIN t : Len(s) + j \in DOMAIN (s \o t) /\ (s \o t)[Len(s) + j] = t[j]
  BY InConcat
<1>2. \A j \in DOMAIN t : j \in Nat
  OBVIOUS
<1>3. Len(s) \in Nat
  OBVIOUS
<1>4. ASSUME NEW k \in Nat, NEW z \in Behind(s, k) PROVE z \in Behind(s \o t, k)
  <2>1. PICK i \in DOMAIN s : i > k /\ s[i].kind = "update" /\ z \in s[i].edits
    BY <1>4, BehindFrom
  <2> QED
    BY <1>1, <2>1, BehindIn
<1>5. ASSUME NEW k \in Nat, k <= Len(s), NEW z \in Behind(t, 0) PROVE z \in Behind(s \o t, k)
  <2>1. PICK j \in DOMAIN t : j > 0 /\ t[j].kind = "update" /\ z \in t[j].edits
    BY <1>5, BehindFrom
  <2>2. Len(s) + j \in DOMAIN (s \o t) /\ (s \o t)[Len(s) + j] = t[j] /\ Len(s) + j > k
    BY <1>1, <1>2, <1>3, <1>5, <2>1
  <2> QED
    BY <2>1, <2>2, BehindIn
<1> QED
  BY <1>4, <1>5

LEMMA BehindAppend ==
    ASSUME NEW S, NEW s \in Seq(S), NEW m
    PROVE  \A k \in Nat : Behind(s, k) \subseteq Behind(Append(s, m), k)
<1>1. \A i \in DOMAIN s : i \in DOMAIN Append(s, m) /\ Append(s, m)[i] = s[i]
  BY InAppend
<1>2. ASSUME NEW k \in Nat, NEW z \in Behind(s, k) PROVE z \in Behind(Append(s, m), k)
  <2>1. PICK i \in DOMAIN s : i > k /\ s[i].kind = "update" /\ z \in s[i].edits
    BY <1>2, BehindFrom
  <2> QED
    BY <1>1, <2>1, BehindIn
<1> QED
  BY <1>2

LEMMA RelayedBehind ==
    ASSUME NEW c \in Clients, NEW k
    PROVE  Relayed(c, k) = Behind(down[c], k) /\ Relayed(c, k)' = Behind(down'[c], k)
  BY DEF Relayed, Behind

LEMMA CatchFacts ==
    ASSUME NEW c \in Clients
    PROVE  CatchUp(c) <=>
             /\ ~running => down[c] = <<>> /\ ~Following(c)
             /\ \A i \in DOMAIN down[c] :
                  down[c][i].kind = "open" =>
                     known \subseteq down[c][i].doc \cup prov[c].mine \cup Behind(down[c], i)
             /\ Following(c) => known \subseteq prov[c].doc \cup Behind(down[c], 0)
  BY RelayedBehind DEF CatchUp

LEMMA CatchNext ==
    ASSUME NEW c \in Clients,
           ~running' => down'[c] = <<>> /\ ~Following(c)',
           \A i \in DOMAIN down'[c] :
              down'[c][i].kind = "open" =>
                 known' \subseteq down'[c][i].doc \cup prov'[c].mine \cup Behind(down'[c], i),
           Following(c)' => known' \subseteq prov'[c].doc \cup Behind(down'[c], 0)
    PROVE  CatchUp(c)'
<1>1. \A k : Relayed(c, k)' = Behind(down'[c], k)
  BY RelayedBehind
<1> QED
  BY <1>1 DEF CatchUp

OneFrame(s) == s.frames = <<>> \/ \E f : s.frames = <<f>>

LEMMA CarryKeeps ==
    ASSUME TypeOK, NEW c \in Clients, NEW s, Carry(c, s), OneFrame(s)
    PROVE  \A m : In(m, up[c]) => In(m, up'[c])
<1>1. up \in [Clients -> Seq(Ups(Made))] /\ up[c] \in Seq(Ups(Made))
  BY DEF TypeOK
<1>2. up' = IF online[c] THEN [up EXCEPT ![c] = up[c] \o s.frames] ELSE up
  BY DEF Carry
<1>3. up'[c] = up[c] \/ up'[c] = up[c] \o s.frames
  BY <1>1, <1>2
<1>4. CASE s.frames = <<>>
  <2>1. up[c] \o <<>> = up[c]
    BY <1>1
  <2> QED
    BY <1>3, <1>4, <2>1
<1>5. ASSUME NEW f, s.frames = <<f>> PROVE \A m : In(m, up[c]) => In(m, up'[c])
  <2>1. up[c] \o <<f>> = Append(up[c], f)
    BY <1>1
  <2>2. \A m : In(m, up[c]) => In(m, Append(up[c], f))
    BY <1>1, InAppend
  <2> QED
    BY <1>3, <1>5, <2>1, <2>2
<1> QED
  BY <1>4, <1>5 DEF OneFrame

LEMMA ResendsOne ==
    ASSUME NEW p, NEW s, NEW M, Resends(p, s, M)
    PROVE  OneFrame(s)
  BY DEF Resends, OneFrame

LEMMA IdleOne ==
    ASSUME NEW p
    PROVE  OneFrame(Idle(p)) /\ Idle(p).next = p
  BY DEF Idle, OneFrame

LEMMA ReopenOne ==
    ASSUME NEW c, NEW p
    PROVE  OneFrame(Reopen(c, p))
<1>1. OneFrame(Resume(p))
  <2> DEFINE r == [next |-> [p EXCEPT !.opening = TRUE],
                   frames |-> <<[kind |-> "open", gen |-> p.gen]>>]
  <2>1. OneFrame(r)
    BY DEF OneFrame
  <2>2. Resume(p) = Idle(p) \/ Resume(p) = r
    BY DEF Resume
  <2> HIDE DEF r
  <2> QED
    BY <2>1, <2>2, IdleOne
<1>2. Reopen(c, p) = Resume(p) \/ Reopen(c, p) = Idle(p)
  BY DEF Reopen
<1> QED
  BY <1>1, <1>2, IdleOne

LEMMA OpenedOne ==
    ASSUME NEW p, NEW ep, NEW d
    PROVE  OneFrame(Opened(p, ep, d))
<1>1. ASSUME NEW q, NEW at PROVE OneFrame(SendMerged(q, at))
  BY DEF SendMerged, OneFrame
<1>2. \/ \E q : Opened(p, ep, d) = Idle(q)
      \/ \E q, at : Opened(p, ep, d) = SendMerged(q, at)
  BY DEF Opened
<1> QED
  BY <1>1, <1>2, IdleOne

(* A tab's own steps lose no frame it has sent.                            *)
LEMMA TabActKeeps ==
    ASSUME TypeOK, FrameInv, NEW c \in Clients, Edit(c) \/ Pace(c) \/ Resend(c) \/ Receive(c)
    PROVE  \A m : In(m, up[c]) => In(m, up'[c])
<1>1. prov[c] \in Providers(Made)
  BY DEF TypeOK
<1>2. CASE Edit(c)
  <2>1. Carry(c, Local(prov[c], Coming))
    BY <1>2 DEF Edit, Coming
  <2>0. Made' = Made \cup {Coming}
    BY <1>2, EditMoves
  <2>2. Coming \in Nat /\ Made \in SUBSET Nat
    BY DEF TypeOK, Coming, Made
  <2>3. Made' \in SUBSET Nat /\ Coming \in Made' /\ Made \subseteq Made'
    BY <2>0, <2>2
  <2>4. prov[c] \in Providers(Made')
    BY <1>1, <2>3, ProvidersGrow
  <2>5. Resends(Keeping(prov[c], Coming), Local(prov[c], Coming), Made')
    BY <2>3, <2>4, LocalResends
  <2> QED
    BY <2>1, <2>5, ResendsOne, CarryKeeps
<1>3. CASE Pace(c)
  <2>1. Carry(c, Paced(prov[c]))
    BY <1>3 DEF Pace
  <2>2. Resends(prov[c], Paced(prov[c]), Made)
    BY <1>1, PacedResends
  <2> QED
    BY <2>1, <2>2, ResendsOne, CarryKeeps
<1>4. CASE Resend(c)
  <2>1. PICK at \in SUBSET Overdue(prov[c]) : at # {} /\ Carry(c, SendMerged(prov[c], at))
    BY <1>4 DEF Resend
  <2>2. OneFrame(SendMerged(prov[c], at))
    BY DEF SendMerged, OneFrame
  <2> QED
    BY <2>1, <2>2, CarryKeeps
<1>5. CASE Receive(c)
  <2>1. \E s : Carry(c, s) /\ OneFrame(s)
    <3>1. \/ \E p : Carry(c, Idle(p))
          \/ \E p : Carry(c, Reopen(c, p))
          \/ \E p, ep, d : Carry(c, Opened(p, ep, d))
      BY <1>5 DEF Receive
    <3> QED
      BY <3>1, IdleOne, ReopenOne, OpenedOne
  <2> QED
    BY <2>1, CarryKeeps
<1> QED
  BY <1>2, <1>3, <1>4, <1>5

(* What a tab does with the frame it takes.                                *)
LEMMA ReceiveReads ==
    ASSUME TypeOK, NEW c \in Clients, Receive(c)
    PROVE  LET m == Head(down[c])
               p == prov[c]
               q == prov'[c]
           IN  /\ Takes(c, m)
               /\ m.kind = "update" /\ m.epoch = p.epoch => q.doc = p.doc \cup m.edits
               /\ m.kind = "open" /\ m.gen = p.gen /\ (p.epoch = NoEpoch \/ p.epoch = m.epoch)
                     => q.doc = p.doc \cup m.doc
<1> DEFINE m == Head(down[c])
           p == prov[c]
           q == prov'[c]
<1>1. /\ p \in Providers(Made) /\ down[c] \in Seq(Downs(Made)) /\ prov \in [Clients -> Providers(Made)]
  BY DEF TypeOK
<1>2. Takes(c, m)
  BY DEF Receive, Takes
<1>3. m \in Downs(Made)
  BY <1>2, TakesIn
<1>4. ASSUME NEW s, Carry(c, s) PROVE q = s.next
  BY <1>1, <1>4 DEF Carry
<1>5. \/ m.kind = "ack"    /\ Carry(c, Idle(Settle(p, m.id)))
      \/ m.kind = "update" /\ Carry(c, Idle(Remote(p, m.epoch, m.edits)))
      \/ m.kind = "refuse" /\ Carry(c, Idle(Park(p)))
      \/ m.kind = "reset"  /\ Carry(c, Reopen(c, Reset(p, m.epoch)))
      \/ m.kind = "open"   /\ Carry(c, IF m.gen # p.gen THEN Idle(p)
                                       ELSE LET s == Opened(p, m.epoch, m.doc) IN
                                            IF s.next.gen # p.gen THEN Reopen(c, s.next) ELSE s)
  BY DEF Receive
<1> HIDE DEF m, p, q
<1>6. ASSUME m.kind = "update", m.epoch = p.epoch PROVE q.doc = p.doc \cup m.edits
  <2>1. Carry(c, Idle(Remote(p, m.epoch, m.edits)))
    BY <1>5, <1>6
  <2>2. q = Remote(p, m.epoch, m.edits)
    BY <1>4, <2>1, IdleOne
  <2>3. p \in ProviderRecords(Made)
    BY <1>1, ProviderFields
  <2> QED
    BY <1>6, <2>2, <2>3 DEF Remote, ProviderRecords
<1>7. ASSUME m.kind = "open", m.gen = p.gen, p.epoch = NoEpoch \/ p.epoch = m.epoch
      PROVE  q.doc = p.doc \cup m.doc
  <2> DEFINE s == Opened(p, m.epoch, m.doc)
             j == Joined(p, m.epoch, m.doc)
  <2>1. m.epoch \in Nat \ {0} /\ m.doc \in SUBSET Made
    BY <1>3, <1>7 DEF Downs
  <2>2. Resends(j, s, Made)
    BY <1>1, <1>7, <2>1, OpenedResends
  <2>3. j.gen = p.gen /\ j.doc = p.doc \cup m.doc
    BY <1>1, <2>1, JoinedFacts
  <2>4. s.next.gen = j.gen /\ s.next.doc = j.doc
    BY <2>2 DEF Resends, Same
  <2>5. Carry(c, IF s.next.gen # p.gen THEN Reopen(c, s.next) ELSE s)
    BY <1>5, <1>7
  <2> HIDE DEF s, j
  <2>6. Carry(c, s)
    BY <2>3, <2>4, <2>5
  <2> QED
    BY <1>4, <2>3, <2>4, <2>6
<1> QED
  BY <1>2, <1>6, <1>7 DEF m, p, q

(* A tab that follows the document after a step that takes away none of    *)
(* its reasons to wait did so before it.                                   *)
LEMMA FollowsBack ==
    ASSUME NEW c \in Clients, online'[c] => online[c], prov'[c].synced => prov[c].synced,
           \A m : In(m, up[c]) /\ m.kind = "open" =>
                    In(m, up'[c]) \/ \E a \in asks' : a.client = c,
           \A a \in asks : a.client = c => \E b \in asks' : b.client = c,
           \A m : In(m, down[c]) /\ m.kind = "open" => In(m, down'[c])
    PROVE  Following(c)' => Following(c)
<1> SUFFICES ASSUME Following(c)' PROVE Following(c)
  OBVIOUS
<1>1. /\ online'[c] /\ prov'[c].synced
      /\ \A m : In(m, up'[c]) => m.kind # "open"
      /\ \A a \in asks' : a.client # c
      /\ \A m : In(m, down'[c]) => m.kind # "open"
  BY DEF Following, In
<1>2. \A m : In(m, up[c]) => m.kind # "open"
  BY <1>1
<1>3. \A m : In(m, down[c]) => m.kind # "open"
  BY <1>1
<1>4. \A a \in asks : a.client # c
  BY <1>1
<1> QED
  BY <1>1, <1>2, <1>3, <1>4 DEF Following, In

LEMMA CatchStill ==
    ASSUME NEW c \in Clients, CatchUp(c), running => running', known' \subseteq known,
           down'[c] = down[c], prov[c].mine \subseteq prov'[c].mine,
           prov[c].doc \subseteq prov'[c].doc, Following(c)' => Following(c)
    PROVE  CatchUp(c)'
<1>1. /\ ~running => down[c] = <<>> /\ ~Following(c)
      /\ \A i \in DOMAIN down[c] :
           down[c][i].kind = "open" =>
              known \subseteq down[c][i].doc \cup prov[c].mine \cup Behind(down[c], i)
      /\ Following(c) => known \subseteq prov[c].doc \cup Behind(down[c], 0)
  BY CatchFacts
<1>2. ~running' => down'[c] = <<>> /\ ~Following(c)'
  BY <1>1
<1>3. \A i \in DOMAIN down'[c] :
        down'[c][i].kind = "open" =>
           known' \subseteq down'[c][i].doc \cup prov'[c].mine \cup Behind(down'[c], i)
  BY <1>1
<1>4. Following(c)' => known' \subseteq prov'[c].doc \cup Behind(down'[c], 0)
  BY <1>1
<1> QED
  BY <1>2, <1>3, <1>4, CatchNext

LEMMA CatchAppend ==
    ASSUME NEW c \in Clients, CatchUp(c), running', known' \subseteq known,
           NEW S, down[c] \in Seq(S), NEW m, down'[c] = Append(down[c], m),
           m.kind = "open" => known \subseteq m.doc,
           prov'[c] = prov[c], Following(c)' => Following(c)
    PROVE  CatchUp(c)'
<1>1. /\ \A i \in DOMAIN down[c] :
           down[c][i].kind = "open" =>
              known \subseteq down[c][i].doc \cup prov[c].mine \cup Behind(down[c], i)
      /\ Following(c) => known \subseteq prov[c].doc \cup Behind(down[c], 0)
  BY CatchFacts
<1>2. \A k \in Nat : Behind(down[c], k) \subseteq Behind(down'[c], k)
  BY BehindAppend
<1>3. /\ \A i \in DOMAIN down[c] : down'[c][i] = down[c][i] /\ i \in Nat
      /\ \A i \in DOMAIN down'[c] : i \in DOMAIN down[c] \/ i = Len(down[c]) + 1
      /\ down'[c][Len(down[c]) + 1] = m
  BY InAppend
<1>4. ASSUME NEW i \in DOMAIN down'[c], down'[c][i].kind = "open"
      PROVE  known' \subseteq down'[c][i].doc \cup prov'[c].mine \cup Behind(down'[c], i)
  <2>1. CASE i \in DOMAIN down[c]
    BY <1>1, <1>2, <1>3, <1>4, <2>1
  <2>2. CASE i = Len(down[c]) + 1
    BY <1>3, <1>4, <2>2
  <2> QED
    BY <1>3, <2>1, <2>2
<1>5. Following(c)' => known' \subseteq prov'[c].doc \cup Behind(down'[c], 0)
  BY <1>1, <1>2
<1> QED
  BY <1>4, <1>5, CatchNext

LEMMA CatchGone ==
    ASSUME NEW c \in Clients, down'[c] = <<>>, ~Following(c)'
    PROVE  CatchUp(c)'
<1>1. DOMAIN down'[c] = {}
  OBVIOUS
<1> QED
  BY <1>1, CatchNext

(* A step that leaves the tab, its socket and its asks alone.              *)
LEMMA CatchElsewhere ==
    ASSUME NEW c \in Clients, CatchUp(c), running => running', known' \subseteq known,
           down'[c] = down[c], prov'[c] = prov[c], up'[c] = up[c], online'[c] = online[c],
           \A a \in asks : a.client = c => a \in asks'
    PROVE  CatchUp(c)'
<1>1. Following(c)' => Following(c)
  BY FollowsBack
<1> QED
  BY <1>1, CatchStill

(* While the first history lasts, taking a frame keeps the tab caught up: a *)
(* reply to its open brings what was announced before it, an update is in   *)
(* the document once it is no longer on its way.                            *)
LEMMA CatchReceive ==
    ASSUME TypeOK, FrameInv, NEW c \in Clients, Receive(c), FirstTab(c), CatchUp(c),
           ch.snapshot.epoch = 1
    PROVE  CatchUp(c)'
<1> DEFINE m == Head(down[c])
           p == prov[c]
           q == prov'[c]
           s == down[c]
           t == Tail(s)
<1>1. /\ ~running => s = <<>> /\ ~Following(c)
      /\ \A i \in DOMAIN s :
           s[i].kind = "open" => known \subseteq s[i].doc \cup p.mine \cup Behind(s, i)
      /\ Following(c) => known \subseteq p.doc \cup Behind(s, 0)
  BY CatchFacts
<1>2. TabsMoves(c)
  BY ReceiveMoves
<1>3. Lasts(p, q)
  BY <1>2, FirstLasts
<1>4. s \in Seq(Downs(Made)) /\ down \in [Clients -> Seq(Downs(Made))] /\ p \in Providers(Made)
  BY DEF TypeOK
<1>5. Takes(c, m) /\ s # <<>> /\ online' = online /\ asks' = asks /\ running' = running /\ known' = known
  BY DEF Receive, Takes, room
<1>6. down'[c] = t
  BY <1>4, <1>5 DEF Takes
<1>7. In(m, s) /\ m \in Downs(Made)
  BY <1>5, TakesIn
<1>8. Told(ch, m) /\ p.epoch <= 1 /\ (p.epoch = NoEpoch => ~p.synced)
  BY <1>7, FrameFacts
<1>9. p.epoch \in Nat /\ p.gen = 1 /\ (m.kind = "open" => m.gen = 1)
  BY <1>4, <1>7, TabFacts, ProviderFields
<1>10. m.kind \in {"update", "open"} => m.epoch = 1
  BY <1>7, <1>8 DEF Told, Downs
<1>11. /\ \A k \in Nat : Behind(s, k + 1) \subseteq Behind(t, k)
       /\ m.kind = "update" => Behind(s, 0) \subseteq m.edits \cup Behind(t, 0)
       /\ m.kind # "update" => Behind(s, 0) \subseteq Behind(t, 0)
  BY <1>4, <1>5, BehindTail
<1>12. \A i \in DOMAIN t : t[i] = s[i + 1] /\ i + 1 \in DOMAIN s /\ i \in Nat
  BY <1>4, <1>5, InTail
<1>13. m = s[1] /\ 1 \in DOMAIN s
  BY <1>4, <1>5
<1>14. /\ m.kind = "update" /\ m.epoch = p.epoch => q.doc = p.doc \cup m.edits
       /\ m.kind = "open" /\ m.gen = p.gen /\ (p.epoch = NoEpoch \/ p.epoch = m.epoch)
             => q.doc = p.doc \cup m.doc
  BY ReceiveReads
<1>15. running
  BY <1>1, <1>5
<1>16. p.mine \subseteq q.mine /\ p.doc \subseteq q.doc /\ p.mine \subseteq p.doc
  BY <1>3, <1>4, ProviderFields DEF Lasts
<1>17. ASSUME m.kind # "open" PROVE Following(c)' => Following(c)
  <2>1. q.synced => p.synced
    <3>1. Turns(c, p, q)
      BY <1>2, TurnsStep DEF TabsMoves
    <3>2. \A n : Takes(c, n) => n = m
      BY DEF Takes
    <3> HIDE DEF p, q, m
    <3> QED
      BY <1>17, <3>1, <3>2 DEF Turns, Follows, Replaced
  <2>2. \A n : In(n, up[c]) => In(n, up'[c])
    BY TabActKeeps
  <2>3. ASSUME NEW n, In(n, s), n.kind = "open" PROVE In(n, t)
    <3>1. PICK i \in DOMAIN s : n = s[i]
      BY <2>3 DEF In
    <3>2. i # 1 /\ i \in 1 .. Len(s)
      BY <1>4, <1>13, <1>17, <2>3, <3>1
    <3>3. i - 1 \in DOMAIN t /\ t[i - 1] = s[i]
      BY <1>4, <1>5, <3>2
    <3> QED
      BY <3>1, <3>3 DEF In
  <2> HIDE DEF p, q, s, t, m
  <2> QED
    BY <1>5, <1>6, <2>1, <2>2, <2>3, FollowsBack DEF p, q, s
<1>18. ASSUME NEW i \in DOMAIN t, t[i].kind = "open"
       PROVE  known' \subseteq t[i].doc \cup q.mine \cup Behind(t, i)
  <2>1. known \subseteq s[i + 1].doc \cup p.mine \cup Behind(s, i + 1)
    BY <1>1, <1>12, <1>18
  <2>2. Behind(s, i + 1) \subseteq Behind(t, i) /\ s[i + 1].doc = t[i].doc
    BY <1>11, <1>12
  <2> HIDE DEF p, q, s, t, m
  <2> QED
    BY <1>5, <1>16, <2>1, <2>2
<1>19. ASSUME Following(c)' PROVE known' \subseteq q.doc \cup Behind(t, 0)
  <2>1. CASE m.kind = "open"
    <3>1. known \subseteq m.doc \cup p.mine \cup Behind(s, 1)
      BY <1>1, <1>13, <2>1
    <3>2. Behind(s, 1) \subseteq Behind(t, 0)
      <4>1. 0 \in Nat /\ 0 + 1 = 1
        OBVIOUS
      <4> HIDE DEF s, t
      <4> QED
        BY <1>11, <4>1
    <3>3. q.doc = p.doc \cup m.doc
      BY <1>8, <1>9, <1>10, <1>14, <2>1 DEF NoEpoch
    <3> HIDE DEF p, q, s, t, m
    <3> QED
      BY <1>5, <1>16, <3>1, <3>2, <3>3
  <2>2. CASE m.kind # "open"
    <3>1. Following(c)
      BY <1>17, <1>19, <2>2
    <3>2. known \subseteq p.doc \cup Behind(s, 0)
      BY <1>1, <3>1
    <3>3. p.epoch = 1
      BY <1>8, <1>9, <3>1 DEF Following, NoEpoch
    <3> HIDE DEF p, q, s, t, m
    <3> QED
      BY <1>5, <1>10, <1>11, <1>14, <1>16, <3>2, <3>3
  <2> QED
    BY <2>1, <2>2
<1> HIDE DEF p, q, s, t, m
<1> QED
  BY <1>5, <1>6, <1>15, <1>18, <1>19, CatchNext DEF q

LEMMA CatchTab ==
    ASSUME TypeOK, FrameInv, NEW d \in Clients, TabAct(d), NEW c \in Clients, FirstTab(c),
           CatchUp(c), ch.snapshot.epoch = 1
    PROVE  CatchUp(c)'
<1>1. /\ running' = running /\ known' = known /\ asks' = asks
      /\ ~Connect(d) => online' = online
      /\ ~Receive(d) => down' = down
  BY DEF TabAct, Connect, Edit, Pace, Resend, Receive, room
<1>2. /\ \A e \in Clients : TabsMoves(e)
      /\ \A e \in Clients \ {d} : prov'[e] = prov[e] /\ up'[e] = up[e]
  BY ConnectMoves, EditMoves, PaceMoves, ResendMoves, ReceiveMoves DEF TabAct
<1>3. Lasts(prov[c], prov'[c])
  BY <1>2, FirstLasts
<1>4. online \in [Clients -> BOOLEAN] /\ down \in [Clients -> Seq(Downs(Made))]
  BY DEF TypeOK
<1>5. CASE c # d
  <2>1. online'[c] = online[c]
    BY <1>1, <1>4, <1>5 DEF Connect
  <2>2. down'[c] = down[c]
    BY <1>1, <1>4, <1>5 DEF Receive
  <2>3. prov'[c] = prov[c] /\ up'[c] = up[c]
    BY <1>2, <1>5
  <2> QED
    BY <1>1, <2>1, <2>2, <2>3, CatchElsewhere
<1>6. CASE c = d /\ Connect(c)
  <2>1. up'[c] = <<[kind |-> "open", gen |-> prov'[c].gen]>>
    BY <1>6, ConnectMoves
  <2>2. ~Following(c)'
    BY <2>1 DEF Following
  <2>3. down'[c] = down[c]
    BY <1>1, <1>6 DEF Connect
  <2> QED
    BY <1>1, <1>3, <2>2, <2>3, CatchStill DEF Lasts
<1>7. CASE c = d /\ (Edit(c) \/ Pace(c) \/ Resend(c))
  <2>1. online' = online /\ down' = down
    BY <1>7 DEF Edit, Pace, Resend
  <2>2. \A m : In(m, up[c]) => In(m, up'[c])
    BY <1>7, TabActKeeps
  <2>3. prov'[c].synced = prov[c].synced
    <3>1. CASE Edit(c)
      <4>1. prov[c].synced
        BY <3>1, EditMoves
      <4>2. prov[c].synced \in BOOLEAN /\ prov'[c].synced \in BOOLEAN
        BY <1>2, ProviderFields DEF TypeOK, TabsMoves
      <4>3. Tidy(Keeping(prov[c], Coming), prov'[c])
        BY <3>1, EditMoves
      <4>4. Keeping(prov[c], Coming).synced = prov[c].synced
        <5>1. prov[c] \in ProviderRecords(Made)
          BY ProviderFields DEF TypeOK
        <5> QED
          BY <5>1 DEF Keeping, ProviderRecords
      <4> QED
        BY <4>3, <4>4, TidyFollows
    <3>2. CASE Pace(c) \/ Resend(c)
      <4>1. Tidy(prov[c], prov'[c])
        BY <3>2, PaceMoves, ResendMoves
      <4> QED
        BY <4>1, TidyFollows
    <3> QED
      BY <1>7, <3>1, <3>2
  <2>4. Following(c)' => Following(c)
    BY <1>1, <2>1, <2>2, <2>3, FollowsBack
  <2> QED
    BY <1>1, <1>3, <2>1, <2>4, CatchStill DEF Lasts
<1>8. CASE c = d /\ Receive(c)
  BY <1>8, CatchReceive
<1> QED
  BY <1>5, <1>6, <1>7, <1>8 DEF TabAct

LEMMA OpensKept ==
    ASSUME NEW S, NEW s \in Seq(S), s # <<>>, Head(s).kind # "open"
    PROVE  \A m : In(m, s) /\ m.kind = "open" => In(m, Tail(s))
<1>1. ASSUME NEW m, In(m, s), m.kind = "open" PROVE In(m, Tail(s))
  <2>1. PICK i \in DOMAIN s : m = s[i]
    BY <1>1 DEF In
  <2>2. i # 1 /\ i \in 1 .. Len(s)
    BY <1>1, <2>1
  <2>3. i - 1 \in DOMAIN Tail(s) /\ Tail(s)[i - 1] = s[i]
    BY <2>2
  <2> QED
    BY <2>1, <2>3 DEF In
<1> QED
  BY <1>1

LEMMA CatchSocket ==
    ASSUME TypeOK, NEW d \in Clients, Lose(d) \/ Submit(d) \/ Refuse(d) \/ Ask(d),
           NEW c \in Clients, CatchUp(c)
    PROVE  CatchUp(c)'
<1>1. /\ online \in [Clients -> BOOLEAN] /\ down \in [Clients -> Seq(Downs(Made))]
      /\ up \in [Clients -> Seq(Ups(Made))] /\ prov \in [Clients -> Providers(Made)]
      /\ down[c] \in Seq(Downs(Made)) /\ up[c] \in Seq(Ups(Made))
      /\ ~online[c] => down[c] = <<>>
  BY DEF TypeOK
<1>2. running' = running /\ known' = known
  BY DEF Lose, Submit, Refuse, Ask, room
<1>3. ASSUME Lose(d) PROVE CatchUp(c)'
  <2>1. CASE c = d
    <3>1. down'[c] = <<>> /\ ~online'[c]
      BY <1>1, <1>3, <2>1 DEF Lose
    <3> QED
      BY <3>1, CatchGone DEF Following
  <2>2. CASE c # d
    <3>1. /\ down'[c] = down[c] /\ prov'[c] = prov[c] /\ up'[c] = up[c]
          /\ online'[c] = online[c]
      BY <1>1, <1>3, <2>2 DEF Lose
    <3>2. \A a \in asks : a.client = c => a \in asks'
      BY <1>3, <2>2 DEF Lose
    <3> QED
      BY <1>2, <3>1, <3>2, CatchElsewhere
  <2> QED
    BY <2>1, <2>2
<1>4. ASSUME Submit(d) PROVE CatchUp(c)'
  <2>1. down' = down /\ prov' = prov /\ online' = online /\ asks' = asks
    BY <1>4 DEF Submit
  <2>2. up' = [up EXCEPT ![d] = Tail(up[d])] /\ up[d] # <<>> /\ Head(up[d]).kind = "update"
    BY <1>4 DEF Submit
  <2>3. up'[c] = up[c] \/ (up'[c] = Tail(up[c]) /\ up[c] # <<>> /\ Head(up[c]).kind # "open")
    BY <1>1, <2>2
  <2>4. \A m : In(m, up[c]) /\ m.kind = "open" => In(m, up'[c])
    BY <1>1, <2>3, OpensKept
  <2>5. Following(c)' => Following(c)
    BY <2>1, <2>4, FollowsBack
  <2> QED
    BY <1>2, <2>1, <2>5, CatchStill
<1>5. ASSUME Ask(d) PROVE CatchUp(c)'
  <2>1. down' = down /\ prov' = prov /\ online' = online /\ asks \subseteq asks'
    BY <1>5 DEF Ask
  <2>2. up' = [up EXCEPT ![d] = Tail(up[d])] /\ \E a \in asks' : a.client = d
    <3> DEFINE a == [client |-> d, gen |-> Head(up[d]).gen]
    <3>1. a \in asks' /\ a.client = d
      BY <1>5 DEF Ask
    <3>2. up' = [up EXCEPT ![d] = Tail(up[d])]
      BY <1>5 DEF Ask
    <3> HIDE DEF a
    <3> QED
      BY <3>1, <3>2
  <2>3. up'[c] = up[c] \/ \E a \in asks' : a.client = c
    BY <1>1, <2>2
  <2>4. Following(c)' => Following(c)
    BY <2>1, <2>3, FollowsBack
  <2> QED
    BY <1>2, <2>1, <2>4, CatchStill
<1>6. ASSUME Refuse(d) PROVE CatchUp(c)'
  <2>1. prov' = prov /\ online' = online /\ asks' = asks /\ running
    BY <1>6 DEF Refuse
  <2>2. up' = [up EXCEPT ![d] = Tail(up[d])] /\ up[d] # <<>> /\ Head(up[d]).kind = "update"
    BY <1>6 DEF Refuse
  <2>3. up'[c] = up[c] \/ (up'[c] = Tail(up[c]) /\ up[c] # <<>> /\ Head(up[c]).kind # "open")
    BY <1>1, <2>2
  <2>4. \A m : In(m, up[c]) /\ m.kind = "open" => In(m, up'[c])
    BY <1>1, <2>3, OpensKept
  <2>5. \/ down'[c] = down[c]
        \/ \E m : m.kind # "open" /\ down'[c] = Append(down[c], m)
    <3>1. \/ down' = down
          \/ \E m : m.kind # "open" /\ down' = ToAll({d}, <<m>>)
      <4>1. \/ down' = down
            \/ down' = ToAll({d}, <<[kind |-> "refuse"]>>)
            \/ down' = ToAll({d}, <<[kind |-> "reset", epoch |-> epoch]>>)
        BY <1>6 DEF Refuse
      <4>2. [kind |-> "refuse"].kind # "open" /\ [kind |-> "reset", epoch |-> epoch].kind # "open"
        OBVIOUS
      <4> QED
        BY <4>1, <4>2
    <3>2. ASSUME NEW m, down' = ToAll({d}, <<m>>)
          PROVE  down'[c] = down[c] \/ down'[c] = Append(down[c], m)
      <4>1. down'[c] = down[c] \/ down'[c] = down[c] \o <<m>>
        BY <3>2 DEF ToAll
      <4>2. down[c] \o <<m>> = Append(down[c], m)
        BY <1>1
      <4> QED
        BY <4>1, <4>2
    <3> QED
      BY <3>1, <3>2
  <2>6. \A m : In(m, down[c]) => In(m, down'[c])
    <3>1. \A f : \A m : In(m, down[c]) => In(m, Append(down[c], f))
      BY <1>1, InAppend
    <3> QED
      BY <2>5, <3>1
  <2>7. Following(c)' => Following(c)
    BY <2>1, <2>4, <2>6, FollowsBack
  <2>8. CASE down'[c] = down[c]
    BY <1>2, <2>1, <2>7, <2>8, CatchStill
  <2>9. ASSUME NEW m, m.kind # "open", down'[c] = Append(down[c], m) PROVE CatchUp(c)'
    BY <1>1, <1>2, <2>1, <2>7, <2>9, CatchAppend
  <2> QED
    BY <2>5, <2>8, <2>9
<1> QED
  BY <1>3, <1>4, <1>5, <1>6

LEMMA CatchStop ==
    ASSUME NEW c \in Clients, Crash
    PROVE  CatchUp(c)'
<1>1. down'[c] = <<>> /\ ~online'[c]
  BY DEF Crash
<1> QED
  BY <1>1, CatchGone DEF Following

(* A reply to an open carries everything announced so far; before it goes  *)
(* out the tab still waits.                                                *)
LEMMA CatchGreet ==
    ASSUME TypeOK, ServerInv, NEW a \in asks, Greet(a), NEW c \in Clients, CatchUp(c)
    PROVE  CatchUp(c)'
<1> DEFINE m == [kind |-> "open", gen |-> a.gen, epoch |-> epoch, doc |-> live]
<1>1. /\ running /\ running' = running /\ known' = known /\ prov' = prov /\ online' = online
      /\ up' = up /\ asks' = asks \ {a} /\ down' = ToAll({a.client}, <<m>>)
      /\ known = live
  BY DEF Greet, GreetReady, room, ServerInv, InStep
<1>2. down[c] \in Seq(Downs(Made)) /\ (~online[c] => down[c] = <<>>)
  BY DEF TypeOK
<1>3. m.kind = "open" /\ m.doc = live
  OBVIOUS
<1> HIDE DEF m
<1>4. CASE a.client = c /\ online[c]
  <2>1. down'[c] = down[c] \o <<m>>
    BY <1>1, <1>4 DEF ToAll
  <2>2. down'[c] = Append(down[c], m)
    BY <1>2, <2>1
  <2>3. In(m, down'[c])
    BY <1>2, <2>2, InAppend
  <2>4. ~Following(c)'
    BY <1>3, <2>3 DEF Following, In
  <2> QED
    BY <1>1, <1>2, <1>3, <2>2, <2>4, CatchAppend
<1>5. CASE ~(a.client = c /\ online[c])
  <2>1. down'[c] = down[c]
    BY <1>1, <1>5 DEF ToAll
  <2>2. Following(c)' => Following(c)
    <3>1. CASE a.client = c
      BY <1>1, <1>5, <3>1 DEF Following
    <3>2. CASE a.client # c
      <4>1. \A b \in asks : b.client = c => b \in asks'
        BY <1>1, <3>2
      <4> QED
        BY <1>1, <2>1, <4>1, FollowsBack
    <3> QED
      BY <3>1, <3>2
  <2> QED
    BY <1>1, <2>1, <2>2, CatchStill
<1> QED
  BY <1>4, <1>5

(* What a commit announces reaches every tab that is connected: an update  *)
(* it did not send as a relay, its own as an acknowledgement of what it    *)
(* already shows.                                                          *)
LEMMA AnnouncedBehind ==
    ASSUME TypeOK, NEW c \in Clients, OwnInv(c), prov[c].gen = 1
    PROVE  /\ BatchEdits \cup extra \subseteq prov[c].mine \cup Behind(Announced(c), 0)
           /\ \A m : In(m, Announced(c)) => m.kind # "open"
<1> DEFINE f == [i \in DOMAIN batch |->
                    IF batch[i].client = c
                    THEN [kind |-> "ack", id |-> batch[i].id, edits |-> batch[i].edits]
                    ELSE [kind |-> "update", epoch |-> epoch, edits |-> batch[i].edits]]
           x == [kind |-> "update", epoch |-> epoch, edits |-> extra]
           g == IF extra = {} THEN <<>> ELSE <<x>>
           T == {f[i] : i \in DOMAIN batch} \cup {x}
<1>1. batch \in Seq(Items(Made)) /\ DOMAIN batch = 1 .. Len(batch) /\ Len(batch) \in Nat
  BY DEF TypeOK
<1>2. Announced(c) = f \o g
  BY DEF Announced
<1>3. DOMAIN f = DOMAIN batch
  OBVIOUS
<1>4. /\ \A i \in DOMAIN batch : batch[i].client # c => f[i].kind = "update" /\ f[i].edits = batch[i].edits
      /\ \A i \in DOMAIN batch : f[i].kind # "open"
      /\ x.kind = "update" /\ x.edits = extra
  OBVIOUS
<1>5. /\ f = [i \in 1 .. Len(batch) |-> f[i]]
      /\ \A i \in DOMAIN batch : f[i] \in T
      /\ x \in T
  BY <1>1
<1>6. (g = <<>> /\ extra = {}) \/ g = <<x>>
  OBVIOUS
<1> HIDE DEF f, x, T
<1>7. f \in Seq(T)
  BY <1>1, <1>5
<1>8. g \in Seq(T)
  BY <1>5, <1>6
<1> HIDE DEF g
<1>9. /\ f \o g \in Seq(T)
      /\ \A i \in DOMAIN f : i \in DOMAIN (f \o g) /\ (f \o g)[i] = f[i]
      /\ \A j \in DOMAIN g : Len(f) + j \in DOMAIN (f \o g) /\ (f \o g)[Len(f) + j] = g[j]
      /\ \A m : In(m, f \o g) => In(m, f) \/ In(m, g)
  BY <1>7, <1>8, InConcat
<1>10. ASSUME NEW z \in BatchEdits PROVE z \in prov[c].mine \cup Behind(f \o g, 0)
  <2>1. PICK i \in DOMAIN batch : z \in batch[i].edits
    BY <1>10 DEF BatchEdits
  <2>2. CASE batch[i].client = c
    <3>1. In(batch[i], batch)
      BY DEF In
    <3>2. Covers(prov[c], batch[i], Made)
      BY <2>2, <3>1, OwnFacts
    <3> QED
      BY <2>1, <3>2 DEF Covers
  <2>3. CASE batch[i].client # c
    <3>1. i \in DOMAIN (f \o g) /\ (f \o g)[i] = f[i] /\ i > 0
      BY <1>1, <1>3, <1>9
    <3>2. f[i].kind = "update" /\ f[i].edits = batch[i].edits
      BY <1>4, <2>3
    <3>3. z \in Behind(f \o g, 0)
      BY <2>1, <3>1, <3>2, BehindIn
    <3> QED
      BY <3>3
  <2> QED
    BY <2>2, <2>3
<1>11. ASSUME NEW z \in extra PROVE z \in Behind(f \o g, 0)
  <2>1. g = <<x>>
    BY <1>6, <1>11
  <2>2. 1 \in DOMAIN g /\ g[1] = x
    BY <2>1
  <2>3. Len(f) \in Nat
    BY <1>7
  <2>4. Len(f) + 1 \in DOMAIN (f \o g) /\ (f \o g)[Len(f) + 1] = x /\ Len(f) + 1 > 0
    BY <1>9, <2>2, <2>3
  <2> QED
    BY <1>4, <1>11, <2>4, BehindIn
<1>12. ASSUME NEW m, In(m, f \o g) PROVE m.kind # "open"
  <2>1. CASE In(m, f)
    BY <1>3, <1>4, <2>1 DEF In
  <2>2. CASE In(m, g)
    BY <1>4, <1>6, <2>2 DEF In
  <2> QED
    BY <1>9, <1>12, <2>1, <2>2
<1> QED
  BY <1>2, <1>10, <1>11, <1>12

LEMMA CatchAcknowledge ==
    ASSUME TypeOK, ServerInv, Acknowledge, NEW c \in Clients, OwnInv(c),
           prov[c].gen = 1, CatchUp(c)
    PROVE  CatchUp(c)'
<1> DEFINE s == down[c]
           t == Announced(c)
<1>1. /\ running /\ phase = "committed"
      /\ down'[c] = IF online[c] THEN s \o t ELSE s
  BY AcknowledgeDown
<1>2. /\ running' = running /\ known' = live /\ prov' = prov /\ online' = online
      /\ up' = up /\ asks' = asks
  BY DEF Acknowledge, KnownAfterCommit
<1>3. s \in Seq(Downs(Made)) /\ (~online[c] => s = <<>>) /\ prov[c] \in Providers(Made)
  BY DEF TypeOK
<1>4. live = known \cup BatchEdits \cup extra
  BY <1>1 DEF ServerInv, ChainInv
<1>5. t \in Seq(Downs(Made))
  BY <1>1, AnnouncedFacts
<1>6. /\ BatchEdits \cup extra \subseteq prov[c].mine \cup Behind(t, 0)
      /\ \A m : In(m, t) => m.kind # "open"
  BY AnnouncedBehind
<1>7. prov[c].mine \subseteq prov[c].doc
  BY <1>3, ProviderFields
<1>8. /\ \A i \in DOMAIN s :
           s[i].kind = "open" => known \subseteq s[i].doc \cup prov[c].mine \cup Behind(s, i)
      /\ Following(c) => known \subseteq prov[c].doc \cup Behind(s, 0)
  BY CatchFacts
<1>9. CASE ~online[c]
  <2>1. down'[c] = <<>> /\ ~Following(c)'
    BY <1>1, <1>2, <1>3, <1>9 DEF Following
  <2> QED
    BY <2>1, CatchGone
<1>10. CASE online[c]
  <2> HIDE DEF s, t
  <2>1. down'[c] = s \o t
    BY <1>1, <1>10
  <2>2. /\ \A i \in DOMAIN s : i \in DOMAIN (s \o t) /\ (s \o t)[i] = s[i]
        /\ \A m : In(m, s \o t) => In(m, s) \/ In(m, t)
        /\ Len(s \o t) = Len(s) + Len(t)
    BY <1>3, <1>5, InConcat
  <2>3. /\ \A k \in Nat : Behind(s, k) \subseteq Behind(s \o t, k)
        /\ \A k \in Nat : k <= Len(s) => Behind(t, 0) \subseteq Behind(s \o t, k)
    BY <1>3, <1>5, BehindConcat
  <2>4. DOMAIN s = 1 .. Len(s) /\ Len(s) \in Nat /\ DOMAIN t = 1 .. Len(t) /\ Len(t) \in Nat
        /\ DOMAIN (s \o t) = 1 .. Len(s) + Len(t)
    BY <1>3, <1>5
  <2>5. ASSUME NEW i \in DOMAIN (s \o t), (s \o t)[i].kind = "open"
        PROVE  i \in DOMAIN s
    <3>1. CASE i > Len(s)
      <4>1. i - Len(s) \in DOMAIN t /\ (s \o t)[i] = t[i - Len(s)]
        BY <1>3, <1>5, <2>4, <3>1
      <4> QED
        BY <1>6, <2>5, <4>1 DEF In
    <3> QED
      BY <2>4, <3>1
  <2>6. ASSUME NEW i \in DOMAIN (s \o t), (s \o t)[i].kind = "open"
        PROVE  live \subseteq (s \o t)[i].doc \cup prov[c].mine \cup Behind(s \o t, i)
    <3>1. i \in DOMAIN s /\ i \in Nat /\ i <= Len(s) /\ (s \o t)[i] = s[i]
      BY <2>2, <2>4, <2>5, <2>6
    <3>2. known \subseteq s[i].doc \cup prov[c].mine \cup Behind(s, i)
      BY <1>8, <2>6, <3>1
    <3>3. Behind(s, i) \subseteq Behind(s \o t, i) /\ Behind(t, 0) \subseteq Behind(s \o t, i)
      BY <2>3, <3>1
    <3> QED
      BY <1>4, <1>6, <3>1, <3>2, <3>3
  <2>7. ASSUME Following(c)' PROVE live \subseteq prov[c].doc \cup Behind(s \o t, 0)
    <3>1. \A m : In(m, s) => In(m, s \o t)
      BY <2>2 DEF In
    <3>2. Following(c)
      BY <1>2, <2>1, <2>7, <3>1, FollowsBack DEF s
    <3>3. Behind(s, 0) \subseteq Behind(s \o t, 0) /\ Behind(t, 0) \subseteq Behind(s \o t, 0)
      BY <2>3, <2>4
    <3> QED
      BY <1>4, <1>6, <1>7, <1>8, <3>2, <3>3
  <2> QED
    BY <1>1, <1>2, <2>1, <2>6, <2>7, CatchNext
<1> QED
  BY <1>9, <1>10

LEMMA CatchService ==
    ASSUME TypeOK, ServerInv, ServiceAct, NEW c \in Clients, OwnInv(c),
           prov[c].gen = 1, CatchUp(c), ch.snapshot.epoch = 1
    PROVE  CatchUp(c)'
<1>1. CASE \E a \in asks : Greet(a)
  BY <1>1, CatchGreet
<1>2. CASE Acknowledge
  BY <1>2, CatchAcknowledge
<1>3. CASE Apply \/ Publish \/ CorrectTitle \/ CommitRows \/ CommitState \/ Rebuild \/ ReplaceRows
           \/ CheckpointRows
  <2>1. /\ running' = running /\ prov' = prov /\ online' = online /\ up' = up /\ down' = down
        /\ asks' = asks
    BY <1>3 DEF Apply, Publish, CorrectTitle, CommitRows, CommitState, Rebuild, ReplaceRows,
                CheckpointRows, tabs, room
  <2>2. known' = known
    <3>1. CASE CheckpointRows
      BY <3>1 DEF CheckpointRows, ServerInv, InStep, Saved
    <3>2. CASE ~CheckpointRows
      BY <1>3, <3>2 DEF Apply, Publish, CorrectTitle, CommitRows, CommitState, Rebuild,
                        ReplaceRows, room
    <3> QED
      BY <3>1, <3>2
  <2> QED
    BY <2>1, <2>2, CatchElsewhere
<1>4. CASE AnnounceReset
  <2>1. epoch > 1 /\ epoch = 1
    BY <1>4 DEF AnnounceReset, ServerInv, ChainInv
  <2>2. epoch \in Nat
    BY DEF TypeOK
  <2> QED
    BY <2>1, <2>2
<1>5. CASE Close \/ Restore
  <2>1. prov' = prov /\ online' = online /\ up' = up /\ down' = down /\ asks' = asks
    BY <1>5 DEF Close, Restore, tabs
  <2>2. down[c] = <<>> /\ ~Following(c)
    <3>1. CASE Close
      BY <3>1 DEF Close, TypeOK, Following
    <3>2. CASE Restore
      BY <3>2, CatchFacts DEF Restore
    <3> QED
      BY <1>5, <3>1, <3>2
  <2>3. Following(c)' => Following(c)
    BY <2>1, FollowsBack
  <2> QED
    BY <2>1, <2>2, <2>3, CatchGone
<1> QED
  BY <1>1, <1>2, <1>3, <1>4, <1>5 DEF ServiceAct

LEMMA FirstHistoryStep ==
    ASSUME TypeOK, ServerInv, FrameInv, \A c \in Clients : OwnInv(c), FirstHistory, Next
    PROVE  FirstHistory'
<1> SUFFICES ASSUME ch'.snapshot.epoch = 1, NEW c \in Clients
             PROVE  FirstTab(c)' /\ CatchUp(c)'
  BY DEF FirstHistory
<1>1. StoreStep
  BY ServerStep
<1>2. ch.snapshot.epoch \in Nat \ {0}
  BY ServerFacts
<1>3. ch.snapshot.epoch = 1
  BY <1>1, <1>2 DEF StoreStep
<1>4. \A d \in Clients : FirstTab(d) /\ CatchUp(d)
  BY <1>3 DEF FirstHistory
<1>5. FirstTab(c)'
  BY <1>3, <1>4, FirstTabStep
<1>6. CatchUp(c)'
  <2>1. CASE \E d \in Clients : TabAct(d)
    BY <1>3, <1>4, <2>1, CatchTab
  <2>2. CASE \E d \in Clients : Lose(d) \/ Submit(d) \/ Refuse(d) \/ Ask(d)
    BY <1>4, <2>2, CatchSocket
  <2>3. CASE ServiceAct
    <3>1. prov[c].gen = 1
      BY <1>4, TabFacts
    <3> QED
      BY <1>3, <1>4, <2>3, <3>1, CatchService
  <2>4. CASE Crash
    BY <2>4, CatchStop
  <2> QED
    BY <2>1, <2>2, <2>3, <2>4, NextActs
<1> QED
  BY <1>5, <1>6

-----------------------------------------------------------------------------
(* The initial states, and the theorems.                                   *)

LEMMA CreatedFacts ==
    ASSUME NEW M
    PROVE  /\ Created(1) \in Channels(M) /\ Created(1).snapshot.epoch = 1
           /\ Created(1).updates = {} /\ Created(1).operations = {}
           /\ After(Created(1)) = {} /\ Durable(Created(1)) = {} /\ Restorable(Created(1))
<1>1. /\ Created(1).snapshot = [epoch |-> 1, doc |-> {}, through |-> 0, revision |-> 0]
      /\ Created(1).updates = {} /\ Created(1).operations = {}
      /\ Created(1).revision = 0 /\ Created(1).next = 1
  BY DEF Created
<1>2. After(Created(1)) = {}
  BY <1>1 DEF After
<1>3. Durable(Created(1)) = {}
  BY <1>1, <1>2 DEF Durable
<1>4. Restorable(Created(1))
  BY <1>1, <1>2 DEF Restorable
<1>5. Created(1) \in Channels(M)
  BY DEF Created, Channels
<1> QED
  BY <1>1, <1>2, <1>3, <1>4, <1>5

LEMMA InitTypes ==
    ASSUME Init
    PROVE  TypeOK
<1>1. /\ deps = <<>> /\ bad = {} /\ ch = Created(1) /\ running = FALSE /\ epoch = 1
      /\ live = {} /\ known = {} /\ queue = <<>> /\ phase = "idle" /\ batch = <<>> /\ extra = {}
      /\ due = FALSE /\ asks = {}
      /\ prov = [c \in Clients |-> Fresh(1)]
      /\ online = [c \in Clients |-> FALSE]
      /\ up = [c \in Clients |-> <<>>] /\ down = [c \in Clients |-> <<>>]
      /\ load \in Loads
  BY DEF Init
<1>2. load \in LoadRecords /\ load.epochs \in Nat \ {0}
  BY <1>1, SyncLoads DEF LoadRecords
<1>3. deps \in Seq(SUBSET Edits) /\ Len(deps) <= MaxEdits /\ bad \subseteq Made
  BY <1>1, SyncLoads
<1>4. ch \in Channels(Made)
  BY <1>1, CreatedFacts
<1>5. Fresh(1) \in Providers(Made) /\ ~Fresh(1).opening
  BY FreshFacts
<1>6. prov \in [Clients -> Providers(Made)] /\ \A c \in Clients : ~prov[c].opening
  BY <1>1, <1>5
<1>7. epoch \in 1 .. load.epochs
  BY <1>1, <1>2
<1>8. /\ up \in [Clients -> Seq(Ups(Made))] /\ down \in [Clients -> Seq(Downs(Made))]
      /\ online \in [Clients -> BOOLEAN]
      /\ \A c \in Clients : up[c] = <<>> /\ down[c] = <<>>
  BY <1>1
<1>9. queue \in Seq(Items(Made)) /\ batch \in Seq(Items(Made)) /\ phase \in Phases
  BY <1>1 DEF Phases
<1>10. past \in [Clients -> [mine: SUBSET Made, lost: SUBSET Made]]
  BY DEF Init
<1> QED
  BY <1>1, <1>2, <1>3, <1>4, <1>6, <1>7, <1>8, <1>9, <1>10 DEF TypeOK

LEMMA InitHolds ==
    ASSUME Init
    PROVE  PlanInv /\ SeenDurable
<1>1. /\ ch = Created(1) /\ running = FALSE /\ epoch = 1 /\ bad = {} /\ deps = <<>>
      /\ queue = <<>> /\ phase = "idle" /\ batch = <<>> /\ extra = {} /\ asks = {}
      /\ prov = [c \in Clients |-> Fresh(1)] /\ online = [c \in Clients |-> FALSE]
      /\ up = [c \in Clients |-> <<>>] /\ down = [c \in Clients |-> <<>>]
  BY DEF Init
<1>2. TypeOK
  BY InitTypes
<1>3. /\ ch.snapshot.epoch = 1 /\ ch.updates = {} /\ ch.operations = {} /\ Durable(ch) = {}
      /\ Restorable(ch)
  BY <1>1, CreatedFacts
<1>4. /\ Fresh(1).gen = 1 /\ Fresh(1).epoch = NoEpoch /\ ~Fresh(1).synced
      /\ Fresh(1).doc = {} /\ Fresh(1).mine = {} /\ Fresh(1).outbox = {}
  BY FreshFacts
<1>5. \A c \in Clients : prov[c] = Fresh(1) /\ up[c] = <<>> /\ down[c] = <<>> /\ online[c] = FALSE
  BY <1>1
<1>6. Recoverable
  BY <1>1, <1>3 DEF Recoverable, Valid, Shown
<1>7. InStep
  BY <1>1 DEF InStep
<1>8. JournalInv
  <2>1. load.epochs \in Nat /\ 1 \in 1 .. load.epochs
    BY <1>1, <1>2 DEF TypeOK, LoadRecords
  <2> QED
    BY <1>3, <2>1 DEF JournalInv
<1>9. ChainInv
  BY <1>1, <1>3 DEF ChainInv
<1>10. FrameInv
  BY <1>3, <1>4, <1>5 DEF FrameInv, NoEpoch
<1>11. ASSUME NEW c \in Clients PROVE OwnInv(c) /\ FirstTab(c)
  BY <1>1, <1>4, <1>5 DEF OwnInv, FirstTab
<1>12. ASSUME NEW c \in Clients PROVE CatchUp(c)
  BY <1>1, <1>5 DEF CatchUp, Following
<1>13. SeenDurable
  BY <1>4, <1>5 DEF SeenDurable
<1>14. PlainInv
  <2>1. Fresh(1).counter = 0
    BY DEF Fresh
  <2>2. Cardinality(Fresh(1).mine) = 0
    BY <1>4, FS_EmptySet
  <2>3. ASSUME NEW c \in Clients
        PROVE  /\ prov[c].counter = 0 /\ Cardinality(prov[c].mine) = 0
               /\ prov[c].mine = {} /\ prov[c].outbox = {}
    BY <1>4, <1>5, <2>1, <2>2
  <2>4. \A c \in Clients : up[c] = <<>> /\ down[c] = <<>>
    BY <1>5
  <2>5. queue = <<>> /\ batch = <<>>
    BY <1>1
  <2> QED
    BY <2>3, <2>4, <2>5 DEF PlainInv
<1>15. PastInv
  BY DEF Init, PastInv
<1> QED
  BY <1>2, <1>6, <1>7, <1>8, <1>9, <1>10, <1>11, <1>12, <1>13, <1>14, <1>15 DEF PlanInv, FirstHistory

LEMMA PlanStep ==
    ASSUME PlanInv, SeenDurable, [Next]_vars
    PROVE  PlanInv' /\ SeenDurable'
<1>1. /\ TypeOK /\ ServerInv /\ FrameInv /\ PlainInv /\ PastInv /\ FirstHistory
      /\ \A c \in Clients : OwnInv(c)
  BY DEF PlanInv, ServerInv
<1>2. CASE Next
  <2>1. TypeOK'
    BY <1>1, <1>2, TypeStep
  <2>2. ServerInv'
    BY <1>1, <1>2, ServerStep
  <2>3. FrameInv'
    BY <1>1, <1>2, FrameStep
  <2>4. FirstHistory'
    BY <1>1, <1>2, FirstHistoryStep
  <2>5. SeenDurable'
    BY <1>1, <1>2, SeenStep
  <2>6. \A c \in Clients : OwnInv(c)'
    BY <1>1, <1>2, OwnStep
  <2>7. PlainInv'
    BY <1>1, <1>2, PlainStep
  <2>8. PastInv'
    BY <1>1, <1>2, <2>2, PastStep, ServerStep DEF StoreStep
  <2> QED
    BY <2>1, <2>2, <2>3, <2>4, <2>5, <2>6, <2>7, <2>8 DEF PlanInv, ServerInv
<1>3. CASE UNCHANGED vars
  <2>1. /\ deps' = deps /\ bad' = bad /\ ch' = ch /\ running' = running /\ epoch' = epoch
        /\ live' = live /\ known' = known /\ saved' = saved /\ due' = due /\ queue' = queue
        /\ phase' = phase /\ batch' = batch /\ extra' = extra /\ asks' = asks
        /\ prov' = prov /\ online' = online /\ up' = up /\ down' = down /\ load' = load
        /\ past' = past
    BY <1>3 DEF vars, edits, room, chain, tabs
  <2>2. Made' = Made
    BY <2>1 DEF Made
  <2>3. TypeOK'
    BY <1>1, <2>1, <2>2 DEF TypeOK
  <2>4. Recoverable' /\ InStep' /\ JournalInv'
    BY <1>1, <2>1 DEF ServerInv, Recoverable, Valid, Shown, InStep, Saved, JournalInv
  <2>5. ChainInv'
    BY <1>1, <2>1 DEF ServerInv, ChainInv, BatchEdits
  <2>6. FrameInv'
    BY <1>1, <2>1 DEF FrameInv
  <2>7. FirstHistory'
    BY <1>1, <2>1, <2>2 DEF FirstHistory, FirstTab, CatchUp, Following, Relayed
  <2>8. SeenDurable'
    BY <2>1 DEF SeenDurable, Current
  <2>9. \A c \in Clients : OwnInv(c)'
    BY <1>1, <2>1, <2>2 DEF OwnInv
  <2>10. PlainInv'
    BY <1>1, <2>1 DEF PlainInv
  <2>11. PastInv'
    BY <1>1, <2>1 DEF PastInv
  <2> QED
    BY <2>3, <2>4, <2>5, <2>6, <2>7, <2>8, <2>9, <2>10, <2>11 DEF PlanInv
<1> QED
  BY <1>2, <1>3

(* The service's chain, the rows and the tabs agree at every await of      *)
(* commit, rejectBatch, checkpoint, close and restore, whatever sockets    *)
(* are lost and wherever the server stops.                                 *)
THEOREM PlanCorrect == Spec => []PlanInv
<1>1. Init => PlanInv /\ SeenDurable
  BY InitHolds
<1>2. PlanInv /\ SeenDurable /\ [Next]_vars => (PlanInv /\ SeenDurable)'
  BY PlanStep
<1> QED
  BY <1>1, <1>2, PTL DEF Spec

(* Nothing is relayed, acknowledged or put in an open's reply before its   *)
(* commit: a tab sees only durable edits and its own.                      *)
THEOREM SeenIsDurable == Spec => []SeenDurable
<1>1. Init => PlanInv /\ SeenDurable
  BY InitHolds
<1>2. PlanInv /\ SeenDurable /\ [Next]_vars => (PlanInv /\ SeenDurable)'
  BY PlanStep
<1> QED
  BY <1>1, <1>2, PTL DEF Spec

(* No transaction on the channel's rows, not even the replacement of a     *)
(* rejected batch's history, takes a committed edit out of the document.   *)
THEOREM CommittedNeverLost == Spec => CommittedStays
<1>1. PlanInv /\ [Next]_vars => [Durable(ch) \subseteq Durable(ch')]_vars
  <2> SUFFICES ASSUME PlanInv, [Next]_vars PROVE Durable(ch) \subseteq Durable(ch')
    OBVIOUS
  <2>1. CASE Next
    <3>1. StoreStep
      BY <2>1, ServerStep DEF PlanInv, ServerInv
    <3> QED
      BY <3>1 DEF StoreStep
  <2>2. CASE UNCHANGED vars
    BY <2>2 DEF vars
  <2> QED
    BY <2>1, <2>2
<1> QED
  BY <1>1, PlanCorrect, PTL DEF Spec, CommittedStays

(* No acknowledgement, merge, resend, lost socket or crash leaves an edit  *)
(* that neither the tab's outbox nor the channel's rows hold, and what a   *)
(* rejected batch makes the tab discard is in the rows or is reported lost *)
(* (onReset): every edit of a tab's first provider, and those of a later   *)
(* one that has merged nothing, whose entries' ids start again.            *)
THEOREM EditsKept == Spec => []NothingLost
<1>1. ASSUME PlanInv PROVE NothingLost
  <2> SUFFICES ASSUME NEW c \in Clients
               PROVE  past[c].mine \cup Accountable(prov[c])
                          \subseteq Durable(ch) \cup Held(prov[c]) \cup past[c].lost
    BY DEF NothingLost
  <2>1. Accountable(prov[c]) \subseteq Durable(ch) \cup Held(prov[c])
    BY <1>1, AccountableKept DEF PlanInv
  <2>2. past[c].mine \subseteq Durable(ch) \cup past[c].lost
    BY <1>1 DEF PlanInv, PastInv
  <2> QED
    BY <2>1, <2>2
<1>2. PlanInv => NothingLost
  BY <1>1
<1> QED
  BY <1>2, PlanCorrect, PTL

(* As long as no batch was rejected, tabs with nothing under way show what *)
(* the server shows: no relay or reply to an open was missed.              *)
THEOREM TabsConverge == Spec => []Converged
<1>1. ASSUME PlanInv, SeenDurable PROVE Converged
  <2> SUFFICES ASSUME epoch = 1, NEW c \in Clients, Quiet(c)
               PROVE  prov[c].epoch = 1 /\ prov[c].doc = live
    BY DEF Converged
  <2>1. /\ TypeOK /\ ServerInv /\ FrameInv /\ FirstHistory
        /\ \A d \in Clients : OwnInv(d)
    BY <1>1 DEF PlanInv, ServerInv
  <2>2. /\ running /\ online[c] /\ phase = "idle" /\ asks = {} /\ up[c] = <<>> /\ down[c] = <<>>
        /\ prov[c].synced /\ prov[c].outbox = {}
    BY DEF Quiet
  <2>3. ch.snapshot.epoch = 1
    BY <2>1, <2>2 DEF ServerInv, InStep
  <2>4. live = Durable(ch) /\ known = live
    BY <2>1, <2>2 DEF ServerInv, InStep
  <2>5. prov[c] \in Providers(Made)
    BY <2>1 DEF TypeOK
  <2>6. prov[c].epoch = 1
    <3>1. prov[c].epoch <= 1 /\ prov[c].epoch # NoEpoch
      BY <2>1, <2>2, <2>3, FrameFacts
    <3>2. prov[c].epoch \in Nat
      BY <2>5, ProviderFields
    <3> QED
      BY <3>1, <3>2 DEF NoEpoch
  <2>7. FirstTab(c) /\ CatchUp(c)
    BY <2>1, <2>3 DEF FirstHistory
  <2>8. Following(c)
    BY <2>2 DEF Following
  <2>9. Relayed(c, 0) = {}
    BY <2>2 DEF Relayed
  <2>10. known \subseteq prov[c].doc
    BY <2>7, <2>8, <2>9 DEF CatchUp
  <2>11. Held(prov[c]) = {}
    BY <2>2 DEF Held
  <2>12. prov[c].mine \subseteq Durable(ch)
    <3>1. prov[c].gen = 1
      BY <2>7, TabFacts
    <3> QED
      BY <2>1, <2>11, <3>1, OwnFacts
  <2>13. prov[c].doc \subseteq Durable(ch) \cup prov[c].mine
    BY <1>1, <2>3, <2>6 DEF SeenDurable, Current
  <2> QED
    BY <2>4, <2>6, <2>10, <2>12, <2>13
<1>2. PlanInv /\ SeenDurable => Converged
  BY <1>1
<1> QED
  BY <1>2, PlanCorrect, SeenIsDurable, PTL
=============================================================================
