--------------------------- MODULE SegmentsProofs ---------------------------
(* Proofs about Segments, for every value of its constants. *)
EXTENDS Segments, FiniteSetTheorems, WellFoundedInduction, TLAPS

(* A list is a function from a set of slots to parts. *)
LEMMA ListElim ==
    ASSUME NEW l \in Lists
    PROVE  DOMAIN l \subseteq Slots /\ l \in [DOMAIN l -> Part]
BY DEF Lists

(* Any function from slots to parts is a list. *)
LEMMA ListIntro ==
    ASSUME NEW S \in SUBSET Slots, NEW l \in [S -> Part]
    PROVE  l \in Lists
BY DEF Lists

(* Every non-empty list has a first part (NewGroup's empty list has none). *)
LEMMA FirstExists ==
    ASSUME NEW l \in Lists, DOMAIN l # {}
    PROVE  First(l) \in DOMAIN l
<1>1. DOMAIN l \subseteq Nat
  BY ListElim, LimitsAssumption DEF Slots
<1>2. \E x \in DOMAIN l : \A y \in DOMAIN l : ~ (<<y, x>> \in OpToRel(<, Nat))
  BY <1>1, NatLessThanWellFounded, WFMin
<1>3. PICK x \in DOMAIN l : \A y \in DOMAIN l : ~ (<<y, x>> \in OpToRel(<, Nat))
  BY <1>2
<1>4. ASSUME NEW y \in DOMAIN l PROVE x <= y
  <2>1. <<y, x>> \in Nat \X Nat /\ <<y, x>>[1] = y /\ <<y, x>>[2] = x
    BY <1>1
  <2>2. ~ (y < x)
    BY <2>1, <1>3 DEF OpToRel
  <2> QED
    BY <1>1, <2>2
<1> QED
  BY <1>4 DEF First

(* The parts of a bucket can be counted, and there are never too many. *)
LEMMA PartsCounted ==
    ASSUME NEW S \in SUBSET Slots
    PROVE  IsFiniteSet(S) /\ Cardinality(S) \in 0 .. MaxSegments
<1> MaxSegments \in Int /\ 1 \in Int /\ MaxSegments >= 2
  BY LimitsAssumption
<1>1. IsFiniteSet(Slots) /\ Cardinality(Slots) = MaxSegments
  BY FS_Interval, 1 <= MaxSegments, MaxSegments - 1 + 1 = MaxSegments DEF Slots
<1>2. IsFiniteSet(S) /\ Cardinality(S) <= MaxSegments /\ Cardinality(S) \in Nat
  BY <1>1, FS_Subset, FS_CardinalityType
<1> QED
  BY <1>2, LimitsAssumption

(* The empty bucket is a bucket. *)
LEMMA NewGroupType ==
    ASSUME NEW n \in 0 .. MaxSegments
    PROVE  /\ NewGroup(n) \in Group
           /\ DOMAIN NewGroup(n).list = {}
           /\ NewGroup(n).count = 0
           /\ NewGroup(n).expected = n
           /\ NewGroup(n).deliveryReceiptRequested = FALSE
<1>0. [i \in {} |-> 0] \in [{} -> Part] /\ {} \in SUBSET Slots
  OBVIOUS
<1>1. [i \in {} |-> 0] \in Lists
  BY <1>0, ListIntro
<1> QED
  BY <1>1, LimitsAssumption DEF NewGroup, Group

-----------------------------------------------------------------------------
(* The bucket AddSegment works on. *)

(* It is well formed, and either the one in the map or empty. *)
LEMMA GroupForSound ==
    ASSUME TypeOK, GroupsCoherent, NEW m \in Messages, Total[m] <= MaxSegments
    PROVE  LET g == GroupFor(m) IN
           /\ g \in Group
           /\ DOMAIN g.list \subseteq 1 .. g.expected
           /\ g.count = Cardinality(DOMAIN g.list)
           /\ g.count = 0 <=> DOMAIN g.list = {}
           /\ \/ g = segments[GroupOf(m)]
              \/ DOMAIN g.list = {} /\ DOMAIN segments[GroupOf(m)].list = {}
<1> DEFINE k == GroupOf(m)
<1>1. k \in Keys /\ segments[k] \in Group
  BY DEF Keys, TypeOK
<1>2. CASE Open(k)
  <2>1. /\ DOMAIN segments[k].list \subseteq 1 .. segments[k].expected
        /\ segments[k].count = Cardinality(DOMAIN segments[k].list)
        /\ DOMAIN segments[k].list # {}
    BY <1>1, <1>2 DEF GroupsCoherent, PartsOf
  <2>2. segments[k].list \in Lists
    BY <1>1 DEF Group
  <2>3. IsFiniteSet(DOMAIN segments[k].list)
    BY <2>2, ListElim, PartsCounted
  <2>4. segments[k].count # 0
    BY <2>1, <2>3, FS_EmptySet
  <2> QED
    BY <1>1, <1>2, <2>1, <2>4 DEF GroupFor
<1>3. CASE ~Open(k)
  <2>0. Total[m] \in 2 .. 255 /\ MaxSegments \in 2 .. 25
    BY TotalAssumption, LimitsAssumption
  <2>1. Total[m] \in 0 .. MaxSegments
    BY <2>0
  <2>2. GroupFor(m) = NewGroup(Total[m])
    BY <1>3 DEF GroupFor
  <2>3. Cardinality({}) = 0
    BY FS_EmptySet
  <2>4. DOMAIN segments[k].list = {}
    <3>1. DOMAIN segments[k].list \subseteq 1 .. 0
      BY <1>1, <1>3 DEF GroupsCoherent, PartsOf, Open
    <3> QED
      BY <3>1
  <2> QED
    BY <2>1, <2>2, <2>3, <2>4, NewGroupType
<1> QED
  BY <1>2, <1>3

(* Storing a part keeps the bucket well formed, whether or not the slot was taken. *)
LEMMA StoredSound ==
    ASSUME NEW g \in Group, NEW m \in Messages, NEW i \in 1 .. g.expected,
           NEW id \in 1 .. MaxId,
           DOMAIN g.list \subseteq 1 .. g.expected,
           g.count = Cardinality(DOMAIN g.list)
    PROVE  LET s == Stored(g, m, i, id) IN
           /\ s \in Group
           /\ s.expected = g.expected
           /\ DOMAIN s.list = DOMAIN g.list \union {i}
           /\ s.count = Cardinality(DOMAIN s.list)
           /\ s.list[i] = [msg |-> m, id |-> id, age |-> 0]
           /\ \A j \in DOMAIN g.list \ {i} : s.list[j] = g.list[j]
           /\ s.deliveryReceiptRequested = OrRequested(g, m, i)
<1> DEFINE s == Stored(g, m, i, id)
           D == DOMAIN g.list \union {i}
<1>1. g.list \in Lists /\ g.expected \in 0 .. MaxSegments
      /\ g.deliveryReceiptRequested \in BOOLEAN
  BY DEF Group
<1>2. DOMAIN g.list \in SUBSET Slots /\ g.list \in [DOMAIN g.list -> Part]
  BY <1>1, ListElim
<1>3. i \in Slots /\ D \in SUBSET Slots
  BY <1>1, <1>2, LimitsAssumption DEF Slots
<1>4. [msg |-> m, id |-> id, age |-> 0] \in Part
  BY LimitsAssumption DEF Part
<1>5. s.list = [j \in D |-> IF j = i THEN [msg |-> m, id |-> id, age |-> 0]
                                     ELSE g.list[j]]
  BY DEF Stored
<1>6. s.list \in [D -> Part]
  BY <1>2, <1>4, <1>5
<1>7. s.list \in Lists /\ DOMAIN s.list = D
  BY <1>3, <1>6, ListIntro
<1>8. CountWith(g, i) = Cardinality(D)
  <2>1. CASE i \in DOMAIN g.list
    BY <2>1, D = DOMAIN g.list DEF CountWith
  <2>2. CASE i \notin DOMAIN g.list
    BY <1>2, <2>2, PartsCounted, FS_AddElement DEF CountWith
  <2> QED
    BY <2>1, <2>2
<1>9. CountWith(g, i) \in 0 .. MaxSegments
  BY <1>3, <1>8, PartsCounted
<1>10. OrRequested(g, m, i) \in BOOLEAN
  BY <1>1 DEF OrRequested
<1>11. s \in Group
  BY <1>1, <1>7, <1>9, <1>10 DEF Stored, Group
<1> HIDE DEF D
<1> QED
  BY <1>5, <1>7, <1>8, <1>11 DEF Stored, D

-----------------------------------------------------------------------------
(* Initial states, and steps that leave the buckets alone. *)

(* The absent bucket is well formed. *)
LEMMA NoGroupType ==
    /\ NoGroup \in Group /\ DOMAIN NoGroup.list = {} /\ NoGroup.count = 0
    /\ NoGroup.expected = 0
<1>1. 0 \in 0 .. MaxSegments
  BY LimitsAssumption
<1> QED
  BY <1>1, NewGroupType DEF NoGroup

(* So is the reader's private copy while it holds none. *)
LEMMA NoCompletionType == NoCompletion \in Completion
<1>0. PICK m \in Messages : TRUE
  BY MessagesAssumption
<1>1. \E k \in Keys : TRUE
  BY <1>0 DEF Keys
<1>2. (CHOOSE k \in Keys : TRUE) \in Keys
  BY <1>1
<1> QED
  BY <1>2, NoGroupType, LimitsAssumption DEF NoCompletion, Completion

(* The invariant holds before the first PDU. *)
LEMMA InitIInv == Init => IInv
<1> SUFFICES ASSUME Init PROVE IInv
  OBVIOUS
<1>1. TypeOK
  <2>1. segments \in [Keys -> Group] /\ copy \in Completion
    BY NoGroupType, NoCompletionType DEF Init
  <2>2. nextId \in 1 .. MaxId + 1
    BY LimitsAssumption DEF Init
  <2>3. delivered \in Seq(Delivery) /\ accepted \subseteq Acceptance
    BY DEF Init
  <2> QED
    BY <2>1, <2>2, <2>3 DEF Init, TypeOK
<1>2. \A k \in Keys : segments[k] = NoGroup /\ PartsOf(k) = {} /\ ~Open(k)
  BY NoGroupType DEF Init, PartsOf, Open
<1>3. GroupsCoherent
  BY <1>2, NoGroupType, FS_EmptySet DEF GroupsCoherent
<1>4. OneIdPerBucket /\ RequestsKept /\ CompleteOnlyInWindow
  BY <1>2 DEF OneIdPerBucket, RequestsKept, CompleteOnlyInWindow
<1>5. DOMAIN delivered = {} /\ reader = "check"
  BY DEF Init
<1>6. IdsGenerated /\ DeliveredIdsGone /\ CopySound
  BY <1>2, <1>5 DEF IdsGenerated, DeliveredIdsGone, CopySound
<1>7. DeliveredUnderAnsweredId /\ DeliveredOnce /\ AnyPartRequests
  BY <1>5 DEF DeliveredUnderAnsweredId, DeliveredOnce, AnyPartRequests
<1> QED
  BY <1>1, <1>3, <1>4, <1>6, <1>7 DEF IInv

(* A delivered message is well typed, and ids can be compared. *)
LEMMA DeliveredType ==
    ASSUME TypeOK, NEW n \in DOMAIN delivered
    PROVE  delivered[n] \in Delivery /\ delivered[n].id \in Int
<1>1. delivered \in Seq(Delivery)
  BY DEF TypeOK
<1>2. delivered[n] \in Delivery
  BY <1>1
<1>3. \A d \in Delivery : d.id \in 1 .. MaxId
  BY DEF Delivery
<1> QED
  BY <1>2, <1>3

(* A step that keeps the buckets and the histories, may spend an id, and does not *)
(* enter or leave the window between the two locked sections.                     *)
LEMMA QuietStep ==
    ASSUME IInv, TypeOK',
           UNCHANGED <<segments, copy, accepted, delivered>>,
           nextId' >= nextId,
           reader' = "complete" <=> reader = "complete"
    PROVE  IInv'
<1> USE DEF IInv
<1>1. GroupsCoherent' /\ OneIdPerBucket' /\ RequestsKept'
  BY DEF GroupsCoherent, OneIdPerBucket, RequestsKept, PartsOf, Open
<1>2. IdsGenerated'
  <2>1. \A k \in Keys : \A i \in PartsOf(k) : segments[k].list[i].id \in Int
    BY ListElim DEF TypeOK, Group, PartsOf, Part
  <2>2. \A n \in DOMAIN delivered : delivered[n].id \in Int
    BY DeliveredType
  <2>3. copy.id \in Int
    BY DEF TypeOK, Completion
  <2> QED
    BY <2>1, <2>2, <2>3 DEF IdsGenerated, PartsOf, TypeOK
<1>3. DeliveredIdsGone' /\ CopySound' /\ CompleteOnlyInWindow'
  BY DEF DeliveredIdsGone, CopySound, CompleteOnlyInWindow, PartsOf, Open, isComplete
<1>4. DeliveredUnderAnsweredId' /\ DeliveredOnce' /\ AnyPartRequests'
  BY DEF DeliveredUnderAnsweredId, DeliveredOnce, AnyPartRequests
<1> QED
  BY <1>1, <1>2, <1>3, <1>4

-----------------------------------------------------------------------------
(* Steps that only age parts or remove whole buckets. *)

(* A step whose buckets' parts were all there before keeps the invariant. *)
LEMMA ShrinkStep ==
    ASSUME IInv, TypeOK', GroupsCoherent',
           UNCHANGED <<nextId, accepted>>,
           \A k \in Keys : \A i \in PartsOf(k)' :
               /\ i \in PartsOf(k)
               /\ segments'[k].list[i].id = segments[k].list[i].id
               /\ segments'[k].list[i].msg = segments[k].list[i].msg
               /\ segments'[k].deliveryReceiptRequested =
                     segments[k].deliveryReceiptRequested
    PROVE  OneIdPerBucket' /\ RequestsKept'
<1>1. OneIdPerBucket'
  BY DEF IInv, OneIdPerBucket, PartsOf
<1>2. RequestsKept'
  BY DEF IInv, RequestsKept, PartsOf
<1> QED
  BY <1>1, <1>2

(* Ageing a list keeps its slots, messages and ids. *)
LEMMA AgedList ==
    ASSUME NEW l \in Lists
    PROVE  LET a == [i \in DOMAIN l |-> Older(l[i])] IN
           /\ a \in Lists
           /\ DOMAIN a = DOMAIN l
           /\ \A i \in DOMAIN l : a[i].id = l[i].id /\ a[i].msg = l[i].msg
<1> DEFINE a == [i \in DOMAIN l |-> Older(l[i])]
<1>1. DOMAIN l \in SUBSET Slots /\ l \in [DOMAIN l -> Part]
  BY ListElim
<1>2. \A p \in Part : Older(p) \in Part /\ Older(p).id = p.id /\ Older(p).msg = p.msg
  BY LimitsAssumption DEF Part, Older
<1>3. a \in [DOMAIN l -> Part]
  BY <1>1, <1>2
<1> QED
  BY <1>1, <1>2, <1>3, ListIntro

(* Time passing changes the ages of parts and nothing else. *)
LEMMA TickIInv == ASSUME IInv, Tick PROVE IInv'
<1> DEFINE Aged(k) == [i \in DOMAIN segments[k].list |-> Older(segments[k].list[i])]
<1> USE DEF IInv
<1>1. ASSUME NEW k \in Keys
      PROVE  /\ segments'[k] \in Group
             /\ segments'[k].list = Aged(k)
             /\ segments'[k].count = segments[k].count
             /\ segments'[k].expected = segments[k].expected
             /\ segments'[k].deliveryReceiptRequested =
                   segments[k].deliveryReceiptRequested
             /\ PartsOf(k)' = PartsOf(k)
             /\ \A i \in PartsOf(k) : /\ segments'[k].list[i].id = segments[k].list[i].id
                                      /\ segments'[k].list[i].msg = segments[k].list[i].msg
  <2>1. segments[k] \in Group /\ segments[k].list \in Lists
    BY DEF TypeOK, Group
  <2>2. segments'[k] = [segments[k] EXCEPT !.list = Aged(k)]
    BY DEF Tick
  <2>3. Aged(k) \in Lists
    BY <2>1, AgedList
  <2>4. segments'[k].list = Aged(k)
    BY <2>1, <2>2 DEF Group
  <2> HIDE DEF Aged
  <2>5. /\ segments'[k] \in Group
        /\ segments'[k].count = segments[k].count
        /\ segments'[k].expected = segments[k].expected
        /\ segments'[k].deliveryReceiptRequested = segments[k].deliveryReceiptRequested
    BY <2>1, <2>2, <2>3 DEF Group
  <2> QED
    BY <2>1, <2>4, <2>5, AgedList DEF PartsOf, Aged
<1>2. UNCHANGED <<nextId, reader, copy, accepted, delivered>>
  BY DEF Tick
<1>3. TypeOK'
  <2>1. segments' \in [Keys -> Group]
    BY <1>1 DEF Tick
  <2> QED
    BY <2>1 DEF TypeOK, Tick
<1>4. GroupsCoherent'
  BY <1>1 DEF GroupsCoherent, Open
<1>5. OneIdPerBucket' /\ RequestsKept'
  BY <1>1, <1>2, <1>3, <1>4, ShrinkStep
<1> HIDE DEF Aged
<1>5a. \A k \in Keys : \A i \in PartsOf(k)' :
           i \in PartsOf(k) /\ segments'[k].list[i].id = segments[k].list[i].id
  BY <1>1
<1>6. IdsGenerated' /\ DeliveredIdsGone'
  <2>1. IdsGenerated'
    BY <1>2, <1>5a DEF IdsGenerated
  <2>2. DeliveredIdsGone'
    BY <1>2, <1>5a DEF DeliveredIdsGone
  <2> QED
    BY <2>1, <2>2
<1>7. CopySound'
  BY <1>1, <1>2 DEF CopySound
<1>8. CompleteOnlyInWindow'
  BY <1>1, <1>2 DEF CompleteOnlyInWindow, Open, isComplete, PartsOf
<1>9. DeliveredUnderAnsweredId' /\ DeliveredOnce' /\ AnyPartRequests'
  BY <1>2 DEF DeliveredUnderAnsweredId, DeliveredOnce, AnyPartRequests
<1> QED
  BY <1>3, <1>4, <1>5, <1>6, <1>7, <1>8, <1>9

(* A step that keeps some buckets and removes the others. *)
LEMMA RemoveStep ==
    ASSUME IInv,
           segments' \in [Keys -> Group],
           \A k \in Keys : segments'[k] = segments[k] \/ segments'[k] = NoGroup
    PROVE  /\ GroupsCoherent'
           /\ \A k \in Keys : PartsOf(k)' = {} \/ segments'[k] = segments[k]
           /\ \A k \in Keys : Open(k)' => segments'[k] = segments[k]
<1>1. \A k \in Keys : segments'[k] = NoGroup => PartsOf(k)' = {} /\ ~Open(k)'
  BY NoGroupType DEF PartsOf, Open
<1>2. GroupsCoherent'
  BY <1>1, NoGroupType, FS_EmptySet DEF IInv, GroupsCoherent, PartsOf, Open
<1> QED
  BY <1>1, <1>2

(* What a sweep or a stop does to one shard. *)
LEMMA DropIInv ==
    ASSUME IInv, TypeOK',
           \A k \in Keys : segments'[k] = segments[k] \/ segments'[k] = NoGroup,
           UNCHANGED <<nextId, reader, copy, accepted, delivered>>
    PROVE  IInv'
<1> USE DEF IInv
<1>1. segments' \in [Keys -> Group]
  BY DEF TypeOK
<1>2. /\ GroupsCoherent'
      /\ \A k \in Keys : PartsOf(k)' = {} \/ segments'[k] = segments[k]
      /\ \A k \in Keys : Open(k)' => segments'[k] = segments[k]
  BY <1>1, RemoveStep
<1>3. \A k \in Keys : \A i \in PartsOf(k)' :
          i \in PartsOf(k) /\ segments'[k] = segments[k]
  BY <1>2 DEF PartsOf
<1>4. OneIdPerBucket' /\ RequestsKept'
  BY <1>2, <1>3, ShrinkStep
<1>5. IdsGenerated' /\ DeliveredIdsGone' /\ CopySound'
  BY <1>3 DEF IdsGenerated, DeliveredIdsGone, CopySound
<1>6. CompleteOnlyInWindow'
  BY <1>2 DEF CompleteOnlyInWindow, Open, isComplete
<1>7. DeliveredUnderAnsweredId' /\ DeliveredOnce' /\ AnyPartRequests'
  BY DEF DeliveredUnderAnsweredId, DeliveredOnce, AnyPartRequests
<1> QED
  BY <1>2, <1>4, <1>5, <1>6, <1>7

(* The cleanup routine drops whole buckets of one shard. *)
LEMMA SweepIInv == ASSUME IInv, NEW h \in Shards, SweepShard(h) PROVE IInv'
<1>1. segments' \in [Keys -> Group]
  BY NoGroupType DEF IInv, TypeOK, SweepShard
<1>2. TypeOK'
  BY <1>1 DEF IInv, TypeOK, SweepShard
<1> QED
  BY <1>2, DropIInv DEF SweepShard

(* SegmentsManager.Stop drops whole buckets of one shard. *)
LEMMA ClearIInv == ASSUME IInv, NEW h \in Shards, ClearShard(h) PROVE IInv'
<1>1. segments' \in [Keys -> Group]
  BY NoGroupType DEF IInv, TypeOK, ClearShard
<1>2. TypeOK'
  BY <1>1 DEF IInv, TypeOK, ClearShard
<1> QED
  BY <1>2, DropIInv DEF ClearShard

-----------------------------------------------------------------------------
(* The second locked section: the bucket goes, the message is handed over. *)

(* AddSegment's second locked section: delete the bucket, hand the copy over. *)
LEMMA FinishIInv == ASSUME IInv, FinishComplete PROVE IInv'
<1> DEFINE d == [id |-> copy.id,
                 deliveryReceiptRequested |-> copy.group.deliveryReceiptRequested,
                 parts |-> [i \in DOMAIN copy.group.list |-> copy.group.list[i].msg]]
           n == Len(delivered)
<1> USE DEF IInv
<1>1. /\ delivered' = Append(delivered, d)
      /\ UNCHANGED <<nextId, accepted>>
      /\ reader = "complete" /\ reader' = "check"
      /\ copy' = NoCompletion
      /\ segments' = [segments EXCEPT ![copy.key] = NoGroup]
  BY DEF FinishComplete, Without
<1>2. /\ copy.key \in Keys /\ copy.group \in Group /\ copy.id \in 0 .. MaxId
      /\ copy.id # 0 /\ copy.id < nextId
      /\ DOMAIN copy.group.list = 1 .. copy.group.expected
      /\ \A i \in DOMAIN copy.group.list : LET p == copy.group.list[i] IN
            /\ [msg |-> p.msg, idx |-> i, id |-> copy.id] \in accepted
            /\ <<p.msg, i>> \in Asking => copy.group.deliveryReceiptRequested
  BY <1>1 DEF TypeOK, Completion, CopySound, IdsGenerated
<1>3. /\ copy.group.list \in Lists
      /\ copy.group.expected \in 0 .. MaxSegments
      /\ copy.group.deliveryReceiptRequested \in BOOLEAN
  BY <1>2 DEF Group
<1>4. d.parts \in [DOMAIN copy.group.list -> Messages]
  <2>1. DOMAIN copy.group.list \in SUBSET Slots
        /\ copy.group.list \in [DOMAIN copy.group.list -> Part]
    BY <1>3, ListElim
  <2>2. \A p \in Part : p.msg \in Messages
    BY DEF Part
  <2> QED
    BY <2>1, <2>2
<1>5. d \in Delivery
  <2>1. DOMAIN copy.group.list \in SUBSET Slots
    BY <1>3, ListElim
  <2>2. copy.id \in 1 .. MaxId
    BY <1>2, LimitsAssumption
  <2> QED
    BY <1>3, <1>4, <2>1, <2>2 DEF Delivery
<1>6. /\ d.id = copy.id
      /\ d.deliveryReceiptRequested = copy.group.deliveryReceiptRequested
      /\ DOMAIN d.parts = DOMAIN copy.group.list
      /\ \A i \in DOMAIN d.parts : d.parts[i] = copy.group.list[i].msg
  OBVIOUS
<1>7. /\ n \in Nat /\ DOMAIN delivered = 1 .. n /\ DOMAIN delivered' = 1 .. n + 1
      /\ delivered'[n + 1] = d
      /\ \A j \in 1 .. n : delivered'[j] = delivered[j]
      /\ delivered' \in Seq(Delivery)
  BY <1>1, <1>5 DEF TypeOK
<1> HIDE DEF d, n
<1>8. \A k \in Keys : segments'[k] = segments[k] \/ segments'[k] = NoGroup
  BY <1>1 DEF TypeOK
<1>9. segments' \in [Keys -> Group]
  BY <1>1, NoGroupType DEF TypeOK
<1>9a. \A k \in Keys : k = copy.key => PartsOf(k)' = {} /\ ~Open(k)'
  <2>1. \A k \in Keys : k = copy.key => segments'[k] = NoGroup
    BY <1>1, <1>2 DEF TypeOK
  <2> QED
    BY <2>1, NoGroupType DEF PartsOf, Open
<1>10. TypeOK'
  BY <1>1, <1>7, <1>9, NoCompletionType DEF TypeOK, FinishComplete
<1>11. /\ GroupsCoherent'
       /\ \A k \in Keys : PartsOf(k)' = {} \/ segments'[k] = segments[k]
       /\ \A k \in Keys : Open(k)' => segments'[k] = segments[k]
  BY <1>8, <1>9, RemoveStep
<1>12. \A k \in Keys : \A i \in PartsOf(k)' :
           i \in PartsOf(k) /\ segments'[k] = segments[k]
  BY <1>11 DEF PartsOf
<1>13. OneIdPerBucket' /\ RequestsKept'
  BY <1>1, <1>10, <1>11, <1>12, ShrinkStep
<1>14. \A k \in Keys : \A i \in PartsOf(k)' : segments'[k].list[i].id # copy.id
  <2>1. ASSUME NEW k \in Keys, NEW i \in PartsOf(k)'
        PROVE  segments'[k].list[i].id # copy.id
    <3>1. k # copy.key
      BY <1>9a, <2>1
    <3>2. segments[k].list[i].id # copy.id
      BY <1>1, <1>12, <2>1, <3>1 DEF CopySound
    <3> QED
      BY <1>12, <2>1, <3>2
  <2> QED
    BY <2>1
<1>15. IdsGenerated'
  BY <1>1, <1>2, <1>6, <1>7, <1>12 DEF IdsGenerated
<1>16. DeliveredIdsGone' /\ CopySound'
  BY <1>1, <1>6, <1>7, <1>12, <1>14 DEF DeliveredIdsGone, CopySound
<1>17. CompleteOnlyInWindow'
  <2>2. \A k \in Keys : Open(k)' => segments'[k] = segments[k] /\ k # copy.key
    BY <1>9a, <1>11
  <2> QED
    BY <1>1, <2>2 DEF CompleteOnlyInWindow, Open
<1>18. DeliveredUnderAnsweredId'
  <2>1. DOMAIN d.parts = 1 .. Cardinality(DOMAIN d.parts)
    <3>1. 1 \in Int /\ copy.group.expected \in Int
      BY <1>3
    <3>2. Cardinality(1 .. copy.group.expected) =
              IF 1 > copy.group.expected THEN 0 ELSE copy.group.expected - 1 + 1
      BY <3>1, FS_Interval
    <3>3. 1 .. copy.group.expected = 1 .. Cardinality(1 .. copy.group.expected)
      BY <1>3, <3>2
    <3> QED
      BY <1>2, <1>6, <3>3
  <2>2. \A i \in DOMAIN d.parts : [msg |-> d.parts[i], idx |-> i, id |-> d.id] \in accepted'
    BY <1>1, <1>2, <1>6
  <2> QED
    BY <1>1, <1>7, <2>1, <2>2 DEF DeliveredUnderAnsweredId
<1>19. DeliveredOnce'
  <2>1. \A j \in 1 .. n : delivered'[j].id # d.id
    BY <1>1, <1>6, <1>7 DEF DeliveredIdsGone
  <2> QED
    BY <1>7, <2>1 DEF DeliveredOnce
<1>20. AnyPartRequests'
  <2>1. (\E i \in DOMAIN d.parts : <<d.parts[i], i>> \in Asking)
            => d.deliveryReceiptRequested
    BY <1>2, <1>6
  <2>2. ASSUME NEW j \in DOMAIN delivered',
               \E i \in DOMAIN delivered'[j].parts : <<delivered'[j].parts[i], i>> \in Asking
        PROVE  delivered'[j].deliveryReceiptRequested
    <3>1. CASE j = n + 1
      BY <1>7, <2>1, <2>2, <3>1
    <3>2. CASE j \in 1 .. n
      BY <1>7, <2>2, <3>2 DEF AnyPartRequests
    <3> QED
      BY <1>7, <3>1, <3>2
  <2> QED
    BY <2>2 DEF AnyPartRequests
<1> QED
  BY <1>10, <1>11, <1>13, <1>15, <1>16, <1>17, <1>18, <1>19, <1>20

-----------------------------------------------------------------------------
(* The first locked section. *)

(* Two waiting parts share an id exactly when they share a bucket. *)
LEMMA SameIdSameBucket ==
    ASSUME OneIdPerBucket, NEW k \in Keys, NEW i \in PartsOf(k),
           NEW l \in Keys, NEW j \in PartsOf(l)
    PROVE  (segments[l].list[j].id = segments[k].list[i].id) <=> (k = l)
<1>1. \A b \in Keys : \A h \in PartsOf(b) :
          (segments[b].list[h].id = segments[k].list[i].id) <=> (k = b)
  BY DEF OneIdPerBucket
<1> QED
  BY <1>1

(* The id a part is stored under: generated, not yet delivered, that of every *)
(* part already in the bucket, and that of no part in another bucket.         *)
LEMMA StoredId ==
    ASSUME IInv, NEW m \in Messages, Total[m] <= MaxSegments, nextId <= MaxId
    PROVE  LET id == MessageIDFor(GroupFor(m), nextId) IN
           /\ id \in 1 .. MaxId /\ id < nextId + 1
           /\ \A j \in DOMAIN GroupFor(m).list :
                  /\ GroupFor(m) = segments[GroupOf(m)]
                  /\ GroupFor(m).list[j].id = id
           /\ \A l \in Keys : \A j \in PartsOf(l) :
                  segments[l].list[j].id = id => l = GroupOf(m)
           /\ \A n \in DOMAIN delivered : delivered[n].id # id
<1> DEFINE G == GroupFor(m)
           k == GroupOf(m)
           id == MessageIDFor(G, nextId)
<1>1. /\ G \in Group
      /\ G.count = 0 <=> DOMAIN G.list = {}
      /\ G = segments[k] \/ DOMAIN G.list = {}
  BY GroupForSound DEF IInv
<1>2. k \in Keys
  BY DEF Keys
<1>3. nextId \in 1 .. MaxId
  BY LimitsAssumption DEF IInv, TypeOK
<1>4. \A l \in Keys : \A j \in PartsOf(l) : segments[l].list[j].id \in 1 .. MaxId
  BY ListElim DEF IInv, TypeOK, Group, PartsOf, Part
<1> HIDE DEF G
<1>5. CASE G.count = 0
  <2>1. id = nextId /\ DOMAIN G.list = {}
    BY <1>1, <1>5 DEF MessageIDFor
  <2>2. \A l \in Keys : \A j \in PartsOf(l) : segments[l].list[j].id # id
    BY <1>3, <1>4, <2>1 DEF IInv, IdsGenerated
  <2>3. \A n \in DOMAIN delivered : delivered[n].id # id
    BY <1>3, <2>1, DeliveredType DEF IInv, IdsGenerated
  <2> QED
    BY <1>3, <2>1, <2>2, <2>3 DEF G
<1>6. CASE G.count # 0
  <2> DEFINE f == First(G.list)
  <2>1. G.list \in Lists
    BY <1>1 DEF Group
  <2>2. f \in DOMAIN G.list /\ G = segments[k] /\ id = G.list[f].id
    BY <1>1, <1>6, <2>1, FirstExists DEF MessageIDFor
  <2> HIDE DEF f, id, k
  <2>3. f \in PartsOf(k) /\ id = segments[k].list[f].id
    BY <2>2 DEF PartsOf
  <2>3a. OneIdPerBucket
    BY DEF IInv
  <2>4. ASSUME NEW l \in Keys, NEW j \in PartsOf(l)
        PROVE  segments[l].list[j].id = id <=> k = l
    <3>1. segments[l].list[j].id = segments[k].list[f].id <=> k = l
      BY <1>2, <2>3, <2>3a, <2>4, SameIdSameBucket
    <3> QED
      BY <2>3, <3>1
  <2>5. id \in 1 .. MaxId /\ id < nextId
    BY <1>2, <1>4, <2>3 DEF IInv, IdsGenerated
  <2>6. \A n \in DOMAIN delivered : delivered[n].id # id
    BY <1>2, <2>3 DEF IInv, DeliveredIdsGone
  <2>7. \A j \in DOMAIN G.list : G = segments[k] /\ G.list[j].id = id
    BY <1>2, <2>2, <2>4 DEF PartsOf
  <2> QED
    BY <1>3, <2>4, <2>5, <2>6, <2>7 DEF G, k, id
<1> QED
  BY <1>1, <1>5, <1>6 DEF Group

(* AddSegment's first locked section: store a part, perhaps copy the bucket. *)
LEMMA AddIInv ==
    ASSUME IInv, NEW m \in Messages, NEW i \in 0 .. Total[m] + 1, AddPart(m, i)
    PROVE  IInv'
<1> DEFINE k  == GroupOf(m)
           G  == GroupFor(m)
           id == MessageIDFor(G, nextId)
           g  == Stored(G, m, i, id)
<1>1. /\ reader = "read" /\ nextId <= MaxId
      /\ ValidHeader(m, i)
      /\ G.expected = Total[m]
      /\ nextId' = nextId + 1
      /\ segments' = [segments EXCEPT ![k] = g]
      /\ accepted' = accepted \union {[msg |-> m, idx |-> i, id |-> id]}
      /\ \/ isComplete(g) /\ reader' = "complete" /\ copy' = [key |-> k, group |-> g, id |-> id]
         \/ ~isComplete(g) /\ reader' = "check" /\ copy' = copy
      /\ UNCHANGED <<cleaner, due, toSweep, ctxDone, toClear, delivered>>
  BY DEF AddPart
<1>2. i \in 1 .. Total[m] /\ Total[m] <= MaxSegments /\ Total[m] \in 2 .. 255
  <2>1. Total[m] \in 2 .. 255
    BY TotalAssumption
  <2> QED
    BY <1>1, <2>1 DEF ValidHeader
<1>3. k \in Keys
  BY DEF Keys
<1>4. /\ G \in Group
      /\ DOMAIN G.list \subseteq 1 .. G.expected
      /\ G.count = Cardinality(DOMAIN G.list)
  BY <1>2, GroupForSound DEF IInv
<1>5. /\ id \in 1 .. MaxId /\ id < nextId + 1
      /\ \A j \in DOMAIN G.list : G = segments[k] /\ G.list[j].id = id
      /\ \A l \in Keys : \A j \in PartsOf(l) : segments[l].list[j].id = id => l = k
      /\ \A n \in DOMAIN delivered : delivered[n].id # id
  BY <1>1, <1>2, StoredId
<1>6. i \in 1 .. G.expected
  BY <1>1, <1>2
<1> HIDE DEF G, id
<1>7. /\ g \in Group
      /\ g.expected = G.expected
      /\ DOMAIN g.list = DOMAIN G.list \union {i}
      /\ g.count = Cardinality(DOMAIN g.list)
      /\ g.list[i] = [msg |-> m, id |-> id, age |-> 0]
      /\ \A j \in DOMAIN G.list \ {i} : g.list[j] = G.list[j]
      /\ g.deliveryReceiptRequested = OrRequested(G, m, i)
  BY <1>4, <1>5, <1>6, StoredSound
<1> HIDE DEF g, k
<1>8. /\ segments' \in [Keys -> Group]
      /\ segments'[k] = g
      /\ \A l \in Keys \ {k} : segments'[l] = segments[l]
  BY <1>1, <1>3, <1>7 DEF IInv, TypeOK
<1>9. ASSUME NEW j \in DOMAIN g.list
      PROVE  /\ g.list[j].id = id
             /\ [msg |-> g.list[j].msg, idx |-> j, id |-> id] \in accepted'
             /\ <<g.list[j].msg, j>> \in Asking => g.deliveryReceiptRequested
  <2>1. CASE j = i
    <3>1. g.list[j].msg = m /\ g.list[j].id = id
      BY <1>7, <2>1
    <3>2. [msg |-> m, idx |-> j, id |-> id] \in accepted'
      BY <1>1, <2>1
    <3>3. <<m, j>> \in Asking => g.deliveryReceiptRequested
      BY <1>7, <2>1 DEF OrRequested
    <3> QED
      BY <3>1, <3>2, <3>3
  <2>2. CASE j # i
    <3>1. j \in PartsOf(k) /\ G = segments[k] /\ G.list[j].id = id /\ g.list[j] = G.list[j]
      BY <1>5, <1>7, <2>2 DEF PartsOf
    <3>2. [msg |-> G.list[j].msg, idx |-> j, id |-> id] \in accepted
      BY <1>3, <3>1 DEF IInv, OneIdPerBucket
    <3>3. <<G.list[j].msg, j>> \in Asking => G.deliveryReceiptRequested
      BY <1>3, <3>1 DEF IInv, RequestsKept
    <3> QED
      BY <1>1, <1>7, <3>1, <3>2, <3>3 DEF OrRequested
  <2> QED
    BY <2>1, <2>2
<1>10. \A l \in Keys : \/ l = k /\ PartsOf(l)' = DOMAIN g.list /\ segments'[l] = g
                       \/ l # k /\ PartsOf(l)' = PartsOf(l) /\ segments'[l] = segments[l]
  BY <1>8 DEF PartsOf
<1>11. TypeOK'
  <2>1. nextId' \in 1 .. MaxId + 1
    BY <1>1, LimitsAssumption DEF IInv, TypeOK
  <2>2. copy' \in Completion
    <3>1. id \in 0 .. MaxId
      BY <1>5
    <3> QED
      BY <1>1, <1>3, <1>7, <3>1 DEF IInv, TypeOK, Completion
  <2>3. [msg |-> m, idx |-> i, id |-> id] \in Acceptance
    <3>1. i \in Slots
      BY <1>2, LimitsAssumption DEF Slots
    <3> QED
      BY <1>5, <3>1 DEF Acceptance
  <2> QED
    BY <1>1, <1>8, <2>1, <2>2, <2>3 DEF IInv, TypeOK
<1>12. GroupsCoherent'
  <2>1. /\ DOMAIN g.list \subseteq 1 .. g.expected
        /\ g.count = Cardinality(DOMAIN g.list)
        /\ DOMAIN g.list # {}
    BY <1>4, <1>6, <1>7
  <2> QED
    BY <1>10, <2>1 DEF IInv, GroupsCoherent, Open
<1>13. OneIdPerBucket'
  <2>1. ASSUME NEW a \in Keys, NEW j \in PartsOf(a)'
        PROVE  /\ [msg |-> segments'[a].list[j].msg, idx |-> j,
                   id |-> segments'[a].list[j].id] \in accepted'
               /\ \A l \in Keys : \A h \in PartsOf(l)' :
                     segments'[l].list[h].id = segments'[a].list[j].id <=> a = l
    <3>1. CASE a = k
      <4>1. segments'[a].list[j].id = id /\ segments'[a] = g /\ j \in DOMAIN g.list
        BY <1>9, <1>10, <2>1, <3>1
      <4>2. ASSUME NEW l \in Keys, NEW h \in PartsOf(l)'
            PROVE  segments'[l].list[h].id = id <=> k = l
        <5>1. CASE l = k
          BY <1>9, <1>10, <4>2, <5>1
        <5>2. CASE l # k
          BY <1>5, <1>10, <4>2, <5>2
        <5> QED
          BY <5>1, <5>2
      <4> QED
        BY <1>9, <3>1, <4>1, <4>2
    <3>2. CASE a # k
      <4>1. j \in PartsOf(a) /\ segments'[a] = segments[a]
        BY <1>10, <2>1, <3>2
      <4>2. /\ [msg |-> segments[a].list[j].msg, idx |-> j,
                id |-> segments[a].list[j].id] \in accepted
            /\ \A l \in Keys : \A h \in PartsOf(l) :
                  segments[l].list[h].id = segments[a].list[j].id <=> a = l
        BY <4>1 DEF IInv, OneIdPerBucket
      <4>3. segments[a].list[j].id # id
        BY <1>5, <3>2, <4>1
      <4>4. ASSUME NEW l \in Keys, NEW h \in PartsOf(l)'
            PROVE  segments'[l].list[h].id = segments'[a].list[j].id <=> a = l
        <5>1. CASE l = k
          BY <1>9, <1>10, <3>2, <4>1, <4>3, <4>4, <5>1
        <5>2. CASE l # k
          BY <1>10, <4>1, <4>2, <4>4, <5>2
        <5> QED
          BY <5>1, <5>2
      <4> QED
        BY <1>1, <4>1, <4>2, <4>4
    <3> QED
      BY <3>1, <3>2
  <2> QED
    BY <2>1 DEF OneIdPerBucket
<1>14. IdsGenerated'
  <2>1. nextId \in Int
    BY DEF IInv, TypeOK
  <2>2. \A l \in Keys : \A j \in PartsOf(l) :
            segments[l].list[j].id < nextId /\ segments[l].list[j].id \in Int
    BY ListElim DEF IInv, IdsGenerated, TypeOK, Group, PartsOf, Part
  <2>3. ASSUME NEW l \in Keys, NEW j \in PartsOf(l)'
        PROVE  segments'[l].list[j].id < nextId'
    <3>1. CASE l = k
      <4>1. segments'[l].list[j].id = id
        BY <1>9, <1>10, <2>3, <3>1
      <4>2. id < nextId'
        BY <1>1, <1>5
      <4> QED
        BY <4>1, <4>2
    <3>2. CASE l # k
      BY <1>1, <1>10, <2>1, <2>2, <2>3, <3>2
    <3> QED
      BY <3>1, <3>2
  <2>4. \A n \in DOMAIN delivered' : delivered'[n].id < nextId'
    BY <1>1, <2>1, DeliveredType DEF IInv, IdsGenerated
  <2>5. reader' = "complete" => copy'.id < nextId'
    BY <1>1, <1>5
  <2> QED
    BY <2>3, <2>4, <2>5 DEF IdsGenerated
<1>15. DeliveredIdsGone'
  <2>1. ASSUME NEW n \in DOMAIN delivered'
        PROVE  /\ \A l \in Keys : \A j \in PartsOf(l)' :
                     segments'[l].list[j].id # delivered'[n].id
               /\ reader' = "complete" => copy'.id # delivered'[n].id
    <3>1. /\ n \in DOMAIN delivered /\ delivered'[n] = delivered[n]
          /\ delivered[n].id # id
          /\ \A l \in Keys : \A j \in PartsOf(l) : segments[l].list[j].id # delivered[n].id
      BY <1>1, <1>5, <2>1 DEF IInv, DeliveredIdsGone
    <3>2. \A l \in Keys : \A j \in PartsOf(l)' : segments'[l].list[j].id # delivered[n].id
      BY <1>9, <1>10, <3>1
    <3> QED
      BY <1>1, <3>1, <3>2
  <2> QED
    BY <2>1 DEF DeliveredIdsGone
<1>16. RequestsKept'
  BY <1>9, <1>10 DEF IInv, RequestsKept
<1>17. CopySound'
  <2>1. SUFFICES ASSUME reader' = "complete" PROVE CopySound'
    BY DEF CopySound
  <2>2. isComplete(g) /\ copy' = [key |-> k, group |-> g, id |-> id]
    BY <1>1, <2>1
  <2>3. DOMAIN g.list = 1 .. g.expected
    BY <1>4, <1>6, <1>7, <2>2 DEF isComplete
  <2>4. \A l \in Keys : \A j \in PartsOf(l)' : segments'[l].list[j].id = id => l = k
    BY <1>5, <1>10
  <2>5. copy'.key = k /\ copy'.group = g /\ copy'.id = id /\ id # 0
    BY <1>5, <2>2
  <2> QED
    BY <1>9, <2>3, <2>4, <2>5 DEF CopySound
<1>18. CompleteOnlyInWindow'
  <2>1. \A l \in Keys : ~(Open(l) /\ isComplete(segments[l]))
    BY <1>1 DEF IInv, CompleteOnlyInWindow
  <2>2. ASSUME NEW l \in Keys, Open(l)', isComplete(segments'[l])
        PROVE  l = k
    BY <1>10, <2>1, <2>2 DEF Open
  <2> QED
    BY <1>1, <1>8, <2>2 DEF CompleteOnlyInWindow, isComplete
<1>19. DeliveredUnderAnsweredId' /\ DeliveredOnce' /\ AnyPartRequests'
  BY <1>1 DEF IInv, DeliveredUnderAnsweredId, DeliveredOnce, AnyPartRequests
<1> QED
  BY <1>11, <1>12, <1>13, <1>14, <1>15, <1>16, <1>17, <1>18, <1>19 DEF IInv

-----------------------------------------------------------------------------
(* Every step preserves the invariant. *)

(* Every step of every goroutine keeps the invariant. *)
LEMMA NextIInv == IInv /\ [Next]_vars => IInv'
<1> SUFFICES ASSUME IInv, [Next]_vars PROVE IInv'
  OBVIOUS
<1>1. CASE CheckContext
  <2>1. TypeOK' /\ (reader' = "complete" <=> reader = "complete")
    BY <1>1 DEF CheckContext, AfterCheck, IInv, TypeOK
  <2> QED
    BY <1>1, <2>1, QuietStep DEF CheckContext, IInv, TypeOK
<1>2. CASE ReadOther
  <2>1. TypeOK'
    BY <1>2 DEF ReadOther, IInv, TypeOK
  <2> QED
    BY <1>2, <2>1, QuietStep DEF ReadOther, IInv, TypeOK
<1>3. CASE ReadFails
  <2>1. TypeOK'
    BY <1>3 DEF ReadFails, IInv, TypeOK
  <2> QED
    BY <1>3, <2>1, QuietStep DEF ReadFails, IInv, TypeOK
<1>4. ASSUME NEW m \in Messages, NEW i \in 0 .. Total[m] + 1, AddRejected(m, i)
      PROVE  IInv'
  <2>1. TypeOK' /\ nextId' >= nextId
    BY <1>4, LimitsAssumption DEF AddRejected, IInv, TypeOK
  <2> QED
    BY <1>4, <2>1, QuietStep DEF AddRejected
<1>5. ASSUME NEW m \in Messages, NEW i \in 0 .. Total[m] + 1, AddPart(m, i)
      PROVE  IInv'
  BY <1>5, AddIInv
<1>6. CASE FinishComplete
  BY <1>6, FinishIInv
<1>7. CASE Tick
  BY <1>7, TickIInv
<1>8. CASE BeginSweep
  <2>1. TypeOK'
    BY <1>8 DEF BeginSweep, IInv, TypeOK
  <2> QED
    BY <1>8, <2>1, QuietStep DEF BeginSweep, IInv, TypeOK
<1>9. ASSUME NEW h \in Shards, SweepShard(h) PROVE IInv'
  BY <1>9, SweepIInv
<1>10. CASE EndSweep
  <2>1. TypeOK'
    BY <1>10 DEF EndSweep, IInv, TypeOK
  <2> QED
    BY <1>10, <2>1, QuietStep DEF EndSweep, IInv, TypeOK
<1>11. CASE CleanerExits
  <2>1. TypeOK'
    BY <1>11 DEF CleanerExits, IInv, TypeOK
  <2> QED
    BY <1>11, <2>1, QuietStep DEF CleanerExits, IInv, TypeOK
<1>12. CASE Stop
  <2>1. TypeOK'
    BY <1>12 DEF Stop, IInv, TypeOK
  <2> QED
    BY <1>12, <2>1, QuietStep DEF Stop, IInv, TypeOK
<1>13. ASSUME NEW h \in Shards, ClearShard(h) PROVE IInv'
  BY <1>13, ClearIInv
<1>14. CASE UNCHANGED vars
  <2>1. TypeOK'
    BY <1>14 DEF vars, IInv, TypeOK
  <2> QED
    BY <1>14, <2>1, QuietStep DEF vars, IInv, TypeOK
<1> QED
  BY <1>1, <1>2, <1>3, <1>4, <1>5, <1>6, <1>7, <1>8, <1>9, <1>10, <1>11, <1>12,
     <1>13, <1>14 DEF Next, Reader, Sweeping, Finished

(* The strengthened invariant holds in every reachable state.  It is needed as a  *)
(* whole: an id is delivered once because no bucket holds a delivered id, which is *)
(* kept because a bucket's parts share one id that no other bucket has.            *)
THEOREM Invariance == Spec => []IInv
BY InitIInv, NextIInv, PTL DEF Spec

(* The variables keep their types: in particular a bucket's counter (uint8 in the *)
(* code) never exceeds MaxSegments and no part is stored beyond it.               *)
THEOREM TypeCorrect == Spec => []TypeOK
<1>1. IInv => TypeOK
  BY DEF IInv
<1> QED
  BY <1>1, Invariance, PTL

(* A bucket's counter is exact and no bucket is left empty (AddSegment). *)
THEOREM CountersExact == Spec => []GroupsCoherent
<1>1. IInv => GroupsCoherent
  BY DEF IInv
<1> QED
  BY <1>1, Invariance, PTL

(* A waiting part carries its bucket's id, the one the peer was answered with. *)
THEOREM IdsUnique == Spec => []OneIdPerBucket
<1>1. IInv => OneIdPerBucket
  BY DEF IInv
<1> QED
  BY <1>1, Invariance, PTL

(* A message is handed over under the id every one of its parts was answered with. *)
THEOREM AnsweredIds == Spec => []DeliveredUnderAnsweredId
<1>1. IInv => DeliveredUnderAnsweredId
  BY DEF IInv
<1> QED
  BY <1>1, Invariance, PTL

(* No id reaches the submit handler twice. *)
THEOREM AtMostOnce == Spec => []DeliveredOnce
<1>1. IInv => DeliveredOnce
  BY DEF IInv
<1> QED
  BY <1>1, Invariance, PTL

(* No complete bucket waits in the map unattended. *)
THEOREM NothingCompleteWaits == Spec => []CompleteOnlyInWindow
<1>1. IInv => CompleteOnlyInWindow
  BY DEF IInv
<1> QED
  BY <1>1, Invariance, PTL

(* A receipt asked for by any part of a delivered message is asked for by the message. *)
THEOREM RequestsAccumulate == Spec => []AnyPartRequests
<1>1. IInv => AnyPartRequests
  BY DEF IInv
<1> QED
  BY <1>1, Invariance, PTL

-----------------------------------------------------------------------------
(* What Session.Stop leaves behind. *)

(* A step that adds no bucket to an emptied shard keeps the invariant of the stop. *)
LEMMA NoneAdded ==
    ASSUME StopSound, Late' \subseteq Late,
           reader' = "read" => reader = "read"
    PROVE  StopSound'
BY DEF StopSound

(* Every step keeps it: the reader adds to one bucket at most before it sees the stop. *)
LEMMA StopStep == IInv /\ StopSound /\ [Next]_vars => StopSound'
<1> SUFFICES ASSUME IInv, StopSound, [Next]_vars PROVE StopSound'
  OBVIOUS
<1>1. CASE CheckContext
  <2>1. Late' = Late
    BY <1>1 DEF CheckContext, Late, Open
  <2>2. CASE ctxDone
    BY <1>1, <2>1, <2>2, NoneAdded DEF CheckContext, AfterCheck
  <2>3. CASE ~ctxDone
    <3>1. Late' = {}
      BY <2>1, <2>3 DEF Late
    <3> QED
      BY <1>1, <2>3, <3>1 DEF CheckContext, AfterCheck, StopSound
  <2> QED
    BY <2>2, <2>3
<1>2. CASE ReadFails
  <2>1. Late' \subseteq Late
    <3>1. CASE ctxDone
      BY <1>2, <3>1 DEF ReadFails, Late, Open
    <3>2. CASE ~ctxDone
      BY <1>2, <3>2, ShardsAssumption DEF ReadFails, Late, Open
    <3> QED
      BY <3>1, <3>2
  <2> QED
    BY <1>2, <2>1, NoneAdded DEF ReadFails
<1>3. ASSUME NEW m \in Messages, NEW i \in 0 .. Total[m] + 1, AddPart(m, i)
      PROVE  StopSound'
  <2> DEFINE g == Stored(GroupFor(m), m, i, MessageIDFor(GroupFor(m), nextId))
  <2>1. /\ reader = "read" /\ reader' \in {"check", "complete"}
        /\ segments' = [segments EXCEPT ![GroupOf(m)] = g]
        /\ UNCHANGED <<ctxDone, toClear>>
    BY <1>3 DEF AddPart
  <2> HIDE DEF g
  <2>2. Late = {}
    BY <2>1 DEF StopSound
  <2>3. \A k \in Keys : k # GroupOf(m) => segments'[k] = segments[k]
    BY <2>1 DEF IInv, TypeOK
  <2>4. Late' \subseteq {GroupOf(m)}
    BY <2>1, <2>2, <2>3 DEF Late, Open
  <2> QED
    BY <2>1, <2>4 DEF StopSound
<1>4. CASE FinishComplete
  <2>1. \A k \in Keys : segments'[k] = segments[k] \/ segments'[k] = NoGroup
    BY <1>4 DEF FinishComplete, Without, IInv, TypeOK
  <2>2. Late' \subseteq Late
    BY <1>4, <2>1, NoGroupType DEF FinishComplete, Late, Open
  <2> QED
    BY <1>4, <2>2, NoneAdded DEF FinishComplete, StopSound
<1>5. CASE Tick
  <2>1. \A k \in Keys : segments'[k].expected = segments[k].expected
    <3>1. ASSUME NEW k \in Keys PROVE segments'[k].expected = segments[k].expected
      <4> DEFINE Aged == [i \in DOMAIN segments[k].list |-> Older(segments[k].list[i])]
      <4>1. segments'[k] = [segments[k] EXCEPT !.list = Aged] /\ segments[k] \in Group
        BY <1>5 DEF Tick, IInv, TypeOK
      <4> HIDE DEF Aged
      <4> QED
        BY <4>1 DEF Group
    <3> QED
      BY <3>1
  <2>2. Late' = Late
    BY <1>5, <2>1 DEF Tick, Late, Open
  <2> QED
    BY <1>5, <2>2, NoneAdded DEF Tick, StopSound
<1>6. ASSUME NEW h \in Shards, SweepShard(h) PROVE StopSound'
  <2>1. Late' \subseteq Late
    BY <1>6, NoGroupType DEF SweepShard, Late, Open
  <2> QED
    BY <1>6, <2>1, NoneAdded DEF SweepShard, StopSound
<1>7. CASE Stop
  <2>1. Late' = {}
    BY <1>7, ShardsAssumption DEF Stop, Late
  <2> QED
    BY <1>7, <2>1, NoneAdded DEF Stop, StopSound
<1>8. ASSUME NEW h \in Shards, ClearShard(h) PROVE StopSound'
  <2>1. Late' \subseteq Late
    BY <1>8, NoGroupType DEF ClearShard, Late, Open
  <2> QED
    BY <1>8, <2>1, NoneAdded DEF ClearShard, StopSound
<1>9. CASE ReadOther \/ BeginSweep \/ EndSweep \/ CleanerExits \/ UNCHANGED vars
           \/ \E m \in Messages : \E i \in 0 .. Total[m] + 1 : AddRejected(m, i)
  <2>1. UNCHANGED <<segments, ctxDone, toClear>> /\ (reader' = reader \/ reader' = "check")
    BY <1>9 DEF ReadOther, BeginSweep, EndSweep, CleanerExits, AddRejected, vars
  <2>2. Late' = Late
    BY <2>1 DEF Late, Open
  <2> QED
    BY <2>1, <2>2, NoneAdded DEF StopSound
<1> QED
  BY <1>1, <1>2, <1>3, <1>4, <1>5, <1>6, <1>7, <1>8, <1>9
     DEF Next, Reader, Sweeping, Finished

(* Stop, which cannot wait for the reader, leaves at most one bucket behind. *)
THEOREM StopLeavesOne == Spec => []StopLeavesAtMostOne
<1>1. Init => StopSound
  <2> SUFFICES ASSUME Init PROVE StopSound
    OBVIOUS
  <2>1. Late = {}
    BY DEF Init, Late
  <2> QED
    BY <2>1 DEF Init, StopSound
<1>2. StopSound => StopLeavesAtMostOne
  <2> SUFFICES ASSUME StopSound, ctxDone, toClear = {}
               PROVE  Cardinality({k \in Keys : Open(k)}) <= 1
    BY DEF StopLeavesAtMostOne
  <2> DEFINE S == {k \in Keys : Open(k)}
  <2>1. \A k, l \in S : k = l
    BY DEF StopSound, Late
  <2>2. CASE S = {}
    BY <2>2, FS_EmptySet
  <2>3. ASSUME NEW k \in S PROVE Cardinality(S) <= 1
    <3>1. S = {k}
      BY <2>1, <2>3
    <3> QED
      BY <3>1, FS_Singleton
  <2> QED
    BY <2>2, <2>3
<1> QED
  BY <1>1, <1>2, StopStep, Invariance, PTL DEF Spec

-----------------------------------------------------------------------------
(* What can be mixed: parts whose headers AddSegment cannot tell apart. *)

Alike(m, n) == GroupOf(m) = GroupOf(n) /\ Total[m] = Total[n]

\* The parts in a bucket have its name and its total.
OfBucket(g, k) ==
    \A i \in DOMAIN g.list : GroupOf(g.list[i].msg) = k /\ Total[g.list[i].msg] = g.expected

AlikeDelivered ==
    \A n \in DOMAIN delivered : \A i, j \in DOMAIN delivered[n].parts :
        Alike(delivered[n].parts[i], delivered[n].parts[j])

HeadersKept ==
    /\ \A k \in Keys : OfBucket(segments[k], k)
    /\ reader = "complete" => OfBucket(copy.group, copy.key)
    /\ AlikeDelivered

(* A step that only ages or drops parts keeps their headers. *)
LEMMA HeadersStay ==
    ASSUME HeadersKept, UNCHANGED <<copy, delivered>>, reader' = "complete" => reader = "complete",
           \A k \in Keys : \A i \in DOMAIN segments'[k].list :
               /\ i \in DOMAIN segments[k].list
               /\ segments'[k].list[i].msg = segments[k].list[i].msg
               /\ segments'[k].expected = segments[k].expected
    PROVE  HeadersKept'
BY DEF HeadersKept, OfBucket, AlikeDelivered, Alike

LEMMA HeadersStep == IInv /\ HeadersKept /\ [Next]_vars => HeadersKept'
<1> SUFFICES ASSUME IInv, HeadersKept, [Next]_vars PROVE HeadersKept'
  OBVIOUS
<1>0. TypeOK
  BY DEF IInv
<1>1. ASSUME NEW m \in Messages, NEW i \in 0 .. Total[m] + 1, AddPart(m, i)
      PROVE  HeadersKept'
  <2> DEFINE k  == GroupOf(m)
             g0 == GroupFor(m)
             id == MessageIDFor(GroupFor(m), nextId)
             g  == Stored(GroupFor(m), m, i, id)
  <2>1. /\ reader = "read" /\ delivered' = delivered
        /\ segments' = [segments EXCEPT ![k] = g]
        /\ g0.expected = Total[m]
        /\ IF isComplete(g)
             THEN reader' = "complete" /\ copy' = [key |-> k, group |-> g, id |-> id]
             ELSE reader' = "check" /\ copy' = copy
    BY <1>1 DEF AddPart
  <2>2. k \in Keys
    BY DEF Keys
  <2>3. OfBucket(g0, k)
    <3>1. CASE Open(k)
      BY <2>2, <3>1 DEF GroupFor, HeadersKept
    <3>2. CASE ~Open(k)
      BY <3>2 DEF GroupFor, NewGroup, OfBucket
    <3> QED
      BY <3>1, <3>2
  <2>4. /\ g.expected = g0.expected
        /\ DOMAIN g.list = DOMAIN g0.list \union {i}
        /\ \A j \in DOMAIN g.list :
              g.list[j] = IF j = i THEN [msg |-> m, id |-> id, age |-> 0] ELSE g0.list[j]
    BY DEF Stored
  <2> HIDE DEF k, g0, id, g
  <2>5. OfBucket(g, k)
    BY <2>1, <2>3, <2>4 DEF OfBucket, k
  <2>6. \A l \in Keys : OfBucket(segments'[l], l)
    BY <1>0, <2>1, <2>5 DEF HeadersKept, TypeOK
  <2>7. reader' = "complete" => OfBucket(copy'.group, copy'.key)
    BY <2>1, <2>5
  <2> QED
    BY <2>1, <2>6, <2>7 DEF HeadersKept, AlikeDelivered, OfBucket
<1>2. CASE FinishComplete
  <2> DEFINE d == [id |-> copy.id,
                   deliveryReceiptRequested |-> copy.group.deliveryReceiptRequested,
                   parts |-> [i \in DOMAIN copy.group.list |-> copy.group.list[i].msg]]
             n == Len(delivered)
  <2>1. /\ delivered' = Append(delivered, d)
        /\ reader = "complete" /\ reader' = "check"
        /\ segments' = [segments EXCEPT ![copy.key] = NoGroup]
    BY <1>2 DEF FinishComplete, Without
  <2>2. /\ DOMAIN d.parts = DOMAIN copy.group.list
        /\ \A i \in DOMAIN d.parts : d.parts[i] = copy.group.list[i].msg
    OBVIOUS
  <2> HIDE DEF d
  <2>3. /\ n \in Nat /\ DOMAIN delivered = 1 .. n /\ DOMAIN delivered' = 1 .. n + 1
        /\ delivered'[n + 1] = d
        /\ \A j \in 1 .. n : delivered'[j] = delivered[j]
    BY <1>0, <2>1 DEF TypeOK
  <2> HIDE DEF n
  <2>4. \A i, j \in DOMAIN d.parts : Alike(d.parts[i], d.parts[j])
    BY <2>1, <2>2 DEF HeadersKept, OfBucket, Alike
  <2>5. AlikeDelivered'
    <3> SUFFICES ASSUME NEW l \in 1 .. n + 1,
                        NEW i \in DOMAIN delivered'[l].parts, NEW j \in DOMAIN delivered'[l].parts
                 PROVE  Alike(delivered'[l].parts[i], delivered'[l].parts[j])
      BY <2>3 DEF AlikeDelivered, Alike
    <3>1. CASE l = n + 1
      BY <2>3, <2>4, <3>1
    <3>2. CASE l # n + 1
      <4>1. l \in 1 .. n
        BY <2>3, <3>2
      <4> QED
        BY <2>3, <4>1 DEF HeadersKept, AlikeDelivered
    <3> QED
      BY <3>1, <3>2
  <2>6. \A k \in Keys : OfBucket(segments'[k], k)
    <3>1. DOMAIN NoGroup.list = {}
      BY DEF NoGroup, NewGroup
    <3> QED
      BY <1>0, <2>1, <3>1 DEF TypeOK, HeadersKept, OfBucket
  <2> QED
    BY <2>1, <2>5, <2>6 DEF HeadersKept, OfBucket
<1>3. CASE Tick
  <2>1. ASSUME NEW k \in Keys, NEW i \in DOMAIN segments'[k].list
        PROVE  /\ i \in DOMAIN segments[k].list
               /\ segments'[k].list[i].msg = segments[k].list[i].msg
               /\ segments'[k].expected = segments[k].expected
    <3> DEFINE Aged == [j \in DOMAIN segments[k].list |-> Older(segments[k].list[j])]
    <3>1. segments'[k] = [segments[k] EXCEPT !.list = Aged] /\ segments[k] \in Group
      BY <1>0, <1>3 DEF Tick, TypeOK
    <3>2. segments[k].list \in Lists
      BY <3>1 DEF Group
    <3>3. DOMAIN Aged = DOMAIN segments[k].list
          /\ \A j \in DOMAIN segments[k].list : Aged[j].msg = segments[k].list[j].msg
      BY <3>2, AgedList
    <3> HIDE DEF Aged
    <3>4. segments'[k].list = Aged /\ segments'[k].expected = segments[k].expected
      BY <3>1 DEF Group
    <3> QED
      BY <2>1, <3>3, <3>4
  <2> QED
    BY <1>3, <2>1, HeadersStay DEF Tick
<1>4. ASSUME NEW h \in Shards, SweepShard(h) \/ ClearShard(h)
      PROVE  HeadersKept'
  <2>1. DOMAIN NoGroup.list = {}
    BY DEF NoGroup, NewGroup
  <2>2. \A k \in Keys : segments'[k] = segments[k] \/ segments'[k] = NoGroup
    BY <1>4 DEF SweepShard, ClearShard
  <2>3. UNCHANGED <<reader, copy, delivered>>
    BY <1>4 DEF SweepShard, ClearShard
  <2> QED
    BY <2>1, <2>2, <2>3, HeadersStay
<1>5. CASE CheckContext \/ ReadOther \/ ReadFails \/ BeginSweep \/ EndSweep \/ CleanerExits \/ Stop
           \/ UNCHANGED vars
           \/ \E m \in Messages : \E i \in 0 .. Total[m] + 1 : AddRejected(m, i)
  <2>1. UNCHANGED <<segments, copy, delivered>> /\ (reader' = "complete" => reader = "complete")
    BY <1>5 DEF CheckContext, AfterCheck, ReadOther, ReadFails, BeginSweep, EndSweep, CleanerExits,
       Stop, AddRejected, vars
  <2> QED
    BY <2>1, HeadersStay
<1> QED
  BY <1>1, <1>2, <1>3, <1>4, <1>5 DEF Next, Reader, Sweeping, Finished

(* What is handed over as one message consists of parts between the same addresses, *)
(* with the same low byte of the reference and the same total.                      *)
THEOREM OnlyAlikeMix == Spec => []AlikeDelivered
<1>1. Init => HeadersKept
  BY DEF Init, HeadersKept, OfBucket, AlikeDelivered, NoGroup, NewGroup
<1>2. HeadersKept => AlikeDelivered
  BY DEF HeadersKept
<1> QED
  BY <1>1, <1>2, HeadersStep, Invariance, PTL DEF Spec

(* So no message is mixed with another, unless the peer has two whose headers agree  *)
(* in all of that; the run segments_mixing has two that do.                         *)
THEOREM UnlikeStayApart ==
    ASSUME \A m, n \in Messages : Alike(m, n) => m = n
    PROVE  Spec => []NoMixing
<1>1. IInv /\ AlikeDelivered => NoMixing
  <2> SUFFICES ASSUME IInv, AlikeDelivered, NEW n \in DOMAIN delivered,
                      NEW i \in DOMAIN delivered[n].parts, NEW j \in DOMAIN delivered[n].parts
               PROVE  delivered[n].parts[i] = delivered[n].parts[j]
    BY DEF NoMixing
  <2>1. delivered[n] \in Delivery
    BY DEF IInv, TypeOK
  <2>2. delivered[n].parts[i] \in Messages /\ delivered[n].parts[j] \in Messages
    BY <2>1 DEF Delivery
  <2> QED
    BY <2>2 DEF AlikeDelivered
<1> QED
  BY <1>1, OnlyAlikeMix, Invariance, PTL

=============================================================================
