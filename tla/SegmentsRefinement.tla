------------------------- MODULE SegmentsRefinement -------------------------
(* Segments implements Reassembly, for every value of its constants. *)
EXTENDS SegmentsProofs

-----------------------------------------------------------------------------
(* What the mapping makes of a bucket. *)

(* A bucket that is absent from the map stands for none. *)
LEMMA NoGroupIsEmpty ==
    AbstractBucket(NoGroup, MessageIDFor(NoGroup, 0)) = Promise!Empty
<1>1. DOMAIN NoGroup.list = {} /\ NoGroup.count = 0 /\ NoGroup.expected = 0
  BY NoGroupType
<1>2. NoGroup.deliveryReceiptRequested = FALSE
  BY DEF NoGroup, NewGroup
<1>3. [i \in DOMAIN NoGroup.list |-> NoGroup.list[i].msg] = [i \in {} |-> 0]
  BY <1>1
<1> QED
  BY <1>1, <1>2, <1>3 DEF AbstractBucket, MessageIDFor, Promise!Empty, Promise!New

(* The id a bucket is mapped with is the one all its parts carry. *)
LEMMA BucketId ==
    ASSUME NEW g \in Group, g.count = Cardinality(DOMAIN g.list),
           NEW id, \A i \in DOMAIN g.list : g.list[i].id = id
    PROVE  MessageIDFor(g, 0) = IF DOMAIN g.list = {} THEN 0 ELSE id
<1>1. g.list \in Lists
  BY DEF Group
<1>2. CASE DOMAIN g.list = {}
  BY <1>2, FS_EmptySet DEF MessageIDFor
<1>3. CASE DOMAIN g.list # {}
  <2>1. g.count # 0
    BY <1>1, <1>3, ListElim, PartsCounted, FS_EmptySet
  <2>2. First(g.list) \in DOMAIN g.list
    BY <1>1, <1>3, FirstExists
  <2> QED
    BY <1>3, <2>1, <2>2 DEF MessageIDFor
<1> QED
  BY <1>2, <1>3

(* What the map holds under a key, as far as the mapping looks at it. *)
LEMMA WaitingBucket ==
    ASSUME IInv, NEW k \in Keys
    PROVE  /\ segments[k] \in Group
           /\ segments[k].count = Cardinality(DOMAIN segments[k].list)
           /\ \A i, j \in DOMAIN segments[k].list :
                  segments[k].list[i].id = segments[k].list[j].id
           /\ \A i \in DOMAIN segments[k].list : segments[k].list[i].id \in 1 .. MaxId
<1>1. segments[k] \in Group /\ segments[k].count = Cardinality(DOMAIN segments[k].list)
  BY DEF IInv, TypeOK, GroupsCoherent, PartsOf
<1>2. OneIdPerBucket
  BY DEF IInv
<1>3. \A i, j \in PartsOf(k) : segments[k].list[i].id = segments[k].list[j].id
  BY <1>2, SameIdSameBucket
<1>4. segments[k].list \in Lists
  BY <1>1 DEF Group
<1>5. \A i \in DOMAIN segments[k].list : segments[k].list[i].id \in 1 .. MaxId
  BY <1>4, ListElim DEF Part
<1> QED
  BY <1>1, <1>3, <1>5 DEF PartsOf

(* Buckets that differ in nothing but the ages of their parts are mapped alike. *)
LEMMA AgesIgnored ==
    ASSUME IInv, IInv', NEW k \in Keys,
           PartsOf(k)' = PartsOf(k),
           segments'[k].expected = segments[k].expected,
           segments'[k].deliveryReceiptRequested = segments[k].deliveryReceiptRequested,
           \A i \in PartsOf(k) : /\ segments'[k].list[i].id = segments[k].list[i].id
                                 /\ segments'[k].list[i].msg = segments[k].list[i].msg
    PROVE  AbstractBucket(segments'[k], MessageIDFor(segments'[k], 0)) =
           AbstractBucket(segments[k], MessageIDFor(segments[k], 0))
<1>1. segments'[k] \in Group /\ segments'[k].count = Cardinality(DOMAIN segments'[k].list)
  BY DEF IInv, TypeOK, GroupsCoherent, PartsOf
<1>2. MessageIDFor(segments'[k], 0) = MessageIDFor(segments[k], 0)
  <2> DEFINE id == segments[k].list[CHOOSE i \in PartsOf(k) : TRUE].id
  <2>1. \A i \in DOMAIN segments[k].list : segments[k].list[i].id = id
    BY WaitingBucket DEF PartsOf
  <2>2. \A i \in DOMAIN segments'[k].list : segments'[k].list[i].id = id
    BY <2>1 DEF PartsOf
  <2> HIDE DEF id
  <2>3. MessageIDFor(segments[k], 0) = IF DOMAIN segments[k].list = {} THEN 0 ELSE id
    BY <2>1, WaitingBucket, BucketId
  <2>4. MessageIDFor(segments'[k], 0) = IF DOMAIN segments'[k].list = {} THEN 0 ELSE id
    BY <1>1, <2>2, BucketId
  <2> QED
    BY <2>3, <2>4 DEF PartsOf
<1>3. [i \in DOMAIN segments'[k].list |-> segments'[k].list[i].msg] =
      [i \in DOMAIN segments[k].list |-> segments[k].list[i].msg]
  BY DEF PartsOf
<1> QED
  BY <1>2, <1>3 DEF AbstractBucket

-----------------------------------------------------------------------------
(* Steps of Segments, as Reassembly sees them. *)

AbstractVars == <<Gathered, nextId - 1, delivered>>

(* A step that changes neither buckets nor ids is none. *)
LEMMA QuietStutters ==
    ASSUME UNCHANGED <<segments, copy, nextId, delivered>>,
           reader' = "complete" <=> reader = "complete"
    PROVE  UNCHANGED AbstractVars
BY DEF AbstractVars, Gathered

(* Nor is the passing of time. *)
LEMMA TickStutters == ASSUME IInv, IInv', Tick PROVE UNCHANGED AbstractVars
<1>1. UNCHANGED <<reader, copy, nextId, delivered>>
  BY DEF Tick
<1>2. ASSUME NEW k \in Keys
      PROVE  AbstractBucket(segments'[k], MessageIDFor(segments'[k], 0)) =
             AbstractBucket(segments[k], MessageIDFor(segments[k], 0))
  <2> DEFINE Aged == [i \in DOMAIN segments[k].list |-> Older(segments[k].list[i])]
  <2>1. segments[k] \in Group /\ segments[k].list \in Lists
    BY DEF IInv, TypeOK, Group
  <2>2. segments'[k] = [segments[k] EXCEPT !.list = Aged]
    BY DEF Tick
  <2>3. /\ DOMAIN Aged = DOMAIN segments[k].list
        /\ \A i \in DOMAIN segments[k].list :
              Aged[i].id = segments[k].list[i].id /\ Aged[i].msg = segments[k].list[i].msg
    BY <2>1, AgedList
  <2> HIDE DEF Aged
  <2>4. /\ segments'[k].list = Aged
        /\ segments'[k].expected = segments[k].expected
        /\ segments'[k].deliveryReceiptRequested = segments[k].deliveryReceiptRequested
    BY <2>1, <2>2 DEF Group
  <2> QED
    BY <2>3, <2>4, AgesIgnored DEF PartsOf
<1>3. Gathered' = Gathered
  BY <1>1, <1>2 DEF Gathered
<1> QED
  BY <1>1, <1>3 DEF AbstractVars

(* A sweep or a stop drops buckets, but not the one the reader holds a copy of. *)
LEMMA RemovalDrops ==
    ASSUME IInv,
           segments' \in [Keys -> Group],
           \A k \in Keys : segments'[k] = segments[k] \/ segments'[k] = NoGroup,
           UNCHANGED <<nextId, reader, copy, delivered>>
    PROVE  Promise!Next
<1> DEFINE K == {k \in Keys : segments'[k] = NoGroup /\ ~(reader = "complete" /\ copy.key = k)}
<1>1. ASSUME NEW k \in Keys
      PROVE  Gathered'[k] = IF k \in K THEN Promise!Empty ELSE Gathered[k]
  BY <1>1, NoGroupIsEmpty DEF Gathered
<1>2. Gathered' = [k \in Keys |-> IF k \in K THEN Promise!Empty ELSE Gathered[k]]
  BY <1>1 DEF Gathered
<1>3. Promise!Drop(K)
  BY <1>2 DEF Promise!Drop
<1> QED
  BY <1>3 DEF Promise!Next

(* The second locked section hands the copied bucket over. *)
LEMMA FinishHandsOver == ASSUME IInv, FinishComplete PROVE Promise!Next
<1> DEFINE k == copy.key
<1>1. /\ reader = "complete" /\ reader' = "check"
      /\ segments' = [segments EXCEPT ![k] = NoGroup]
      /\ delivered' = Append(delivered,
             [id |-> copy.id,
              deliveryReceiptRequested |-> copy.group.deliveryReceiptRequested,
              parts |-> [i \in DOMAIN copy.group.list |-> copy.group.list[i].msg]])
      /\ UNCHANGED nextId
  BY DEF FinishComplete, Without
<1>2. k \in Keys /\ copy.id # 0 /\ DOMAIN copy.group.list = 1 .. copy.group.expected
  BY <1>1 DEF IInv, TypeOK, Completion, CopySound
<1>3. Gathered[k] = AbstractBucket(copy.group, copy.id)
  BY <1>1, <1>2 DEF Gathered
<1>4. /\ Gathered[k].id = copy.id
      /\ Gathered[k].wants = copy.group.deliveryReceiptRequested
      /\ Gathered[k].total = copy.group.expected
      /\ Gathered[k].parts = [i \in DOMAIN copy.group.list |-> copy.group.list[i].msg]
  BY <1>3 DEF AbstractBucket
<1>5. Gathered[k] # Promise!Empty
  BY <1>2, <1>4 DEF Promise!Empty, Promise!New
<1>6. Gathered' = [Gathered EXCEPT ![k] = Promise!Empty]
  <2>1. ASSUME NEW l \in Keys
        PROVE  Gathered'[l] = IF l = k THEN Promise!Empty ELSE Gathered[l]
    BY <1>1, NoGroupIsEmpty DEF Gathered, IInv, TypeOK
  <2> QED
    BY <2>1 DEF Gathered
<1>7. Promise!HandOver(k)
  BY <1>1, <1>2, <1>4, <1>5, <1>6 DEF Promise!HandOver
<1> QED
  BY <1>2, <1>7 DEF Promise!Next

(* A bucket whose last two fields change. *)
LEMMA FieldsReplaced ==
    ASSUME NEW b, NEW id, NEW total, NEW wants, NEW parts, NEW w, NEW p,
           b = [id |-> id, total |-> total, wants |-> wants, parts |-> parts]
    PROVE  [b EXCEPT !.wants = w, !.parts = p] =
           [id |-> id, total |-> total, wants |-> w, parts |-> p]
<1> DEFINE c == [b EXCEPT !.wants = w]
<1>1. c = [id |-> id, total |-> total, wants |-> w, parts |-> parts]
  OBVIOUS
<1>2. [b EXCEPT !.wants = w, !.parts = p] = [c EXCEPT !.parts = p]
  OBVIOUS
<1> HIDE DEF c
<1>3. [c EXCEPT !.parts = p] = [id |-> id, total |-> total, wants |-> w, parts |-> p]
  BY <1>1
<1> QED
  BY <1>2, <1>3

(* Storing a part in a bucket maps to storing it in the mapped bucket. *)
LEMMA StoredMapped ==
    ASSUME NEW G, NEW m, NEW i, NEW id
    PROVE  AbstractBucket(Stored(G, m, i, id), id) = Promise!With(AbstractBucket(G, id), m, i)
<1> DEFINE g == Stored(G, m, i, id)
           b == AbstractBucket(G, id)
           D == DOMAIN G.list \union {i}
<1>1. /\ g.expected = G.expected
      /\ g.deliveryReceiptRequested = OrRequested(G, m, i)
      /\ g.list = [j \in D |-> IF j = i THEN [msg |-> m, id |-> id, age |-> 0] ELSE G.list[j]]
  BY DEF Stored
<1>2. DOMAIN b.parts = DOMAIN G.list /\ \A j \in DOMAIN G.list : b.parts[j] = G.list[j].msg
  BY DEF AbstractBucket
<1>3. [j \in DOMAIN g.list |-> g.list[j].msg] =
      [j \in DOMAIN b.parts \union {i} |-> IF j = i THEN m ELSE b.parts[j]]
  BY <1>1, <1>2
<1>4. Promise!With(b, m, i) =
        [id |-> id, total |-> G.expected, wants |-> OrRequested(G, m, i),
         parts |-> [j \in DOMAIN b.parts \union {i} |-> IF j = i THEN m ELSE b.parts[j]]]
  <2> DEFINE p == [j \in DOMAIN b.parts \union {i} |-> IF j = i THEN m ELSE b.parts[j]]
             parts == [j \in DOMAIN G.list |-> G.list[j].msg]
  <2>1. b = [id |-> id, total |-> G.expected, wants |-> G.deliveryReceiptRequested,
             parts |-> parts]
    BY DEF AbstractBucket
  <2>2. b.wants = G.deliveryReceiptRequested
    BY <2>1
  <2>3. Promise!With(b, m, i) = [b EXCEPT !.wants = OrRequested(G, m, i), !.parts = p]
    BY <2>2 DEF Promise!With, OrRequested
  <2> HIDE DEF b, p, parts
  <2>4. Promise!With(b, m, i) =
          [id |-> id, total |-> G.expected, wants |-> OrRequested(G, m, i), parts |-> p]
    BY <2>1, <2>3, FieldsReplaced
  <2> QED
    BY <2>4 DEF p
<1> QED
  BY <1>1, <1>3, <1>4 DEF AbstractBucket

(* The first locked section starts a bucket or adds to one; the copy the reader *)
(* may take of it stands for that bucket from then on.                          *)
LEMMA AddStartsOrJoins ==
    ASSUME IInv, AbsentIsClean, NEW m \in Messages, NEW i \in 0 .. Total[m] + 1, AddPart(m, i)
    PROVE  Promise!Next
<1> DEFINE k  == GroupOf(m)
           G  == GroupFor(m)
           id == MessageIDFor(G, nextId)
           g  == Stored(G, m, i, id)
<1>1. /\ reader = "read" /\ nextId <= MaxId
      /\ ValidHeader(m, i)
      /\ G.expected = Total[m]
      /\ nextId' = nextId + 1
      /\ segments' = [segments EXCEPT ![k] = g]
      /\ \/ isComplete(g) /\ reader' = "complete" /\ copy' = [key |-> k, group |-> g, id |-> id]
         \/ ~isComplete(g) /\ reader' = "check" /\ copy' = copy
      /\ UNCHANGED delivered
  BY DEF AddPart
<1>2. i \in 1 .. Total[m] /\ Total[m] \in 2 .. MaxSegments
  <2>1. Total[m] \in 2 .. 255 /\ MaxSegments \in 2 .. 25
    BY TotalAssumption, LimitsAssumption
  <2> QED
    BY <1>1, <2>1 DEF ValidHeader
<1>3. k \in Keys /\ nextId \in 1 .. MaxId
  BY <1>1, LimitsAssumption DEF Keys, IInv, TypeOK
<1>4. /\ G \in Group
      /\ DOMAIN G.list \subseteq 1 .. G.expected
      /\ G.count = Cardinality(DOMAIN G.list)
      /\ G.count = 0 <=> DOMAIN G.list = {}
  BY <1>2, GroupForSound DEF IInv
<1>5. /\ id \in 1 .. MaxId
      /\ \A j \in DOMAIN G.list : G = segments[k] /\ G.list[j].id = id
  BY <1>1, <1>2, StoredId
<1>6. G.count # 0 => G = segments[k] /\ MessageIDFor(G, 0) = id
  BY <1>4, <1>5 DEF MessageIDFor
<1>7. G.count = 0 => /\ segments[k] = NoGroup
                     /\ G = NewGroup(Total[m])
                     /\ id = nextId
  <2>1. ASSUME Open(k) PROVE G.count # 0
    <3>1. PartsOf(k) # {} /\ G = segments[k]
      BY <1>3, <2>1 DEF IInv, GroupsCoherent, GroupFor
    <3> QED
      BY <1>4, <3>1 DEF PartsOf
  <2>2. ASSUME ~Open(k) PROVE G = NewGroup(Total[m])
    BY <2>2 DEF GroupFor
  <2>3. ASSUME ~Open(k) PROVE segments[k] = NoGroup
    BY <1>3, <2>3 DEF AbsentIsClean
  <2> QED
    BY <2>1, <2>2, <2>3 DEF MessageIDFor
<1> HIDE DEF G, id
<1>8. /\ DOMAIN g.list = DOMAIN G.list \union {i}
      /\ g \in Group
      /\ g.count = Cardinality(DOMAIN g.list)
      /\ g.list[i] = [msg |-> m, id |-> id, age |-> 0]
      /\ \A j \in DOMAIN G.list \ {i} : g.list[j] = G.list[j]
  BY <1>1, <1>2, <1>4, <1>5, StoredSound
<1>9. AbstractBucket(g, id) = Promise!With(AbstractBucket(G, id), m, i)
  BY StoredMapped
<1> HIDE DEF g, k
<1>10. MessageIDFor(g, 0) = id
  <2>1. \A j \in DOMAIN g.list : g.list[j].id = id
    BY <1>5, <1>8
  <2> QED
    BY <1>8, <2>1, BucketId
<1>11. Gathered' = [Gathered EXCEPT ![k] = Promise!With(AbstractBucket(G, id), m, i)]
  <2>1. ASSUME NEW l \in Keys
        PROVE  Gathered'[l] = IF l = k THEN AbstractBucket(g, id) ELSE Gathered[l]
    BY <1>1, <1>3, <1>10 DEF Gathered, IInv, TypeOK
  <2> QED
    BY <1>9, <2>1 DEF Gathered
<1>12. Gathered[k] = AbstractBucket(segments[k], MessageIDFor(segments[k], 0))
  BY <1>1, <1>3 DEF Gathered
<1>13. CASE G.count = 0
  <2>1. Gathered[k] = Promise!Empty
    BY <1>7, <1>12, <1>13, NoGroupIsEmpty
  <2>2. AbstractBucket(G, id) = Promise!New((nextId - 1)', Total[m])
    <3>1. (nextId - 1)' = id
      BY <1>1, <1>3, <1>7, <1>13
    <3>2. [j \in DOMAIN G.list |-> G.list[j].msg] = [j \in {} |-> 0]
      BY <1>4, <1>13
    <3>3. G.expected = Total[m] /\ G.deliveryReceiptRequested = FALSE
      BY <1>1, <1>7, <1>13 DEF NewGroup
    <3> QED
      BY <3>1, <3>2, <3>3 DEF AbstractBucket, Promise!New
  <2>3. (nextId - 1)' > nextId - 1
    BY <1>1, <1>3
  <2>4. Promise!Start(k, m, i, Total[m])
    BY <1>1, <1>2, <1>11, <2>1, <2>2, <2>3 DEF Promise!Start
  <2> QED
    BY <1>2, <1>3, <2>4 DEF Promise!Next
<1>14. CASE G.count # 0
  <2>1. Gathered[k] = AbstractBucket(G, id)
    BY <1>6, <1>12, <1>14
  <2>2. Gathered[k].id = id /\ Gathered[k].total = Total[m]
    BY <1>1, <2>1 DEF AbstractBucket
  <2>3. Gathered[k] # Promise!Empty
    BY <1>5, <2>2 DEF Promise!Empty, Promise!New
  <2>4. (nextId - 1)' >= nextId - 1
    BY <1>1, <1>3
  <2>5. Promise!Join(k, m, i)
    BY <1>1, <1>2, <1>11, <2>1, <2>2, <2>3, <2>4 DEF Promise!Join
  <2>6. i \in 1 .. MaxSegments
    BY <1>2, LimitsAssumption
  <2> QED
    BY <1>3, <2>5, <2>6 DEF Promise!Next
<1> QED
  BY <1>13, <1>14

-----------------------------------------------------------------------------
(* Keys without a bucket. *)

(* Nothing of a bucket outlives it, whoever removed it. *)
LEMMA AbsentStep == IInv /\ AbsentIsClean /\ [Next]_vars => AbsentIsClean'
<1> SUFFICES ASSUME IInv, AbsentIsClean, [Next]_vars, NEW k \in Keys, ~Open(k)'
             PROVE  segments'[k] = NoGroup
  BY DEF AbsentIsClean
<1>1. CASE segments' = segments
  BY <1>1 DEF AbsentIsClean, Open
<1>2. ASSUME NEW m \in Messages, NEW i \in 0 .. Total[m] + 1, AddPart(m, i)
      PROVE  segments'[k] = NoGroup
  <2> DEFINE g == Stored(GroupFor(m), m, i, MessageIDFor(GroupFor(m), nextId))
  <2>1. segments' = [segments EXCEPT ![GroupOf(m)] = g]
    BY <1>2 DEF AddPart
  <2>2. g.expected = Total[m] /\ Total[m] # 0
    BY <1>2, TotalAssumption DEF AddPart, Stored
  <2>3. k # GroupOf(m)
    BY <2>1, <2>2 DEF Open, IInv, TypeOK
  <2> HIDE DEF g
  <2> QED
    BY <2>1, <2>3 DEF AbsentIsClean, Open, IInv, TypeOK
<1>3. CASE Tick
  <2> DEFINE Aged == [i \in DOMAIN segments[k].list |-> Older(segments[k].list[i])]
  <2>1. segments'[k] = [segments[k] EXCEPT !.list = Aged]
    BY <1>3 DEF Tick
  <2>2. segments[k] \in Group
    BY DEF IInv, TypeOK
  <2> HIDE DEF Aged
  <2>3. segments'[k].expected = segments[k].expected
    BY <2>1, <2>2 DEF Group
  <2>4. segments[k] = NoGroup
    BY <2>3 DEF AbsentIsClean, Open
  <2>5. DOMAIN NoGroup.list = {} /\ NoGroup.list = [i \in {} |-> 0]
    BY DEF NoGroup, NewGroup
  <2>6. Aged = NoGroup.list
    BY <2>4, <2>5 DEF Aged
  <2> QED
    BY <2>1, <2>2, <2>4, <2>6 DEF Group
<1>4. CASE FinishComplete
  BY <1>4 DEF FinishComplete, Without, AbsentIsClean, Open, IInv, TypeOK
<1>5. ASSUME NEW h \in Shards, SweepShard(h) \/ ClearShard(h)
      PROVE  segments'[k] = NoGroup
  BY <1>5 DEF SweepShard, ClearShard, AbsentIsClean, Open
<1> QED
  BY <1>1, <1>2, <1>3, <1>4, <1>5
     DEF Next, Reader, Sweeping, Finished, CheckContext, ReadOther, ReadFails, AddRejected,
         BeginSweep, EndSweep, CleanerExits, Stop, vars

(* No bucket inherits anything from the one before it under the same name. *)
THEOREM NothingInherited == Spec => []AbsentIsClean
<1>1. Init => AbsentIsClean
  BY DEF Init, AbsentIsClean
<1> QED
  BY <1>1, AbsentStep, Invariance, PTL DEF Spec

-----------------------------------------------------------------------------
(* The refinement. *)

(* Every step of Segments is a step of Reassembly, or none. *)
LEMMA StepRefines ==
    IInv /\ AbsentIsClean /\ IInv' /\ [Next]_vars => [Promise!Next]_AbstractVars
<1> SUFFICES ASSUME IInv, AbsentIsClean, IInv', [Next]_vars
             PROVE  Promise!Next \/ UNCHANGED AbstractVars
  OBVIOUS
<1>1. CASE CheckContext \/ ReadOther \/ ReadFails \/ BeginSweep \/ EndSweep \/ CleanerExits
           \/ Stop \/ UNCHANGED vars
  <2>1. /\ UNCHANGED <<segments, copy, nextId, delivered>>
        /\ reader' = "complete" <=> reader = "complete"
    BY <1>1 DEF CheckContext, AfterCheck, ReadOther, ReadFails, BeginSweep, EndSweep,
                CleanerExits, Stop, vars
  <2> QED
    BY <2>1, QuietStutters
<1>2. ASSUME NEW m \in Messages, NEW i \in 0 .. Total[m] + 1, AddRejected(m, i)
      PROVE  Promise!Next
  <2>1. (nextId - 1)' > nextId - 1
    BY <1>2 DEF AddRejected, IInv, TypeOK
  <2>2. UNCHANGED <<Gathered, delivered>>
    BY <1>2 DEF AddRejected, Gathered
  <2> QED
    BY <2>1, <2>2 DEF Promise!Next, Promise!Spend
<1>3. ASSUME NEW m \in Messages, NEW i \in 0 .. Total[m] + 1, AddPart(m, i)
      PROVE  Promise!Next
  BY <1>3, AddStartsOrJoins
<1>4. CASE FinishComplete
  BY <1>4, FinishHandsOver
<1>5. CASE Tick
  BY <1>5, TickStutters
<1>6. ASSUME NEW h \in Shards, SweepShard(h) \/ ClearShard(h)
      PROVE  Promise!Next
  <2>1. /\ \A k \in Keys : segments'[k] = segments[k] \/ segments'[k] = NoGroup
        /\ UNCHANGED <<nextId, reader, copy, delivered>>
    BY <1>6 DEF SweepShard, ClearShard
  <2> QED
    BY <2>1, RemovalDrops DEF IInv, TypeOK
<1> QED
  BY <1>1, <1>2, <1>3, <1>4, <1>5, <1>6 DEF Next, Reader, Sweeping, Finished

(* Reassembly with its two locked sections, its sweeps and its stop does what      *)
(* Reassembly promises: buckets gather parts under fresh ids and are handed over   *)
(* whole in one step, or dropped.  The bucket the reader has copied counts until   *)
(* it is handed over, whatever happens to its original meanwhile.                  *)
THEOREM Refinement == Spec => ImplementsReassembly
<1>1. Init => Promise!Init
  <2> SUFFICES ASSUME Init PROVE Promise!Init
    OBVIOUS
  <2>1. Gathered = [k \in Keys |-> Promise!Empty]
    BY NoGroupIsEmpty DEF Gathered, Init
  <2> QED
    BY <2>1 DEF Init, Promise!Init
<1>2. IInv /\ AbsentIsClean /\ IInv' /\ [Next]_vars => [Promise!Next]_(Promise!vars)
  BY StepRefines DEF AbstractVars, Promise!vars
<1> QED
  BY <1>1, <1>2, Invariance, NothingInherited, PTL DEF Spec, ImplementsReassembly, Promise!Spec

=============================================================================
