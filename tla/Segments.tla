------------------------------ MODULE Segments ------------------------------
(***************************************************************************)
(* Reassembly of concatenated submit_sm messages: the SegmentsManager of   *)
(* one session (internal/smsc/segments.go), fed by the session's reader    *)
(* goroutine (session.go: start, parseSubmitSM, handleSubmitSM).           *)
(*                                                                         *)
(* Three goroutines meet on the sharded map of buckets:                    *)
(*   - the reader, the only caller of AddSegment, which leaves the shard's *)
(*     lock between storing the last part and deleting the bucket;         *)
(*   - the cleanup routine, woken by a one-minute ticker;                  *)
(*   - whoever calls Session.Stop, which empties the shards one by one.    *)
(*                                                                         *)
(* A message is what the ESME meant to send: a route (source and           *)
(* destination address), a 16-bit reference, a number of parts and, for    *)
(* each part, whether it asks for a delivery receipt.  Texts are left out: *)
(* a part is identified by its message and its index.                      *)
(***************************************************************************)
EXTENDS Integers, Sequences, FiniteSets

CONSTANTS
    Messages,     \* messages the peer may split into parts
    Route,        \* Route[m]: the pair of addresses m is sent between
    Ref,          \* Ref[m]: its 16-bit concatenation reference
    Total,        \* Total[m]: the number of parts its headers announce
    Asking,       \* parts <<m, i>> whose registered_delivery asks for a receipt
    Shards,       \* shards of the manager's map (256 in the code)
    ShardOf,      \* ShardOf[k]: the shard of bucket k (FNV hash of its name)
    MaxSegments,  \* Config limit on the parts of one message, clamped to 2..25
    MaxAge,       \* segmentTTL in ticks of the cleanup ticker
    MaxId         \* bound: message ids the generator hands out in a behaviour

\* The name of the bucket a part belongs to.  Every way a reference arrives
\* (8-bit UDH, 16-bit UDH, SAR TLV, UDH inside message_payload) keeps its low byte.
GroupOf(m) == <<Route[m], Ref[m] % 256>>
Keys == {GroupOf(m) : m \in Messages}

ASSUME MessagesAssumption == Messages # {}
ASSUME HeadersAssumption ==
    /\ Ref \in [Messages -> 0 .. 65535]
    /\ Asking \subseteq Messages \X (0 .. 255)
ASSUME TotalAssumption == Total \in [Messages -> 2 .. 255]
ASSUME ShardsAssumption == ShardOf \in [Keys -> Shards]
ASSUME LimitsAssumption ==
    /\ MaxSegments \in 2 .. 25
    /\ MaxAge \in Nat
    /\ MaxId \in Nat

VARIABLES
    segments,   \* bucket of each key; expected = 0 when the map has no such bucket
    nextId,     \* next value of the session's id generator
    reader,     \* "check", "read", "complete" (between the two locked sections), "exited"
    copy,       \* AddSegment's private copy of the bucket it completed
    cleaner,    \* the cleanup routine: "wait", "sweep", "exited"
    due,        \* a tick is buffered in the ticker's channel
    toSweep,    \* shards the current sweep has still to visit
    ctxDone,    \* Session.Stop has cancelled the context and closed the connection
    toClear,    \* shards SegmentsManager.Stop has still to empty
    accepted,   \* history: parts AddSegment accepted, with the id it returned
    delivered   \* history: assembled messages handed to the submit handler

vars == <<segments, nextId, reader, copy, cleaner, due, toSweep, ctxDone, toClear,
          accepted, delivered>>

-----------------------------------------------------------------------------

Slots == 1 .. MaxSegments
Part  == [msg : Messages, id : 1 .. MaxId, age : 0 .. MaxAge + 1]
\* The non-nil entries of a bucket's list, by segment sequence number.
Lists == UNION {[S -> Part] : S \in SUBSET Slots}
Group == [list : Lists, count : 0 .. MaxSegments, expected : 0 .. MaxSegments,
          deliveryReceiptRequested : BOOLEAN]
Completion == [key : Keys, group : Group, id : 0 .. MaxId]
Acceptance == [msg : Messages, idx : Slots, id : 1 .. MaxId]
Delivery   == [id : 1 .. MaxId, deliveryReceiptRequested : BOOLEAN,
               parts : UNION {[S -> Messages] : S \in SUBSET Slots}]

NewGroup(total) == [list |-> [i \in {} |-> 0], count |-> 0, expected |-> total,
                    deliveryReceiptRequested |-> FALSE]
NoGroup == NewGroup(0)
NoCompletion == [key |-> CHOOSE k \in Keys : TRUE, group |-> NoGroup, id |-> 0]

Open(k) == segments[k].expected # 0

\* The first non-nil entry of a list.
First(list) == CHOOSE i \in DOMAIN list : \A j \in DOMAIN list : i <= j

isComplete(g) == g.count = g.expected /\ 1 .. g.expected \subseteq DOMAIN g.list

MutAnyTotal(m, i) == Total[m] > 1 /\ i # 0 /\ i <= Total[m]
\* AddSegment's validation of the concatenation header.
ValidHeader(m, i) == /\ Total[m] > 1
                     /\ i # 0
                     /\ i <= Total[m]
                     /\ Total[m] <= MaxSegments

\* The bucket AddSegment works on: the existing one, or a new one.
GroupFor(m) == IF Open(GroupOf(m)) THEN segments[GroupOf(m)] ELSE NewGroup(Total[m])

MutAlwaysFreshId(g, fresh) == fresh
\* The first part of a bucket gives the whole message its id.
MessageIDFor(g, fresh) == IF g.count = 0 THEN fresh ELSE g.list[First(g.list)].id

MutLastRequested(g, m, i) == <<m, i>> \in Asking
OrRequested(g, m, i) == g.deliveryReceiptRequested \/ <<m, i>> \in Asking

MutCountDuplicates(g, i) == g.count + 1
CountWith(g, i) == IF i \in DOMAIN g.list THEN g.count ELSE g.count + 1

Stored(g, m, i, id) ==
    [list |-> [j \in DOMAIN g.list \union {i} |->
                 IF j = i THEN [msg |-> m, id |-> id, age |-> 0] ELSE g.list[j]],
     count |-> CountWith(g, i),
     expected |-> g.expected,
     deliveryReceiptRequested |-> OrRequested(g, m, i)]

-----------------------------------------------------------------------------
(* The reader goroutine. *)

MutAfterCheck == "read"
\* start's loop head: the context is looked at once per PDU.
AfterCheck == IF ctxDone THEN "exited" ELSE "read"

CheckContext ==
    /\ reader = "check"
    /\ reader' = AfterCheck
    /\ UNCHANGED <<segments, nextId, copy, cleaner, due, toSweep, ctxDone, toClear,
                   accepted, delivered>>

\* Read timeout, a PDU that is not a part of a concatenated message, or a part for
\* which the id generator failed (ESME_RSYSERR, AddSegment touches nothing).
ReadOther ==
    /\ reader = "read"
    /\ reader' = "check"
    /\ UNCHANGED <<segments, nextId, copy, cleaner, due, toSweep, ctxDone, toClear,
                   accepted, delivered>>

\* EOF, a closed connection or a read error: the reader stops the session itself.
ReadFails ==
    /\ reader = "read"
    /\ reader' = "exited"
    /\ ctxDone' = TRUE
    /\ toClear' = IF ctxDone THEN toClear ELSE Shards
    /\ UNCHANGED <<segments, nextId, copy, cleaner, due, toSweep, accepted, delivered>>

\* ESME_RINVMSGLEN for a bad header, or for a total that differs from the bucket's:
\* an id has been generated and is wasted, the bucket is left alone.
AddRejected(m, i) ==
    /\ reader = "read"
    /\ nextId <= MaxId
    /\ ~ValidHeader(m, i) \/ GroupFor(m).expected # Total[m]
    /\ nextId' = nextId + 1
    /\ reader' = "check"
    /\ UNCHANGED <<segments, copy, cleaner, due, toSweep, ctxDone, toClear,
                   accepted, delivered>>

\* The locked section of AddSegment (126-184) and the completeness test on the
\* private copy.  An incomplete bucket is answered at once; a complete one is
\* still in the map when the lock is released.
AddPart(m, i) ==
    LET k  == GroupOf(m)
        id == MessageIDFor(GroupFor(m), nextId)
        g  == Stored(GroupFor(m), m, i, id)
    IN  /\ reader = "read"
        /\ nextId <= MaxId
        /\ ValidHeader(m, i)
        /\ GroupFor(m).expected = Total[m]
        /\ nextId' = nextId + 1
        /\ segments' = [segments EXCEPT ![k] = g]
        /\ accepted' = accepted \union {[msg |-> m, idx |-> i, id |-> id]}
        /\ IF isComplete(g)
             THEN reader' = "complete" /\ copy' = [key |-> k, group |-> g, id |-> id]
             ELSE reader' = "check" /\ copy' = copy
        /\ UNCHANGED <<cleaner, due, toSweep, ctxDone, toClear, delivered>>

MutKeepBucket(k) == segments
\* The map once AddSegment has deleted the completed bucket.
Without(k) == [segments EXCEPT ![k] = NoGroup]

\* The second locked section (191-194): delete the bucket, whatever it holds by
\* now, and hand the assembled copy to the submit handler.
FinishComplete ==
    /\ reader = "complete"
    /\ segments' = Without(copy.key)
    /\ delivered' = Append(delivered,
           [id |-> copy.id,
            deliveryReceiptRequested |-> copy.group.deliveryReceiptRequested,
            parts |-> [i \in DOMAIN copy.group.list |-> copy.group.list[i].msg]])
    /\ reader' = "check"
    /\ copy' = NoCompletion
    /\ UNCHANGED <<nextId, cleaner, due, toSweep, ctxDone, toClear, accepted>>

-----------------------------------------------------------------------------
(* Time and the cleanup routine. *)

Older(p) == [p EXCEPT !.age = IF p.age > MaxAge THEN p.age ELSE p.age + 1]

\* SegmentsManager.Stop stops the ticker before it empties the first shard.
TickerOn == ~ctxDone \/ (toClear = Shards /\ toClear # {})

\* One ticker period passes.  A sweep is far shorter than a period, and works
\* with the time at which it began.  The channel holds at most one tick.
Tick ==
    /\ cleaner # "sweep"
    /\ segments' = [k \in Keys |-> [segments[k] EXCEPT !.list =
                      [i \in DOMAIN segments[k].list |-> Older(segments[k].list[i])]]]
    /\ due' = (due \/ (TickerOn /\ cleaner = "wait"))
    /\ UNCHANGED <<nextId, reader, copy, cleaner, toSweep, ctxDone, toClear,
                   accepted, delivered>>

BeginSweep ==
    /\ cleaner = "wait"
    /\ due
    /\ due' = FALSE
    /\ cleaner' = "sweep"
    /\ toSweep' = Shards
    /\ UNCHANGED <<segments, nextId, reader, copy, ctxDone, toClear, accepted, delivered>>

MutNeverExpired(g) == DOMAIN g.list = {}
\* cleanup looks at the first non-nil part only.
Expired(g) == \/ DOMAIN g.list = {}
              \/ g.list[First(g.list)].age > MaxAge

SweepShard(h) ==
    /\ cleaner = "sweep"
    /\ h \in toSweep
    /\ segments' = [k \in Keys |-> IF ShardOf[k] = h /\ Expired(segments[k])
                                     THEN NoGroup ELSE segments[k]]
    /\ toSweep' = toSweep \ {h}
    /\ UNCHANGED <<nextId, reader, copy, cleaner, due, ctxDone, toClear,
                   accepted, delivered>>

EndSweep ==
    /\ cleaner = "sweep"
    /\ toSweep = {}
    /\ cleaner' = "wait"
    /\ UNCHANGED <<segments, nextId, reader, copy, due, toSweep, ctxDone, toClear,
                   accepted, delivered>>

CleanerExits ==
    /\ cleaner = "wait"
    /\ ctxDone
    /\ cleaner' = "exited"
    /\ due' = FALSE
    /\ UNCHANGED <<segments, nextId, reader, copy, toSweep, ctxDone, toClear,
                   accepted, delivered>>

-----------------------------------------------------------------------------
(* Session.Stop, called by another goroutine. *)

Stop ==
    /\ ~ctxDone
    /\ ctxDone' = TRUE
    /\ toClear' = Shards
    /\ UNCHANGED <<segments, nextId, reader, copy, cleaner, due, toSweep,
                   accepted, delivered>>

ClearShard(h) ==
    /\ h \in toClear
    /\ segments' = [k \in Keys |-> IF ShardOf[k] = h THEN NoGroup ELSE segments[k]]
    /\ toClear' = toClear \ {h}
    /\ UNCHANGED <<nextId, reader, copy, cleaner, due, toSweep, ctxDone,
                   accepted, delivered>>

\* The session is over: nothing is left to do.
Finished ==
    /\ reader = "exited" /\ cleaner = "exited" /\ toClear = {}
    /\ UNCHANGED vars

-----------------------------------------------------------------------------

Init ==
    /\ segments = [k \in Keys |-> NoGroup]
    /\ nextId = 1
    /\ reader = "check"
    /\ copy = NoCompletion
    /\ cleaner = "wait"
    /\ due = FALSE
    /\ toSweep = {}
    /\ ctxDone = FALSE
    /\ toClear = {}
    /\ accepted = {}
    /\ delivered = <<>>

Reader == \/ CheckContext
          \/ ReadOther
          \/ ReadFails
          \/ \E m \in Messages : \E i \in 0 .. Total[m] + 1 :
                 AddRejected(m, i) \/ AddPart(m, i)
          \/ FinishComplete

Sweeping == BeginSweep \/ (\E h \in Shards : SweepShard(h)) \/ EndSweep

Next == \/ Reader
        \/ Tick
        \/ Sweeping
        \/ CleanerExits
        \/ Stop
        \/ \E h \in Shards : ClearShard(h)
        \/ Finished

\* Time passes, the scheduler runs the cleanup routine, and a reader that has
\* completed a message goes on to delete its bucket.
Fairness == /\ WF_vars(Tick)
            /\ WF_vars(Sweeping)
            /\ WF_vars(FinishComplete)

Spec == Init /\ [][Next]_vars /\ Fairness

-----------------------------------------------------------------------------
(* Properties. *)

\* Types, and the shape of AddSegment's private copy while the reader holds one.
TypeOK ==
    /\ segments \in [Keys -> Group]
    /\ nextId \in 1 .. MaxId + 1
    /\ reader \in {"check", "read", "complete", "exited"}
    /\ copy \in Completion
    /\ cleaner \in {"wait", "sweep", "exited"}
    /\ due \in BOOLEAN
    /\ toSweep \subseteq Shards
    /\ ctxDone \in BOOLEAN
    /\ toClear \subseteq Shards
    /\ accepted \subseteq Acceptance
    /\ delivered \in Seq(Delivery)

\* The parts of bucket k: those present, under one id, which the peer was told.
PartsOf(k) == DOMAIN segments[k].list

\* A bucket's counter is the number of its parts whatever was repeated, none of
\* them lies beyond the announced total, and no bucket is left empty in the map
\* (AddSegment 128-169: completeness is decided by this counter).
GroupsCoherent ==
    \A k \in Keys :
        /\ PartsOf(k) \subseteq 1 .. segments[k].expected
        /\ segments[k].count = Cardinality(PartsOf(k))
        /\ Open(k) => PartsOf(k) # {}

\* All parts waiting in a bucket carry one id, no other bucket carries that id,
\* and it is the id the peer was answered for each of them, across sweeps,
\* repeated parts and parts of other messages (AddSegment 157-167).
OneIdPerBucket ==
    \A k \in Keys : \A i \in PartsOf(k) :
        /\ [msg |-> segments[k].list[i].msg, idx |-> i, id |-> segments[k].list[i].id]
              \in accepted
        /\ \A l \in Keys : \A j \in PartsOf(l) :
              (segments[l].list[j].id = segments[k].list[i].id) <=> (k = l)

\* A message reaches the submit handler with a contiguous run of parts, all of
\* which were answered with the very id it is delivered under: the id in every
\* submit_sm_resp is the one a later delivery report can be matched with.
DeliveredUnderAnsweredId ==
    \A n \in DOMAIN delivered : LET d == delivered[n] IN
        /\ DOMAIN d.parts = 1 .. Cardinality(DOMAIN d.parts)
        /\ \A i \in DOMAIN d.parts :
               [msg |-> d.parts[i], idx |-> i, id |-> d.id] \in accepted

\* No id is handed to the submit handler twice, although the completed bucket
\* outlives the first locked section and parts may be repeated at any time.
DeliveredOnce ==
    \A n1, n2 \in DOMAIN delivered :
        delivered[n1].id = delivered[n2].id => n1 = n2

\* A complete bucket is in the map only while the reader is on its way to delete
\* that bucket: otherwise the message would sit there, answered but never handed
\* over, until the sweep drops it.
CompleteOnlyInWindow ==
    \A k \in Keys : Open(k) /\ isComplete(segments[k]) =>
        reader = "complete" /\ copy.key = k

\* A delivered message asks for a receipt when any of its parts did, in whatever
\* order they came and whatever was repeated (segments.go:42).
AnyPartRequests ==
    \A n \in DOMAIN delivered : LET d == delivered[n] IN
        (\E i \in DOMAIN d.parts : <<d.parts[i], i>> \in Asking)
            => d.deliveryReceiptRequested

\* Once Stop has emptied the shards and the reader has left its loop, at most one
\* bucket is left behind: the one the last PDU, read before the context was
\* looked at again, was put into.
StopLeavesAtMostOne ==
    ctxDone /\ toClear = {} /\ reader = "exited" =>
        Cardinality({k \in Keys : Open(k)}) <= 1

\* While the session lives, no bucket stays for ever: it completes or the sweep
\* drops it.  (MaxId bounds how often the peer can refresh a bucket.)
PartialsDrain ==
    \A k \in Keys : (Open(k) /\ ~ctxDone) ~> (~Open(k) \/ ctxDone)

\* "Reassembles long/segmented messages" (README:151): what is handed over as one
\* message consists of parts of one message.
NoMixing ==
    \A n \in DOMAIN delivered : \A i, j \in DOMAIN delivered[n].parts :
        delivered[n].parts[i] = delivered[n].parts[j]

-----------------------------------------------------------------------------
(* The inductive invariant behind the safety properties above. *)

\* Ids in use, or delivered, have been generated.
IdsGenerated ==
    /\ \A k \in Keys : \A i \in PartsOf(k) : segments[k].list[i].id < nextId
    /\ \A n \in DOMAIN delivered : delivered[n].id < nextId
    /\ reader = "complete" => copy.id < nextId

\* An id that has been delivered is in no bucket, and is not about to be delivered.
DeliveredIdsGone ==
    \A n \in DOMAIN delivered :
        /\ \A k \in Keys : \A i \in PartsOf(k) : segments[k].list[i].id # delivered[n].id
        /\ reader = "complete" => copy.id # delivered[n].id

\* A receipt asked for by a part of a bucket is remembered by the bucket.
RequestsKept ==
    \A k \in Keys : \A i \in PartsOf(k) :
        <<segments[k].list[i].msg, i>> \in Asking => segments[k].deliveryReceiptRequested

\* The reader's private copy is a complete bucket under one answered id, and only
\* the bucket it was copied from can still hold that id.
CopySound ==
    reader = "complete" =>
        /\ DOMAIN copy.group.list = 1 .. copy.group.expected
        /\ copy.id # 0
        /\ \A i \in DOMAIN copy.group.list : LET p == copy.group.list[i] IN
               /\ [msg |-> p.msg, idx |-> i, id |-> copy.id] \in accepted
               /\ <<p.msg, i>> \in Asking => copy.group.deliveryReceiptRequested
        /\ \A k \in Keys : \A i \in PartsOf(k) :
               segments[k].list[i].id = copy.id => k = copy.key

IInv ==
    /\ TypeOK
    /\ GroupsCoherent
    /\ OneIdPerBucket
    /\ IdsGenerated
    /\ DeliveredIdsGone
    /\ RequestsKept
    /\ CopySound
    /\ CompleteOnlyInWindow
    /\ DeliveredUnderAnsweredId
    /\ DeliveredOnce
    /\ AnyPartRequests

-----------------------------------------------------------------------------
(* What the refinement below and StopLeavesAtMostOne rest on besides IInv. *)

\* A key without a bucket keeps nothing of the last one: a bucket that is started
\* asks for no receipt before one of its parts does.
AbsentIsClean == \A k \in Keys : ~Open(k) => segments[k] = NoGroup

\* Buckets in shards that Stop has emptied.
Late == {k \in Keys : ctxDone /\ Open(k) /\ ShardOf[k] \notin toClear}

\* After Stop the reader handles one PDU more, that for which it had looked at the
\* context before; until then no bucket has been added behind Stop's back.
StopSound ==
    /\ reader = "read" => Late = {}
    /\ \A k, l \in Late : k = l

-----------------------------------------------------------------------------
(* Refinement: between the two locked sections the bucket that counts is the *)
(* reader's private copy, whatever a sweep or a stop does to the map.        *)

AbstractBucket(g, id) ==
    [id |-> id, total |-> g.expected, wants |-> g.deliveryReceiptRequested,
     parts |-> [i \in DOMAIN g.list |-> g.list[i].msg]]

\* What bucket k amounts to.
Gathered == [k \in Keys |->
                 IF reader = "complete" /\ copy.key = k
                   THEN AbstractBucket(copy.group, copy.id)
                   ELSE AbstractBucket(segments[k], MessageIDFor(segments[k], 0))]

Promise == INSTANCE Reassembly WITH
    bucket <- Gathered, lastId <- nextId - 1, handed <- delivered, MaxParts <- MaxSegments

\* The locked sections, the sweep and the stop together do nothing but gather,
\* hand over and drop buckets as Reassembly allows.
ImplementsReassembly == Promise!Spec

=============================================================================
