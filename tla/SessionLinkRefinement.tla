----------------------- MODULE SessionLinkRefinement -----------------------
(* SessionLink implements Outbox, and writes no PDU twice, as long as the peer     *)
(* sends no replace_sm, whatever the senders, requests and limits.                *)
EXTENDS SessionLinkProofs, FiniteSetTheorems

-----------------------------------------------------------------------------
(* Taking a sequence from the front of another. *)

LEMMA Front ==
    ASSUME NEW S, NEW a \in Seq(S), NEW b \in Seq(S), NEW n \in 0 .. Len(a)
    PROVE  /\ SubSeq(a \o b, 1, n) = SubSeq(a, 1, n)
           /\ SubSeq(a \o b, Len(a) + 1, Len(a \o b)) = b
<1>1. Len(a) \in Nat /\ Len(b) \in Nat /\ a \o b \in Seq(S) /\ Len(a \o b) = Len(a) + Len(b)
  BY LenProperties, ConcatProperties
<1>2. SubSeq(a \o b, 1, n) = SubSeq(a, 1, n)
  <2>1. CASE n = 0
    BY <2>1, SubSeqEmpty
  <2>2. CASE n # 0
    <3>1. 1 \in 1 .. Len(a) /\ n \in 1 .. Len(a)
      BY <1>1, <2>2
    <3> QED
      BY <3>1, SubSeqOfConcat1
  <2> QED
    BY <2>1, <2>2
<1>3. SubSeq(a \o b, Len(a) + 1, Len(a \o b)) = b
  <2>1. CASE Len(b) = 0
    <3>1. b = <<>>
      BY <2>1, EmptySeq
    <3>2. SubSeq(a \o b, Len(a) + 1, Len(a \o b)) = <<>>
      BY <1>1, <2>1, SubSeqEmpty
    <3> QED
      BY <3>1, <3>2
  <2>2. CASE Len(b) # 0
    <3>1. /\ Len(a) + 1 \in Len(a) + 1 .. Len(a) + Len(b)
          /\ Len(a) + Len(b) \in Len(a) + 1 .. Len(a) + Len(b)
      BY <1>1, <2>2
    <3>2. SubSeq(a \o b, Len(a) + 1, Len(a) + Len(b)) =
          SubSeq(b, Len(a) + 1 - Len(a), Len(a) + Len(b) - Len(a))
      BY <3>1, SubSeqOfConcat2
    <3>3. Len(a) + 1 - Len(a) = 1 /\ Len(a) + Len(b) - Len(a) = Len(b)
      BY <1>1
    <3> QED
      BY <1>1, <3>2, <3>3, SubSeqFull
  <2> QED
    BY <2>1, <2>2
<1> QED
  BY <1>2, <1>3

-----------------------------------------------------------------------------
(* Steps of Outbox. *)

(* The front of the line leaves: a part of it is written, the rest is lost. *)
LEMMA Departs ==
    ASSUME NEW a \in Seq(PDU), NEW b \in Seq(PDU), NEW n \in 0 .. Len(a),
           wire \in Seq(PDU),
           Waiting = a \o b, Waiting' = b,
           wire' = wire \o SubSeq(a, 1, n)
    PROVE  Out!Depart \/ UNCHANGED <<Waiting, wire>>
<1>1. Len(a) \in Nat /\ Len(b) \in Nat /\ Len(a \o b) = Len(a) + Len(b)
  BY LenProperties, ConcatProperties
<1>2. CASE Len(a) = 0
  <2>1. a = <<>> /\ SubSeq(a, 1, n) = <<>>
    BY <1>2, EmptySeq, SubSeqEmpty
  <2> QED
    BY <2>1, ConcatEmptySeq
<1>3. CASE Len(a) # 0
  <2>1. Len(a) \in 1 .. Len(Waiting)
    BY <1>1, <1>3
  <2>2. /\ wire' = wire \o SubSeq(Waiting, 1, n)
        /\ Waiting' = SubSeq(Waiting, Len(a) + 1, Len(Waiting))
    BY Front
  <2> QED
    BY <2>1, <2>2 DEF Out!Depart
<1> QED
  BY <1>2, <1>3

(* What is lost whole. *)
LEMMA Lost ==
    ASSUME NEW a \in Seq(PDU), NEW b \in Seq(PDU), wire \in Seq(PDU),
           Waiting = a \o b, Waiting' = b, wire' = wire
    PROVE  Out!Depart \/ UNCHANGED <<Waiting, wire>>
<1>1. 0 \in 0 .. Len(a) /\ SubSeq(a, 1, 0) = <<>>
  BY LenProperties, SubSeqEmpty
<1>2. wire' = wire \o SubSeq(a, 1, 0)
  BY <1>1, ConcatEmptySeq
<1> QED
  BY <1>1, <1>2, Departs

(* What is written whole. *)
LEMMA Written ==
    ASSUME NEW a \in Seq(PDU), NEW b \in Seq(PDU), wire \in Seq(PDU),
           Waiting = a \o b, Waiting' = b, wire' = wire \o a
    PROVE  Out!Depart \/ UNCHANGED <<Waiting, wire>>
<1>1. Len(a) \in 0 .. Len(a) /\ SubSeq(a, 1, Len(a)) = a
  BY LenProperties, SubSeqFull
<1> QED
  BY <1>1, Departs

(* What may be in the writer's buffer, and is not on its way out, stands in line. *)
LEMMA Line ==
    ASSUME IInv
    PROVE  /\ queue \in Seq(PDU) /\ batch \in Seq(PDU) /\ wire \in Seq(PDU)
           /\ buffer \in Seq(PDU) /\ Unwritten \in Seq(PDU)
           /\ Waiting = Unwritten \o (batch \o queue)
           /\ Unwritten = <<>> => Waiting = batch \o queue
<1>1. /\ queue \in Seq(PDU) /\ batch \in Seq(PDU) /\ wire \in Seq(PDU) /\ buffer \in Seq(PDU)
  BY DEF IInv, TypeOK
<1>2. Unwritten \in Seq(PDU)
  BY <1>1, EmptySeq DEF Unwritten
<1>3. Waiting = Unwritten \o (batch \o queue)
  BY <1>1, <1>2, ConcatAssociative DEF Waiting
<1>4. batch \o queue \in Seq(PDU)
  BY <1>1, ConcatProperties
<1> QED
  BY <1>1, <1>2, <1>3, <1>4, ConcatEmptySeq

(* Without replace_sm the reader keeps away from the buffer, and the buffer is   *)
(* empty but for the moment between filling and flushing it.                     *)
LEMMA WriterAlone ==
    ASSUME IInv, "replace" \notin Requests
    PROVE  /\ reader \notin {"replacing", "flushing"}
           /\ writer # "flush" => Unwritten = <<>>
           /\ writer = "flush" => batch = <<>>
<1>1. request # "replace"
  BY DEF IInv, TypeOK
<1>2. writer # "flush" /\ ~broken => buffer = <<>>
  BY DEF IInv, TypeOK
<1> QED
  BY <1>1, <1>2 DEF IInv, ReaderSound, BatchSound, Unwritten

-----------------------------------------------------------------------------
(* Every step of SessionLink is a step of Outbox, or none. *)

(* What leaves queue, batch, buffer and wire alone is no step of Outbox. *)
LEMMA LineUntouched ==
    ASSUME UNCHANGED <<queue, batch, buffer, broken, flushed, wire>>
    PROVE  UNCHANGED <<Waiting, wire>>
<1>1. Unwritten' = Unwritten
  BY DEF Unwritten
<1> QED
  BY <1>1 DEF Waiting

(* Whoever queues a PDU puts it at the end of the line. *)
LEMMA OfferAccepts ==
    ASSUME IInv, NEW a \in Senders \union {Reader}, Offer(a)
    PROVE  BodyOf(a) \in PDU /\ Waiting' = Append(Waiting, BodyOf(a)) /\ wire' = wire
<1>1. queue' = Append(queue, BodyOf(a)) /\ UNCHANGED <<Unwritten, batch, wire>>
  BY DEF Offer, Unwritten, writerVars, bufferVars
<1>2. BodyOf(a) \in PDU
  BY BodyType DEF Offer, IInv
<1> DEFINE p == BodyOf(a)
           u == Unwritten \o batch
<1>3. queue \in Seq(PDU) /\ u \in Seq(PDU)
  BY Line, ConcatProperties
<1>4. Waiting' = u \o Append(queue, p) /\ Waiting = u \o queue
  BY <1>1 DEF Waiting
<1> HIDE DEF p, u
<1>5. <<p>> \in Seq(PDU) /\ u \o queue \in Seq(PDU)
  BY <1>2, <1>3, ConcatProperties DEF p
<1>6. /\ Append(queue, p) = queue \o <<p>>
      /\ Append(u \o queue, p) = (u \o queue) \o <<p>>
      /\ (u \o queue) \o <<p>> = u \o (queue \o <<p>>)
  BY <1>2, <1>3, <1>5, AppendIsConcat, ConcatAssociative DEF p
<1>7. Waiting' = Append(Waiting, p)
  BY <1>4, <1>6
<1> QED
  BY <1>1, <1>2, <1>7 DEF p

(* Draining moves PDUs up in line. *)
LEMMA TakeStutters == ASSUME IInv, TakePDU PROVE UNCHANGED <<Waiting, wire>>
<1>1. /\ queue # <<>> /\ batch' = Append(batch, Head(queue)) /\ queue' = Tail(queue)
      /\ UNCHANGED <<Unwritten, wire>>
  BY DEF TakePDU, Taken, Unwritten, bufferVars
<1> DEFINE u == Unwritten
           h == Head(queue)
           t == Tail(queue)
<1>2. /\ queue \in Seq(PDU) /\ batch \in Seq(PDU) /\ u \in Seq(PDU)
      /\ h \in PDU /\ t \in Seq(PDU)
  BY <1>1, Line, HeadTailRange
<1>3. queue = <<h>> \o t
  <2>1. 1 \in 1 .. Len(queue) /\ Len(queue) \in 1 .. Len(queue)
    BY <1>1, <1>2, EmptySeq
  <2>2. SubSeq(queue, 1, Len(queue)) = <<queue[1]>> \o SubSeq(queue, 1 + 1, Len(queue))
    BY <1>2, <2>1, SubSeqRecursiveFirst
  <2>3. SubSeq(queue, 1, Len(queue)) = queue /\ t = SubSeq(queue, 1 + 1, Len(queue))
    BY <1>1, <1>2, SubSeqFull, TailIsSubSeq
  <2>4. h = queue[1]
    BY <1>1, <1>2, <2>1
  <2> QED
    BY <2>2, <2>3, <2>4
<1>4. Waiting = (u \o batch) \o queue /\ Waiting' = (u \o Append(batch, h)) \o t
  BY <1>1 DEF Waiting
<1> HIDE DEF u, h, t
<1>5. <<h>> \in Seq(PDU) /\ u \o batch \in Seq(PDU)
  BY <1>2, ConcatProperties
<1>6. u \o Append(batch, h) = (u \o batch) \o <<h>>
  BY <1>2, <1>5, AppendIsConcat, ConcatAssociative
<1>7. ((u \o batch) \o <<h>>) \o t = (u \o batch) \o (<<h>> \o t)
  BY <1>2, <1>5, ConcatAssociative
<1> QED
  BY <1>1, <1>3, <1>4, <1>6, <1>7

(* A batch is dropped, kept in line by the buffer, or written as far as the         *)
(* connection takes it.                                                            *)
LEMMA BatchDeparts ==
    ASSUME IInv, "replace" \notin Requests, DropBatch \/ Fill \/ FillDirectly
    PROVE  Out!Depart \/ UNCHANGED <<Waiting, wire>>
<1>1. writer # "flush" /\ Unwritten = <<>> /\ Waiting = batch \o queue
  BY WriterAlone, Line DEF DropBatch, Fill, FillDirectly
<1>2. batch \in Seq(PDU) /\ queue \in Seq(PDU) /\ wire \in Seq(PDU) /\ buffer \in Seq(PDU)
  BY Line
<1>3. <<>> \o <<>> = <<>> /\ <<>> \o queue = queue /\ <<>> \o batch = batch
      /\ batch \o <<>> = batch
  BY <1>2, EmptySeq, ConcatEmptySeq
<1>4. CASE DropBatch
  <2>1. Unwritten' = <<>> /\ batch' = <<>> /\ UNCHANGED <<queue, wire>>
    BY <1>1, <1>4 DEF DropBatch, Unwritten, bufferVars
  <2>2. Waiting' = queue
    BY <1>3, <2>1 DEF Waiting
  <2> QED
    BY <1>1, <1>2, <2>1, <2>2, Lost
<1>5. CASE Fill
  <2>1. buffer = <<>> /\ flushed["writer"] = NoFlush /\ ~broken
    BY <1>5 DEF Fill, IInv, TypeOK, FlushesSound
  <2>2. Unwritten' = buffer \o batch /\ batch' = <<>> /\ UNCHANGED <<queue, wire>>
    BY <1>5, <2>1 DEF Fill, Unwritten
  <2>3. Waiting' = Waiting
    BY <1>1, <1>3, <2>1, <2>2 DEF Waiting
  <2> QED
    BY <2>2, <2>3
<1>6. CASE FillDirectly
  <2>1. Unwritten' = <<>> /\ batch' = <<>> /\ UNCHANGED queue
    BY <1>6 DEF FillDirectly, Unwritten
  <2>2. Waiting' = queue
    BY <1>3, <2>1 DEF Waiting
  <2>3. CASE wire' = wire \o batch
    BY <1>1, <1>2, <2>2, <2>3, Written
  <2>4. ASSUME NEW n \in 0 .. Len(batch) - 1, wire' = wire \o SubSeq(batch, 1, n)
        PROVE  Out!Depart \/ UNCHANGED <<Waiting, wire>>
    <3>1. n \in 0 .. Len(batch)
      BY <1>2, LenProperties
    <3> QED
      BY <1>1, <1>2, <2>2, <2>4, <3>1, Departs
  <2> QED
    BY <1>6, <2>3, <2>4 DEF FillDirectly
<1> QED
  BY <1>4, <1>5, <1>6

(* The buffer leaves when it is written; clearing it afterwards changes nothing. *)
LEMMA FlushDeparts ==
    ASSUME IInv, "replace" \notin Requests, WriterFlushes
    PROVE  Out!Depart \/ UNCHANGED <<Waiting, wire>>
<1>1. batch = <<>> /\ batch' = <<>> /\ queue' = queue
  BY WriterAlone DEF WriterFlushes, FlushWrite, writerVars
<1>2. queue \in Seq(PDU) /\ wire \in Seq(PDU) /\ buffer \in Seq(PDU) /\ Unwritten \in Seq(PDU)
  BY Line
<1>3. <<>> \o queue = queue /\ Waiting = Unwritten \o queue
  BY <1>1, <1>2, Line, ConcatEmptySeq
<1>4. ASSUME Unwritten' = <<>> PROVE Waiting' = queue
  <2>1. <<>> \o <<>> = <<>>
    BY EmptySeq, ConcatEmptySeq
  <2> QED
    BY <1>1, <1>3, <1>4, <2>1 DEF Waiting
<1>5. CASE FlushWrite("writer")
  <2>1. Unwritten = buffer /\ Len(buffer) \in Nat
    BY <1>2, <1>5, LenProperties DEF FlushWrite, Unwritten
  <2>2. CASE /\ wire' = wire \o buffer
             /\ flushed' = [flushed EXCEPT !["writer"] = [n |-> Len(buffer), ok |-> TRUE]]
    <3>1. flushed'["writer"] # NoFlush
      BY <2>1, <2>2 DEF NoFlush, IInv, TypeOK
    <3>2. Waiting' = queue
      BY <1>4, <3>1 DEF Unwritten
    <3> QED
      BY <1>2, <1>3, <2>1, <2>2, <3>2, Written
  <2>3. ASSUME NEW n \in 0 .. Len(buffer) - 1,
               wire' = wire \o SubSeq(buffer, 1, n),
               flushed' = [flushed EXCEPT !["writer"] = [n |-> n, ok |-> FALSE]]
        PROVE  Out!Depart \/ UNCHANGED <<Waiting, wire>>
    <3>1. flushed'["writer"] # NoFlush
      BY <2>1, <2>3 DEF NoFlush, IInv, TypeOK
    <3>2. Waiting' = queue
      BY <1>4, <3>1 DEF Unwritten
    <3>3. n \in 0 .. Len(buffer)
      BY <2>1
    <3> QED
      BY <1>2, <1>3, <2>1, <2>3, <3>2, <3>3, Departs
  <2> QED
    BY <1>5, <2>2, <2>3 DEF FlushWrite
<1>6. CASE FlushReset("writer") /\ wire' = wire
  <2>1. Unwritten = <<>>
    BY <1>6 DEF FlushReset, Unwritten
  <2>2. Unwritten' = <<>>
    BY <1>6 DEF FlushReset, Unwritten
  <2> QED
    BY <1>3, <1>4, <1>6, <2>1, <2>2
<1>7. CASE UNCHANGED bufferVars
  BY <1>1, <1>7 DEF bufferVars, Waiting, Unwritten
<1> QED
  BY <1>5, <1>6, <1>7 DEF WriterFlushes, bufferVars

(* Unless a PDU is queued, the line loses its front or stays as it is. *)
LEMMA OthersDepart ==
    ASSUME IInv, "replace" \notin Requests, [Next]_vars,
           \A a \in Senders \union {Reader} : ~Offer(a)
    PROVE  Out!Depart \/ UNCHANGED <<Waiting, wire>>
<1> DEFINE Untouched == UNCHANGED <<queue, batch, buffer, broken, flushed, wire>>
<1> USE DEF readerVars, senderVars, writerVars, bufferVars, MoveReader
<1>1. ASSUME NEW a \in Senders \union {Reader}, EnqueuePDU(a)
      PROVE  Untouched
  BY <1>1 DEF EnqueuePDU, CheckContext, TimeOut
<1>2. CASE TakePDU
  BY <1>2, TakeStutters
<1>3. CASE DropBatch \/ Fill \/ FillDirectly
  BY <1>3, BatchDeparts
<1>4. CASE WriterFlushes
  BY <1>4, FlushDeparts
<1>5. ASSUME EndDrain \/ CheckOpen \/ WriterExits
      PROVE  Untouched
  BY <1>5 DEF EndDrain, CheckOpen, WriterExits
<1>6. ASSUME NEW a \in Senders, TakeSequence(a) \/ Store(a) \/ Return(a)
      PROVE  Untouched
  BY <1>6 DEF TakeSequence, Store, Return
<1>7. ASSUME Read \/ ReadTimesOut
      PROVE  Untouched
  BY <1>7 DEF Read, ReadRequest, ReadAnswer, ReadFails, ReadTimesOut
<1>8. ASSUME LoopHead \/ LimiterRefuses \/ HandleRequest \/ AnswerQueued \/ ReaderStopped
      PROVE  Untouched
  BY <1>8 DEF LoopHead, LimiterRefuses, HandleRequest, AnswerQueued, ReaderStopped
<1>9. ~WriteReplaceAnswer /\ ~ReaderFlushes
  BY WriterAlone DEF WriteReplaceAnswer, ReaderFlushes
<1>10. ASSUME BeginStop \/ CloseConn \/ FinishStop \/ UNCHANGED vars
       PROVE  Untouched
  BY <1>10 DEF BeginStop, CloseConn, FinishStop, vars
<1>11. Untouched => UNCHANGED <<Waiting, wire>>
  BY LineUntouched
<1> HIDE DEF Untouched
<1>12. CASE \E a \in Senders : SendDeliverSM(a)
  BY <1>1, <1>6, <1>11, <1>12 DEF SendDeliverSM
<1>13. CASE ReaderLoop
  BY <1>1, <1>8, <1>9, <1>11, <1>13 DEF ReaderLoop
<1>14. CASE WriterLoop
  BY <1>2, <1>3, <1>4, <1>5, <1>11, <1>14 DEF WriterLoop
<1> QED
  BY <1>7, <1>10, <1>11, <1>12, <1>13, <1>14 DEF Next, Finished

LEMMA StepRefines ==
    ASSUME IInv, "replace" \notin Requests, [Next]_vars
    PROVE  Out!Accept \/ Out!Depart \/ UNCHANGED <<Waiting, wire>>
<1>1. ASSUME NEW a \in Senders \union {Reader}, Offer(a)
      PROVE  Out!Accept
  BY <1>1, OfferAccepts DEF Out!Accept
<1> QED
  BY <1>1, OthersDepart

(* What is queued is written in the order in which it was, each PDU once: batches,  *)
(* short writes, write errors and Stop can lose PDUs but neither reorder nor repeat *)
(* them.  With replace_sm it is not so, which the run session_link_replace shows.   *)
THEOREM Refinement ==
    ASSUME "replace" \notin Requests
    PROVE  Spec => ImplementsOutbox
<1>1. Init => Out!Init
  BY EmptySeq, ConcatEmptySeq DEF Init, Out!Init, Waiting, Unwritten
<1>2. IInv /\ [Next]_vars => [Out!Accept \/ Out!Depart]_<<Waiting, wire>>
  BY StepRefines
<1> QED
  BY <1>1, <1>2, Invariance, PTL DEF Spec, ImplementsOutbox, Out!Spec

-----------------------------------------------------------------------------
(***************************************************************************)
(* No PDU is queued twice, so none is written twice.  A sequence number    *)
(* comes around only after MaxSequence others, more than there are senders *)
(* to take one; a request is answered once.                                *)
(***************************************************************************)
Distinct(s) == \A i, j \in DOMAIN s : s[i] = s[j] => i = j

\* What is on the wire or on its way there.
Row == wire \o Waiting

\* Sequence numbers taken are the last ones given out, one for each sender.
Started == {a \in Senders : sender[a] # "start"}
Behind(a) == IF seqOf[a] <= sequence THEN sequence - seqOf[a] ELSE sequence + MaxSequence - seqOf[a]
SequencesSound ==
    /\ \A a \in Started : seqOf[a] \in 1 .. MaxSequence /\ Behind(a) < Cardinality(Started)
    /\ \A a, b \in Started : seqOf[a] = seqOf[b] => a = b

\* What holds of a PDU in the row: its request is answered, its sender has queued.
Settled(p) ==
    \/ \E n \in 1 .. MaxRequests : p = Answer(n) /\ n <= received
           /\ (n = received => reader # "limited" /\ queueing[Reader] = "no")
    \/ \E a \in Senders : p = Deliver(seqOf[a]) /\ sender[a] \in {"queueing", "done"} /\ queueing[a] = "no"

RowSound == Distinct(Row) /\ \A p \in Range(Row) : Settled(p)

-----------------------------------------------------------------------------
(* Rows without repetition. *)

LEMMA DistinctAppend ==
    ASSUME NEW S, NEW s \in Seq(S), NEW p \in S, Distinct(s), p \notin Range(s)
    PROVE  Distinct(Append(s, p))
<1>1. /\ Append(s, p) \in Seq(S) /\ Len(Append(s, p)) = Len(s) + 1 /\ Len(s) \in Nat
      /\ \A i \in 1 .. Len(s) : Append(s, p)[i] = s[i]
      /\ Append(s, p)[Len(s) + 1] = p
      /\ DOMAIN s = 1 .. Len(s) /\ DOMAIN Append(s, p) = 1 .. Len(s) + 1
  BY AppendProperties, LenProperties
<1>2. \A i \in 1 .. Len(s) : s[i] # p
  BY <1>1 DEF Range
<1> DEFINE t == Append(s, p)
<1> HIDE DEF t
<1> SUFFICES ASSUME NEW i \in 1 .. Len(s) + 1, NEW j \in 1 .. Len(s) + 1, t[i] = t[j]
             PROVE  i = j
  BY <1>1 DEF Distinct, t
<1> QED
  BY <1>1, <1>2 DEF Distinct, t

\* The elements of a concatenation.
Joins(a, b, c) ==
    /\ Len(c) = Len(a) + Len(b)
    /\ \A i \in 1 .. Len(a) : c[i] = a[i]
    /\ \A i \in 1 .. Len(b) : c[Len(a) + i] = b[i]

\* n elements of a sequence, those after the m-th.
Cut(x, m, n, c) == Len(c) = n /\ \A i \in 1 .. n : c[i] = x[m + i]

LEMMA Joined ==
    ASSUME NEW S, NEW a \in Seq(S), NEW b \in Seq(S)
    PROVE  a \o b \in Seq(S) /\ Joins(a, b, a \o b)
<1>1. Len(a) \in Nat /\ Len(b) \in Nat
  BY LenProperties
<1> QED
  BY <1>1, ConcatProperties DEF Joins

\* A piece of a row taken out of its middle, element by element.
LEMMA ThinnedElements ==
    ASSUME NEW S, NEW w \in Seq(S), NEW x \in Seq(S), NEW l \in 1 .. Len(x), NEW k \in 0 .. l,
           NEW front \in Seq(S), Cut(x, 0, k, front),
           NEW back \in Seq(S), Cut(x, l, Len(x) - l, back),
           NEW row \in Seq(S), Joins(w, x, row),
           NEW v \in Seq(S), Joins(w, front, v),
           NEW r \in Seq(S), Joins(v, back, r),
           Distinct(row)
    PROVE  Distinct(r) /\ Range(r) \subseteq Range(row)
<1> DEFINE From(i) == IF i <= Len(v) THEN i ELSE i + (l - k)
<1>1. /\ Len(x) \in Nat /\ Len(w) \in Nat /\ l \in Nat /\ k \in Nat /\ k <= l /\ l <= Len(x)
      /\ Len(v) = Len(w) + k /\ Len(r) = Len(v) + (Len(x) - l) /\ Len(row) = Len(w) + Len(x)
  BY LenProperties DEF Joins, Cut
<1>2. ASSUME NEW i \in 1 .. Len(r)
      PROVE  From(i) \in 1 .. Len(row) /\ r[i] = row[From(i)]
  <2>1. CASE i <= Len(w)
    <3>1. i \in 1 .. Len(w) /\ i \in 1 .. Len(v) /\ i \in 1 .. Len(row) /\ i <= Len(v)
      BY <1>1, <2>1
    <3>2. r[i] = w[i] /\ row[i] = w[i]
      BY <3>1 DEF Joins, Cut
    <3> QED
      BY <3>1, <3>2
  <2>2. CASE Len(w) < i /\ i <= Len(v)
    <3> DEFINE m == i - Len(w)
    <3>1. m \in 1 .. k /\ m \in 1 .. Len(x) /\ i = Len(w) + m /\ i \in 1 .. Len(v)
      BY <1>1, <2>2
    <3> HIDE DEF m
    <3>2. r[i] = x[m] /\ row[i] = x[m]
      <4>1. r[i] = v[i] /\ row[i] = x[m]
        BY <3>1 DEF Joins
      <4>2. v[i] = front[m]
        BY <1>1, <3>1 DEF Joins, Cut
      <4>3. front[m] = x[0 + m] /\ 0 + m = m
        BY <3>1 DEF Cut
      <4> QED
        BY <4>1, <4>2, <4>3
    <3> QED
      BY <1>1, <2>2, <3>2
  <2>3. CASE Len(v) < i
    <3> DEFINE m == i - Len(v)
    <3>1. /\ m \in 1 .. Len(x) - l /\ i = Len(v) + m
          /\ l + m \in 1 .. Len(x) /\ From(i) = Len(w) + (l + m)
          /\ From(i) \in 1 .. Len(row)
      BY <1>1, <2>3
    <3> HIDE DEF m, From
    <3>2. r[i] = x[l + m] /\ row[From(i)] = x[l + m]
      <4>1. Len(back) = Len(x) - l /\ back[m] = x[l + m]
        BY <3>1 DEF Cut
      <4>2. r[i] = back[m]
        BY <3>1, <4>1 DEF Joins
      <4>3. row[From(i)] = x[l + m]
        BY <3>1 DEF Joins
      <4> QED
        BY <4>1, <4>2, <4>3
    <3> QED
      BY <3>1, <3>2
  <2> QED
    BY <1>1, <2>1, <2>2, <2>3
<1>3. \A i, j \in 1 .. Len(r) : From(i) = From(j) => i = j
  BY <1>1
<1>4. DOMAIN r = 1 .. Len(r) /\ DOMAIN row = 1 .. Len(row)
  BY LenProperties
<1> HIDE DEF From
<1>5. Distinct(r)
  BY <1>2, <1>3, <1>4 DEF Distinct
<1>6. Range(r) \subseteq Range(row)
  BY <1>2, <1>4 DEF Range
<1> QED
  BY <1>5, <1>6

\* What is left when a piece goes was there before, and stands there once.
LEMMA Thinned ==
    ASSUME NEW S, NEW w \in Seq(S), NEW x \in Seq(S), NEW l \in 1 .. Len(x), NEW k \in 0 .. l,
           Distinct(w \o x)
    PROVE  LET r == (w \o SubSeq(x, 1, k)) \o SubSeq(x, l + 1, Len(x))
           IN  Distinct(r) /\ Range(r) \subseteq Range(w \o x)
<1> DEFINE front == SubSeq(x, 1, k)
           back  == SubSeq(x, l + 1, Len(x))
<1>1. Len(x) \in Nat /\ l \in Nat /\ k \in Nat /\ k <= l /\ l <= Len(x)
  BY LenProperties
<1>2. front \in Seq(S) /\ Cut(x, 0, k, front)
  <2>1. \A i \in 1 .. k : x[i] \in S
    BY <1>1, ElementOfSeq
  <2>2. /\ front \in Seq(S)
        /\ Len(front) = IF 1 <= k THEN k - 1 + 1 ELSE 0
        /\ \A i \in 1 .. k - 1 + 1 : front[i] = x[1 + i - 1]
    BY <1>1, <2>1, SubSeqProperties
  <2> HIDE DEF front
  <2> QED
    BY <1>1, <2>2 DEF Cut
<1>3. back \in Seq(S) /\ Cut(x, l, Len(x) - l, back)
  <2>1. \A i \in l + 1 .. Len(x) : x[i] \in S
    BY <1>1, ElementOfSeq
  <2>2. /\ back \in Seq(S)
        /\ Len(back) = IF l + 1 <= Len(x) THEN Len(x) - (l + 1) + 1 ELSE 0
        /\ \A i \in 1 .. Len(x) - (l + 1) + 1 : back[i] = x[(l + 1) + i - 1]
    BY <1>1, <2>1, SubSeqProperties
  <2> HIDE DEF back
  <2> QED
    BY <1>1, <2>2 DEF Cut
<1> HIDE DEF front, back
<1>4. w \o x \in Seq(S) /\ Joins(w, x, w \o x)
  BY Joined
<1>5. w \o front \in Seq(S) /\ Joins(w, front, w \o front)
  BY <1>2, Joined
<1>6. (w \o front) \o back \in Seq(S) /\ Joins(w \o front, back, (w \o front) \o back)
  BY <1>3, <1>5, Joined
<1>7. Distinct((w \o front) \o back) /\ Range((w \o front) \o back) \subseteq Range(w \o x)
  BY <1>2, <1>3, <1>4, <1>5, <1>6, ThinnedElements, Zenon
<1> QED
  BY <1>7 DEF front, back

-----------------------------------------------------------------------------
(* Sequence numbers. *)

LEMMA StartedCount ==
    /\ IsFiniteSet(Started) /\ Cardinality(Started) \in Nat
    /\ \A a \in Senders \ Started : Cardinality(Started) < MaxSequence
<1>1. IsFiniteSet(Senders) /\ Cardinality(Senders) <= MaxSequence /\ MaxSequence \in Nat
  BY SequenceAssumption
<1>2. IsFiniteSet(Started)
  BY <1>1, FS_Subset DEF Started
<1>3. Cardinality(Started) \in Nat /\ Cardinality(Senders) \in Nat
  BY <1>1, <1>2, FS_CardinalityType
<1>4. ASSUME NEW a \in Senders \ Started PROVE Cardinality(Started) < MaxSequence
  <2>1. Started \subseteq Senders \ {a} /\ IsFiniteSet(Senders \ {a})
    BY <1>1, FS_RemoveElement DEF Started
  <2>2. Cardinality(Senders \ {a}) = Cardinality(Senders) - 1
    BY <1>1, FS_RemoveElement
  <2>3. Cardinality(Started) <= Cardinality(Senders \ {a})
    BY <2>1, FS_Subset
  <2> QED
    BY <1>1, <1>3, <2>2, <2>3
<1> QED
  BY <1>2, <1>3, <1>4

LEMMA TakeKeepsSequences ==
    ASSUME IInv, SequencesSound, NEW a \in Senders, TakeSequence(a)
    PROVE  SequencesSound'
<1> DEFINE M == MaxSequence
           n == NextSequence(sequence)
<1>1. /\ sequence \in 0 .. M /\ M \in Nat \ {0}
      /\ seqOf \in [Senders -> 0 .. M] /\ sender \in [Senders -> {"start", "store", "queueing", "done"}]
  BY SequenceAssumption DEF IInv, TypeOK
<1>2. n \in 1 .. M /\ sequence' = n
  BY <1>1 DEF TakeSequence, NextSequence
<1>3. /\ a \notin Started /\ Started' = Started \union {a}
      /\ seqOf'[a] = n /\ \A b \in Started : seqOf'[b] = seqOf[b]
  BY <1>1 DEF TakeSequence, Started
<1>4. Cardinality(Started') = Cardinality(Started) + 1
  BY <1>3, StartedCount, FS_AddElement
<1>5. Cardinality(Started) \in Nat /\ Cardinality(Started) < M
  BY <1>3, StartedCount
<1>6. ASSUME NEW b \in Started
      PROVE  /\ seqOf'[b] \in 1 .. M /\ seqOf'[b] # n
             /\ Behind(b)' < Cardinality(Started')
  <2>1. seqOf[b] \in 1 .. M /\ Behind(b) < Cardinality(Started)
    BY DEF SequencesSound
  <2> DEFINE q == seqOf[b]
             c == Cardinality(Started)
  <2>2. q \in 1 .. M /\ seqOf'[b] = q
    BY <1>3, <2>1
  <2>3. (IF q <= sequence THEN sequence - q ELSE sequence + M - q) < c
    BY <2>1 DEF Behind
  <2>4. Behind(b)' = IF q <= n THEN n - q ELSE n + M - q
    BY <1>2, <2>2 DEF Behind
  <2>5. n = IF sequence >= M THEN 1 ELSE sequence + 1
    BY DEF NextSequence
  <2> HIDE DEF q, c, n, M
  <2>6. q # n /\ Behind(b)' < c + 1
    BY <1>1, <1>2, <1>5, <2>2, <2>3, <2>4, <2>5 DEF c
  <2> QED
    BY <1>4, <2>2, <2>6 DEF c
<1>7. seqOf'[a] \in 1 .. M /\ Behind(a)' < Cardinality(Started')
  <2>1. Behind(a)' = n - n
    BY <1>2, <1>3 DEF Behind
  <2> QED
    BY <1>2, <1>3, <1>4, <1>5, <2>1
<1> HIDE DEF n, M
<1>8. \A b \in Started' : seqOf'[b] \in 1 .. M /\ Behind(b)' < Cardinality(Started')
  BY <1>3, <1>6, <1>7
<1>9. \A b, c \in Started' : seqOf'[b] = seqOf'[c] => b = c
  BY <1>3, <1>6 DEF SequencesSound
<1> QED
  BY <1>8, <1>9 DEF SequencesSound, Behind, M

LEMMA SequencesStep ==
    ASSUME IInv, SequencesSound, [Next]_vars
    PROVE  SequencesSound'
<1> USE DEF readerVars, senderVars, writerVars, bufferVars, MoveReader
<1>1. ASSUME UNCHANGED <<Started, seqOf, sequence>>
      PROVE  SequencesSound'
  BY <1>1 DEF SequencesSound, Behind
<1>2. CASE UNCHANGED <<sender, seqOf, sequence>>
  BY <1>1, <1>2 DEF Started
<1>3. ASSUME NEW a \in Senders, Store(a) \/ Return(a)
      PROVE  SequencesSound'
  <2>1. sender \in [Senders -> {"start", "store", "queueing", "done"}]
    BY DEF IInv, TypeOK
  <2>2. Started' = Started
    BY <1>3, <2>1 DEF Store, Return, Started
  <2> QED
    BY <1>1, <1>3, <2>2 DEF Store, Return
<1>4. ASSUME NEW a \in Senders \union {Reader}, EnqueuePDU(a)
      PROVE  UNCHANGED <<sender, seqOf, sequence>>
  BY <1>4 DEF EnqueuePDU, CheckContext, Offer, TimeOut
<1>5. CASE \E a \in Senders : SendDeliverSM(a)
  BY <1>2, <1>3, <1>4, <1>5, TakeKeepsSequences DEF SendDeliverSM
<1>6. ASSUME Read \/ ReadTimesOut
      PROVE  UNCHANGED <<sender, seqOf, sequence>>
  BY <1>6 DEF Read, ReadRequest, ReadAnswer, ReadFails, ReadTimesOut
<1>7. ASSUME ReaderLoop
      PROVE  UNCHANGED <<sender, seqOf, sequence>>
  BY <1>4, <1>7 DEF ReaderLoop, LoopHead, LimiterRefuses, HandleRequest, AnswerQueued,
     WriteReplaceAnswer, ReaderFlushes, ReaderStopped, FlushWrite
<1>8. ASSUME WriterLoop
      PROVE  UNCHANGED <<sender, seqOf, sequence>>
  BY <1>8 DEF WriterLoop, TakePDU, EndDrain, CheckOpen, DropBatch, Fill, FillDirectly,
     WriterFlushes, WriterExits, FlushWrite
<1>9. ASSUME BeginStop \/ CloseConn \/ FinishStop \/ Finished \/ UNCHANGED vars
      PROVE  UNCHANGED <<sender, seqOf, sequence>>
  BY <1>9 DEF BeginStop, CloseConn, FinishStop, Finished, vars
<1> QED
  BY <1>2, <1>5, <1>6, <1>7, <1>8, <1>9 DEF Next

-----------------------------------------------------------------------------
(* Nothing stands in the row twice. *)

LEMMA RowType == ASSUME IInv PROVE Waiting \in Seq(PDU) /\ wire \in Seq(PDU) /\ Row \in Seq(PDU)
<1>1. queue \in Seq(PDU) /\ batch \in Seq(PDU) /\ wire \in Seq(PDU) /\ Unwritten \in Seq(PDU)
  BY Line
<1>2. Waiting \in Seq(PDU)
  BY <1>1, ConcatProperties DEF Waiting
<1> QED
  BY <1>1, <1>2, ConcatProperties DEF Row

\* A PDU that is settled stays so.
LEMMA SettledKept ==
    ASSUME IInv, [Next]_vars, NEW p, Settled(p)
    PROVE  Settled(p)'
<1> USE DEF readerVars, senderVars, writerVars, bufferVars, MoveReader
<1>0. /\ queueing \in [Senders \union {Reader} -> {"no", "check", "offer"}]
      /\ sender \in [Senders -> {"start", "store", "queueing", "done"}]
      /\ seqOf \in [Senders -> 0 .. MaxSequence] /\ received \in Nat
      /\ Reader \notin Senders
  BY ReaderAssumption, RequestsAssumption DEF IInv, TypeOK
<1>1. CASE \E n \in 1 .. MaxRequests : p = Answer(n) /\ n <= received
               /\ (n = received => reader # "limited" /\ queueing[Reader] = "no")
  <2> PICK n \in 1 .. MaxRequests : p = Answer(n) /\ n <= received
               /\ (n = received => reader # "limited" /\ queueing[Reader] = "no")
    BY <1>1
  <2> DEFINE Calm == reader # "limited" /\ queueing[Reader] = "no"
  <2> SUFFICES received' = received + 1 \/ (received' = received /\ (Calm => Calm'))
    BY <1>0 DEF Settled
  <2>1. ASSUME NEW a \in Senders \union {Reader}, EnqueuePDU(a)
        PROVE  received' = received /\ (Calm => Calm')
    BY <1>0, <2>1 DEF EnqueuePDU, CheckContext, Offer, TimeOut
  <2>2. ASSUME NEW a \in Senders, SendDeliverSM(a)
        PROVE  received' = received /\ (Calm => Calm')
    BY <1>0, <2>1, <2>2 DEF SendDeliverSM, TakeSequence, Store, Return
  <2>3. ASSUME Read \/ ReadTimesOut
        PROVE  received' = received + 1 \/ (received' = received /\ (Calm => Calm'))
    BY <2>3 DEF Read, ReadRequest, ReadAnswer, ReadFails, ReadTimesOut
  <2>4. ASSUME ReaderLoop
        PROVE  received' = received /\ (Calm => Calm')
    BY <2>1, <2>4 DEF ReaderLoop, LoopHead, LimiterRefuses, HandleRequest, AnswerQueued,
       WriteReplaceAnswer, ReaderFlushes, ReaderStopped, FlushWrite
  <2>5. ASSUME WriterLoop
        PROVE  received' = received /\ (Calm => Calm')
    BY <2>5 DEF WriterLoop, TakePDU, EndDrain, CheckOpen, DropBatch, Fill, FillDirectly,
       WriterFlushes, WriterExits, FlushWrite
  <2>6. ASSUME BeginStop \/ CloseConn \/ FinishStop \/ Finished \/ UNCHANGED vars
        PROVE  received' = received /\ (Calm => Calm')
    BY <2>6 DEF BeginStop, CloseConn, FinishStop, Finished, vars
  <2> HIDE DEF Calm
  <2> QED
    BY <2>2, <2>3, <2>4, <2>5, <2>6 DEF Next
<1>2. CASE \E a \in Senders : p = Deliver(seqOf[a]) /\ sender[a] \in {"queueing", "done"} /\ queueing[a] = "no"
  <2> PICK a \in Senders : p = Deliver(seqOf[a]) /\ sender[a] \in {"queueing", "done"} /\ queueing[a] = "no"
    BY <1>2
  <2> DEFINE Kept == seqOf'[a] = seqOf[a] /\ sender'[a] \in {"queueing", "done"} /\ queueing'[a] = "no"
  <2> SUFFICES Kept
    BY DEF Settled
  <2>1. ASSUME NEW b \in Senders \union {Reader}, EnqueuePDU(b)
        PROVE  Kept
    BY <1>0, <2>1 DEF EnqueuePDU, CheckContext, Offer, TimeOut
  <2>2. ASSUME NEW b \in Senders, TakeSequence(b) \/ Store(b) \/ Return(b)
        PROVE  Kept
    BY <1>0, <2>2 DEF TakeSequence, Store, Return
  <2>3. ASSUME Read \/ ReadTimesOut
        PROVE  Kept
    BY <2>3 DEF Read, ReadRequest, ReadAnswer, ReadFails, ReadTimesOut
  <2>4. ASSUME ReaderLoop
        PROVE  Kept
    BY <1>0, <2>1, <2>4 DEF ReaderLoop, LoopHead, LimiterRefuses, HandleRequest, AnswerQueued,
       WriteReplaceAnswer, ReaderFlushes, ReaderStopped, FlushWrite
  <2>5. ASSUME WriterLoop
        PROVE  Kept
    BY <2>5 DEF WriterLoop, TakePDU, EndDrain, CheckOpen, DropBatch, Fill, FillDirectly,
       WriterFlushes, WriterExits, FlushWrite
  <2>6. ASSUME BeginStop \/ CloseConn \/ FinishStop \/ Finished \/ UNCHANGED vars
        PROVE  Kept
    BY <2>6 DEF BeginStop, CloseConn, FinishStop, Finished, vars
  <2> HIDE DEF Kept
  <2> QED
    BY <2>1, <2>2, <2>3, <2>4, <2>5, <2>6 DEF Next, SendDeliverSM
<1> QED
  BY <1>1, <1>2 DEF Settled

\* What is offered is not in the row yet, and is settled afterwards.
LEMMA OfferIsNew ==
    ASSUME IInv, SequencesSound, \A p \in Range(Row) : Settled(p),
           NEW a \in Senders \union {Reader}, Offer(a)
    PROVE  BodyOf(a) \notin Range(Row) /\ Settled(BodyOf(a))'
<1>0. /\ queueing \in [Senders \union {Reader} -> {"no", "check", "offer"}]
      /\ queueing[a] = "offer" /\ queueing' = [queueing EXCEPT ![a] = "no"]
      /\ UNCHANGED <<reader, received, sender, seqOf>>
      /\ Reader \notin Senders
  BY ReaderAssumption DEF IInv, TypeOK, Offer, readerVars, senderVars
<1>1. CASE a = Reader
  <2>1. BodyOf(a) = Answer(received) /\ received \in 1 .. MaxRequests /\ reader = "queueing"
    BY <1>0, <1>1 DEF BodyOf, IInv, ReaderSound
  <2>2. ~Settled(Answer(received))
    <3>1. \A n : Answer(n) = Answer(received) => n = received
      BY DEF Answer
    <3> QED
      BY <1>0, <1>1, <3>1, Bodies DEF Settled
  <2>3. Settled(BodyOf(a))'
    <3>1. BodyOf(a)' = Answer(received)
      BY <1>0, <1>1 DEF BodyOf
    <3>2. reader' = "queueing" /\ queueing'[Reader] = "no" /\ received' = received
      BY <1>0, <1>1, <2>1
    <3>3. received \in 1 .. MaxRequests /\ received <= received
      BY <2>1
    <3> QED
      BY <3>1, <3>2, <3>3 DEF Settled
  <2> QED
    BY <2>1, <2>2, <2>3
<1>2. CASE a \in Senders
  <2>1. BodyOf(a) = Deliver(seqOf[a]) /\ sender[a] = "queueing" /\ BodyOf(a)' = Deliver(seqOf[a])
    BY <1>0, <1>2 DEF BodyOf, IInv, SendersSound
  <2>2. ~Settled(Deliver(seqOf[a]))
    <3>1. SUFFICES ASSUME NEW b \in Senders, Deliver(seqOf[a]) = Deliver(seqOf[b]),
                          sender[b] \in {"queueing", "done"}, queueing[b] = "no"
                   PROVE  FALSE
      BY Bodies DEF Settled
    <3>2. seqOf[a] = seqOf[b] /\ a \in Started /\ b \in Started
      BY <1>2, <2>1, <3>1, Bodies DEF Started
    <3>3. a = b
      BY <3>2 DEF SequencesSound
    <3> QED
      BY <1>0, <3>1, <3>3
  <2>3. Settled(BodyOf(a))'
    <3>1. queueing'[a] = "no" /\ sender'[a] = "queueing" /\ seqOf'[a] = seqOf[a]
      BY <1>0, <2>1
    <3> QED
      BY <1>2, <2>1, <3>1 DEF Settled
  <2> QED
    BY <2>1, <2>2, <2>3
<1> QED
  BY <1>1, <1>2

LEMMA RowStep ==
    ASSUME IInv, SequencesSound, RowSound, "replace" \notin Requests, [Next]_vars
    PROVE  RowSound'
<1>0. Waiting \in Seq(PDU) /\ wire \in Seq(PDU) /\ Row \in Seq(PDU)
  BY RowType
<1>1. ASSUME NEW a \in Senders \union {Reader}, Offer(a)
      PROVE  RowSound'
  <2>1. PICK p \in PDU : p = BodyOf(a) /\ Waiting' = Append(Waiting, p) /\ wire' = wire
    BY <1>1, OfferAccepts
  <2>2. p \notin Range(Row) /\ Settled(p)'
    <3>1. Settled(BodyOf(a))' /\ BodyOf(a)' = BodyOf(a)
      BY <1>1, OfferIsNew DEF RowSound, Offer, BodyOf, readerVars, senderVars
    <3>2. Settled(p)'
      BY <2>1, <3>1 DEF Settled
    <3> QED
      BY <1>1, <2>1, <3>2, OfferIsNew DEF RowSound
  <2>3. Row' = Append(Row, p)
    <3> DEFINE w == Waiting
               x == wire
    <3>1. w \in Seq(PDU) /\ x \in Seq(PDU)
      BY <1>0
    <3>2. Row' = x \o Append(w, p) /\ Row = x \o w
      BY <2>1 DEF Row
    <3> HIDE DEF w, x
    <3>3. <<p>> \in Seq(PDU) /\ x \o w \in Seq(PDU)
      BY <3>1, ConcatProperties
    <3>4. /\ Append(w, p) = w \o <<p>>
          /\ Append(x \o w, p) = (x \o w) \o <<p>>
          /\ (x \o w) \o <<p>> = x \o (w \o <<p>>)
      BY <3>1, <3>3, AppendIsConcat, ConcatAssociative
    <3> QED
      BY <3>2, <3>4
  <2>4. Distinct(Row')
    BY <1>0, <2>2, <2>3, DistinctAppend DEF RowSound
  <2>5. Range(Row') \subseteq Range(Row) \union {p}
    BY <1>0, <2>3, AppendRange
  <2>6. \A q \in Range(Row) : Settled(q)'
    BY SettledKept DEF RowSound
  <2> QED
    BY <2>2, <2>4, <2>5, <2>6 DEF RowSound, Distinct
<1>2. CASE \A a \in Senders \union {Reader} : ~Offer(a)
  <2>1. Distinct(Row') /\ Range(Row') \subseteq Range(Row)
    <3>1. CASE UNCHANGED <<Waiting, wire>>
      BY <3>1 DEF RowSound, Row
    <3>2. CASE Out!Depart
      <4>0. PICK l \in 1 .. Len(Waiting) : \E k \in 0 .. l :
               /\ wire' = wire \o SubSeq(Waiting, 1, k)
               /\ Waiting' = SubSeq(Waiting, l + 1, Len(Waiting))
        BY <3>2 DEF Out!Depart
      <4>1. PICK k \in 0 .. l :
               /\ wire' = wire \o SubSeq(Waiting, 1, k)
               /\ Waiting' = SubSeq(Waiting, l + 1, Len(Waiting))
        BY <4>0
      <4>2. Row' = (wire \o SubSeq(Waiting, 1, k)) \o SubSeq(Waiting, l + 1, Len(Waiting))
        BY <4>1 DEF Row
      <4>3. Distinct(wire \o Waiting)
        BY DEF RowSound, Row
      <4> QED
        BY <1>0, <4>2, <4>3, Thinned, Zenon DEF Row
    <3> QED
      BY <1>2, <3>1, <3>2, OthersDepart
  <2>2. \A q \in Range(Row) : Settled(q)'
    BY SettledKept DEF RowSound
  <2> QED
    BY <2>1, <2>2 DEF RowSound, Distinct
<1> QED
  BY <1>1, <1>2

\* Batches, short writes, write errors and Stop never put a PDU on the wire twice:
\* only sendReplaceSMResponse does, as the run session_link_replace shows.
THEOREM OnceWithoutReplace ==
    ASSUME "replace" \notin Requests
    PROVE  Spec => []WrittenOnce
<1>1. Init => SequencesSound /\ RowSound
  <2> SUFFICES ASSUME Init PROVE SequencesSound /\ RowSound
    OBVIOUS
  <2>1. Started = {}
    BY DEF Init, Started
  <2>2. Row = <<>>
    BY EmptySeq, ConcatEmptySeq DEF Init, Row, Waiting, Unwritten
  <2>3. Distinct(<<>>)
    BY DEF Distinct
  <2> QED
    BY <2>1, <2>2, <2>3, EmptyRange DEF SequencesSound, RowSound
<1>2. IInv /\ SequencesSound /\ RowSound /\ [Next]_vars => SequencesSound' /\ RowSound'
  BY SequencesStep, RowStep
<1>3. IInv /\ RowSound => WrittenOnce
  <2> SUFFICES ASSUME IInv, RowSound, NEW i \in DOMAIN wire, NEW j \in DOMAIN wire, wire[i] = wire[j]
               PROVE  i = j
    BY DEF WrittenOnce
  <2>1. Waiting \in Seq(PDU) /\ wire \in Seq(PDU) /\ Row \in Seq(PDU) /\ Row = wire \o Waiting
    BY RowType DEF Row
  <2>2. Joins(wire, Waiting, Row)
    BY <2>1, Joined
  <2>3. Len(wire) \in Nat /\ Len(Waiting) \in Nat /\ DOMAIN wire = 1 .. Len(wire) /\ DOMAIN Row = 1 .. Len(Row)
    BY <2>1, LenProperties
  <2>4. /\ i \in DOMAIN Row /\ j \in DOMAIN Row
        /\ Row[i] = wire[i] /\ Row[j] = wire[j]
    BY <2>2, <2>3 DEF Joins
  <2> QED
    BY <2>4 DEF RowSound, Distinct
<1> QED
  BY Invariance, <1>1, <1>2, <1>3, PTL DEF Spec

=============================================================================
