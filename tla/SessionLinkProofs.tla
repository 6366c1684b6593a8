------------------------- MODULE SessionLinkProofs -------------------------
(* Proofs about SessionLink, for every value of its constants. *)
EXTENDS SessionLink, SequenceTheorems, TLAPS

-----------------------------------------------------------------------------
(* What the operations on sequences bring into a sequence. *)

LEMMA AppendRange ==
    ASSUME NEW S, NEW s \in Seq(S), NEW e \in S
    PROVE  Append(s, e) \in Seq(S) /\ Range(Append(s, e)) = Range(s) \union {e}
<1>1. /\ Append(s, e) \in Seq(S)
      /\ Len(Append(s, e)) = Len(s) + 1
      /\ \A i \in 1 .. Len(s) : Append(s, e)[i] = s[i]
      /\ Append(s, e)[Len(s) + 1] = e
  BY AppendProperties
<1>2. Len(s) \in Nat
  BY LenProperties
<1>3. /\ Range(s) = {s[i] : i \in 1 .. Len(s)}
      /\ Range(Append(s, e)) = {Append(s, e)[i] : i \in 1 .. Len(s) + 1}
  BY <1>1, RangeEquality
<1> QED
  BY <1>1, <1>2, <1>3

LEMMA SubSeqRange ==
    ASSUME NEW S, NEW s \in Seq(S), NEW m \in Nat \ {0}, NEW n \in Int, n <= Len(s)
    PROVE  SubSeq(s, m, n) \in Seq(S) /\ Range(SubSeq(s, m, n)) \subseteq Range(s)
<1>1. Len(s) \in Nat /\ \A i \in 1 .. Len(s) : s[i] \in S
  BY LenProperties, ElementOfSeq
<1>2. \A i \in m .. n : s[i] \in S
  BY <1>1
<1>3. /\ SubSeq(s, m, n) \in Seq(S)
      /\ Len(SubSeq(s, m, n)) = IF m <= n THEN n - m + 1 ELSE 0
      /\ \A i \in 1 .. n - m + 1 : SubSeq(s, m, n)[i] = s[m + i - 1]
  BY <1>2, SubSeqProperties
<1>4. /\ Range(s) = {s[i] : i \in 1 .. Len(s)}
      /\ Range(SubSeq(s, m, n)) = {SubSeq(s, m, n)[i] : i \in 1 .. Len(SubSeq(s, m, n))}
  BY <1>3, RangeEquality
<1>5. ASSUME NEW i \in 1 .. Len(SubSeq(s, m, n))
      PROVE  SubSeq(s, m, n)[i] \in Range(s)
  <2>1. m + i - 1 \in 1 .. Len(s) /\ SubSeq(s, m, n)[i] = s[m + i - 1]
    BY <1>1, <1>3, <1>5
  <2> QED
    BY <1>4, <2>1
<1> QED
  BY <1>3, <1>4, <1>5

LEMMA HeadTailRange ==
    ASSUME NEW S, NEW s \in Seq(S), s # <<>>
    PROVE  /\ Head(s) \in S /\ Head(s) \in Range(s)
           /\ Tail(s) \in Seq(S) /\ Range(Tail(s)) \subseteq Range(s)
           /\ Len(Tail(s)) = Len(s) - 1
<1>1. /\ Head(s) \in S /\ Tail(s) \in Seq(S)
      /\ Len(Tail(s)) = Len(s) - 1 /\ Tail(s) = SubSeq(s, 2, Len(s))
  BY HeadTailProperties, TailIsSubSeq
<1>2. Len(s) \in Nat \ {0} /\ Range(s) = {s[i] : i \in 1 .. Len(s)}
  BY EmptySeq, RangeEquality
<1>3. Head(s) = s[1] /\ 1 \in 1 .. Len(s)
  BY <1>2
<1>4. Range(Tail(s)) \subseteq Range(s)
  <2>1. 2 \in Nat \ {0} /\ Len(s) \in Int /\ Len(s) <= Len(s)
    BY <1>2
  <2>2. Range(SubSeq(s, 2, Len(s))) \subseteq Range(s)
    BY <2>1, SubSeqRange
  <2> QED
    BY <1>1, <2>2
<1> QED
  BY <1>1, <1>2, <1>3, <1>4

LEMMA EmptyRange == Range(<<>>) = {}
BY DEF Range

-----------------------------------------------------------------------------
(* PDUs. *)

LEMMA Bodies ==
    /\ \A n \in 1 .. MaxRequests : Answer(n) \in PDU
    /\ \A q \in 1 .. MaxSequence : Deliver(q) \in PDU
    /\ \A q, n : Deliver(q) # Answer(n)
    /\ \A q, r : Deliver(q) = Deliver(r) => q = r
BY DEF PDU, Answer, Deliver

\* What is queued is a PDU: an answer to a request at hand, or a deliver_sm with the
\* sequence number its sender has taken.
LEMMA BodyType ==
    ASSUME TypeOK, ReaderSound, SendersSound,
           NEW a \in Senders \union {Reader}, queueing[a] # "no"
    PROVE  /\ BodyOf(a) \in PDU
           /\ \A q : BodyOf(a) = Deliver(q) => a \in Senders /\ seqOf[a] = q
<1>1. CASE a = Reader
  <2>1. received \in 1 .. MaxRequests
    BY <1>1 DEF ReaderSound
  <2> QED
    BY <1>1, <2>1, Bodies DEF BodyOf
<1>2. CASE a # Reader
  <2>1. a \in Senders /\ seqOf[a] \in 1 .. MaxSequence
    BY <1>2 DEF SendersSound
  <2> QED
    BY <1>2, <2>1, Bodies DEF BodyOf
<1> QED
  BY <1>1, <1>2

-----------------------------------------------------------------------------
(* The local facts about reader, senders, writer and flushes. *)

Sound == ReaderSound /\ SendersSound /\ BatchSound /\ FlushesSound

LEMMA SoundStep ==
    ASSUME TypeOK, Sound, Next
    PROVE  Sound'
<1> USE DEF Sound, TypeOK, ReaderSound, SendersSound, BatchSound, FlushesSound, Reader,
            readerVars, senderVars, writerVars, bufferVars
<1>1. ASSUME NEW a \in Senders, SendDeliverSM(a) PROVE Sound'
  <2>1. CASE TakeSequence(a)
    <3>1. NextSequence(sequence) \in 1 .. MaxSequence
      BY SequenceAssumption DEF NextSequence
    <3> QED
      BY <2>1, <3>1 DEF TakeSequence
  <2>2. CASE Store(a)
    BY <2>2, ReaderAssumption DEF Store
  <2>3. CASE CheckContext(a)
    BY <2>3, ReaderAssumption DEF CheckContext
  <2>4. CASE Offer(a)
    BY <2>4, ReaderAssumption DEF Offer
  <2>5. CASE TimeOut(a)
    BY <2>5, ReaderAssumption DEF TimeOut
  <2>6. CASE Return(a)
    BY <2>6 DEF Return
  <2> QED
    BY <1>1, <2>1, <2>2, <2>3, <2>4, <2>5, <2>6 DEF SendDeliverSM, EnqueuePDU
<1>2. CASE Read \/ ReadTimesOut
  <2>1. ASSUME NEW k \in Requests, ReadRequest(k) PROVE Sound'
    BY <2>1, RequestsAssumption DEF ReadRequest
  <2>2. ASSUME NEW q \in 1 .. MaxSequence, ReadAnswer(q) PROVE Sound'
    BY <2>2 DEF ReadAnswer
  <2>3. CASE ReadFails \/ ReadTimesOut
    BY <2>3 DEF ReadFails, ReadTimesOut, MoveReader
  <2> QED
    BY <1>2, <2>1, <2>2, <2>3 DEF Read
<1>3. CASE ReaderLoop
  <2>1. CASE LoopHead \/ LimiterRefuses \/ AnswerQueued \/ ReaderStopped
    BY <2>1 DEF LoopHead, LimiterRefuses, AnswerQueued, ReaderStopped, MoveReader
  <2>2. CASE HandleRequest
    BY <2>2, ReaderAssumption DEF HandleRequest
  <2>3. CASE CheckContext(Reader)
    BY <2>3, ReaderAssumption DEF CheckContext
  <2>4. CASE Offer(Reader)
    BY <2>4, ReaderAssumption DEF Offer
  <2>5. CASE TimeOut(Reader)
    BY <2>5, ReaderAssumption DEF TimeOut
  <2>6. CASE WriteReplaceAnswer
    BY <2>6 DEF WriteReplaceAnswer
  <2>7. CASE ReaderFlushes
    <3>1. Len(buffer) \in Nat
      BY LenProperties
    <3>2. CASE FlushWrite("reader")
      BY <2>7, <3>1, <3>2 DEF ReaderFlushes, FlushWrite
    <3>3. CASE FlushReset("reader") /\ reader' = "head" /\ ~FlushWrite("reader")
      BY <2>7, <3>3 DEF ReaderFlushes, FlushReset, NothingToFlush, MoveReader
    <3>4. CASE NothingToFlush("reader") /\ MoveReader("head")
      BY <2>7, <3>4 DEF ReaderFlushes, NothingToFlush, MoveReader
    <3> QED
      BY <2>7, <3>2, <3>3, <3>4 DEF ReaderFlushes
  <2> QED
    BY <1>3, <2>1, <2>2, <2>3, <2>4, <2>5, <2>6, <2>7 DEF ReaderLoop, EnqueuePDU
<1>4. CASE WriterLoop
  <2>1. CASE TakePDU \/ EndDrain \/ CheckOpen \/ DropBatch \/ WriterExits
    BY <2>1 DEF TakePDU, EndDrain, CheckOpen, DropBatch, WriterExits
  <2>2. CASE Fill
    BY <2>2 DEF Fill
  <2>3. CASE FillDirectly
    BY <2>3 DEF FillDirectly
  <2>4. CASE WriterFlushes
    <3>1. Len(buffer) \in Nat
      BY LenProperties
    <3>2. CASE FlushWrite("writer")
      BY <2>4, <3>1, <3>2 DEF WriterFlushes, FlushWrite
    <3>3. CASE FlushReset("writer") /\ ~FlushWrite("writer")
      BY <2>4, <3>3 DEF WriterFlushes, FlushReset, NothingToFlush
    <3>4. CASE NothingToFlush("writer") /\ ~FlushWrite("writer")
      BY <2>4, <3>4 DEF WriterFlushes, FlushReset, NothingToFlush
    <3> QED
      BY <2>4, <3>2, <3>3, <3>4 DEF WriterFlushes
  <2> QED
    BY <1>4, <2>1, <2>2, <2>3, <2>4 DEF WriterLoop
<1>5. CASE BeginStop \/ CloseConn \/ FinishStop \/ Finished
  BY <1>5 DEF BeginStop, CloseConn, FinishStop, Finished, vars
<1> QED
  BY <1>1, <1>2, <1>3, <1>4, <1>5 DEF Next

-----------------------------------------------------------------------------
(* Types. *)

\* What a flush writes, and what it leaves in the buffer, are PDUs of the buffer.
LEMMA FlushTypes ==
    ASSUME TypeOK, FlushesSound, NEW a \in {"reader", "writer"}
    PROVE  /\ FlushWrite(a) =>
                 /\ wire' \in Seq(PDU)
                 /\ Range(wire') \subseteq Range(wire) \union Range(buffer)
                 /\ flushed' \in [{"reader", "writer"} -> [n : Int, ok : BOOLEAN]]
           /\ FlushReset(a) =>
                 /\ buffer' \in Seq(PDU) /\ Range(buffer') \subseteq Range(buffer)
                 /\ broken' \in BOOLEAN /\ (~broken' => buffer' = <<>>)
                 /\ flushed' \in [{"reader", "writer"} -> [n : Int, ok : BOOLEAN]]
<1>1. /\ buffer \in Seq(PDU) /\ wire \in Seq(PDU) /\ Len(buffer) \in Nat
      /\ broken \in BOOLEAN
      /\ flushed \in [{"reader", "writer"} -> [n : Int, ok : BOOLEAN]]
  BY LenProperties DEF TypeOK
<1>2. ASSUME FlushWrite(a)
      PROVE  /\ wire' \in Seq(PDU)
             /\ Range(wire') \subseteq Range(wire) \union Range(buffer)
             /\ flushed' \in [{"reader", "writer"} -> [n : Int, ok : BOOLEAN]]
  <2>1. CASE /\ wire' = wire \o buffer
             /\ flushed' = [flushed EXCEPT ![a] = [n |-> Len(buffer), ok |-> TRUE]]
    BY <1>1, <2>1, ConcatProperties, RangeConcatenation
  <2>2. ASSUME NEW n \in 0 .. Len(buffer) - 1,
               wire' = wire \o SubSeq(buffer, 1, n),
               flushed' = [flushed EXCEPT ![a] = [n |-> n, ok |-> FALSE]]
        PROVE  /\ wire' \in Seq(PDU)
               /\ Range(wire') \subseteq Range(wire) \union Range(buffer)
               /\ flushed' \in [{"reader", "writer"} -> [n : Int, ok : BOOLEAN]]
    <3>1. /\ SubSeq(buffer, 1, n) \in Seq(PDU)
          /\ Range(SubSeq(buffer, 1, n)) \subseteq Range(buffer)
      <4>1. 1 \in Nat \ {0} /\ n \in Int /\ n <= Len(buffer)
        BY <1>1
      <4> QED
        BY <1>1, <4>1, SubSeqRange
    <3>2. /\ wire' \in Seq(PDU)
          /\ Range(wire') = Range(wire) \union Range(SubSeq(buffer, 1, n))
      <4> DEFINE part == SubSeq(buffer, 1, n)
      <4>1. part \in Seq(PDU) /\ wire' = wire \o part
        BY <2>2, <3>1
      <4> HIDE DEF part
      <4>2. wire \o part \in Seq(PDU) /\ Range(wire \o part) = Range(wire) \union Range(part)
        BY <1>1, <4>1, ConcatProperties, RangeConcatenation
      <4>3. wire' \in Seq(PDU) /\ Range(wire') = Range(wire) \union Range(part)
        BY <4>1, <4>2
      <4> QED
        BY <4>3 DEF part
    <3>3. flushed' \in [{"reader", "writer"} -> [n : Int, ok : BOOLEAN]]
      BY <1>1, <2>2
    <3> QED
      BY <3>1, <3>2, <3>3
  <2> QED
    BY <1>2, <2>1, <2>2 DEF FlushWrite
<1>3. ASSUME FlushReset(a)
      PROVE  /\ buffer' \in Seq(PDU) /\ Range(buffer') \subseteq Range(buffer)
             /\ broken' \in BOOLEAN /\ (~broken' => buffer' = <<>>)
             /\ flushed' \in [{"reader", "writer"} -> [n : Int, ok : BOOLEAN]]
  <2>1. flushed[a].n \in Nat /\ flushed[a].ok \in BOOLEAN
    BY <1>1, <1>3 DEF FlushReset, FlushesSound
  <2>2. flushed' \in [{"reader", "writer"} -> [n : Int, ok : BOOLEAN]]
    BY <1>1, <1>3 DEF FlushReset, NoFlush
  <2>3. CASE ShortWrite(flushed[a])
    <3>1. flushed[a].n + 1 \in Nat \ {0} /\ Len(buffer) \in Int /\ Len(buffer) <= Len(buffer)
      BY <1>1, <2>1
    <3>2. /\ SubSeq(buffer, flushed[a].n + 1, Len(buffer)) \in Seq(PDU)
          /\ Range(SubSeq(buffer, flushed[a].n + 1, Len(buffer))) \subseteq Range(buffer)
      BY <1>1, <3>1, SubSeqRange
    <3>3. broken' = TRUE /\ buffer' = SubSeq(buffer, flushed[a].n + 1, Len(buffer))
      BY <1>3, <2>3 DEF FlushReset
    <3> QED
      BY <2>2, <3>2, <3>3
  <2>4. CASE ~ShortWrite(flushed[a])
    <3>1. broken' = broken /\ buffer' = <<>>
      BY <1>1, <1>3, <2>4, Zenon DEF FlushReset
    <3> QED
      BY <1>1, <2>2, <3>1, EmptySeq, EmptyRange
  <2> QED
    BY <2>3, <2>4
<1> QED
  BY <1>2, <1>3

LEMMA EnqueueTypes ==
    ASSUME TypeOK, ReaderSound, SendersSound,
           NEW a \in Senders \union {Reader}, EnqueuePDU(a)
    PROVE  TypeOK'
<1> USE DEF TypeOK, readerVars, senderVars, writerVars, bufferVars
<1>1. CASE CheckContext(a)
  BY <1>1 DEF CheckContext
<1>2. CASE Offer(a)
  <2>1. BodyOf(a) \in PDU
    BY <1>2, BodyType DEF Offer
  <2>2. /\ Append(queue, BodyOf(a)) \in Seq(PDU)
        /\ Len(Append(queue, BodyOf(a))) = Len(queue) + 1 /\ Len(queue) \in Nat
    BY <2>1, AppendProperties, LenProperties
  <2> QED
    BY <1>2, <2>2, QueueAssumption DEF Offer
<1>3. CASE TimeOut(a)
  BY <1>3 DEF TimeOut
<1> QED
  BY <1>1, <1>2, <1>3 DEF EnqueuePDU

LEMMA FillTypes ==
    ASSUME TypeOK, FillDirectly
    PROVE  TypeOK' /\ Range(wire') \subseteq Range(wire) \union Range(batch)
<1> USE DEF TypeOK, readerVars, senderVars, writerVars, bufferVars
<1>1. ASSUME NEW part \in Seq(PDU), Range(part) \subseteq Range(batch),
             wire' = wire \o part
      PROVE  wire' \in Seq(PDU) /\ Range(wire') \subseteq Range(wire) \union Range(batch)
  <2>1. wire \o part \in Seq(PDU) /\ Range(wire \o part) = Range(wire) \union Range(part)
    BY ConcatProperties, RangeConcatenation
  <2> QED
    BY <1>1, <2>1
<1>2. ASSUME NEW n \in 0 .. Len(batch) - 1
      PROVE  /\ SubSeq(batch, 1, n) \in Seq(PDU)
             /\ Range(SubSeq(batch, 1, n)) \subseteq Range(batch)
  <2>1. 1 \in Nat \ {0} /\ n \in Int /\ n <= Len(batch)
    BY LenProperties
  <2> QED
    BY <2>1, SubSeqRange
<1>3. wire' \in Seq(PDU) /\ Range(wire') \subseteq Range(wire) \union Range(batch)
  <2>1. CASE wire' = wire \o batch
    BY <2>1, <1>1
  <2>2. CASE \E n \in 0 .. Len(batch) - 1 : wire' = wire \o SubSeq(batch, 1, n)
    BY <2>2, <1>1, <1>2
  <2> QED
    BY <2>1, <2>2 DEF FillDirectly
<1>4. broken' \in BOOLEAN /\ batch' = <<>> /\ Len(batch') = 0 /\ batch' \in Seq(PDU)
  BY EmptySeq DEF FillDirectly
<1> QED
  BY <1>3, <1>4, QueueAssumption DEF FillDirectly

LEMMA TypeStep ==
    ASSUME TypeOK, Sound, Next
    PROVE  TypeOK'
<1>0. ReaderSound /\ SendersSound /\ BatchSound /\ FlushesSound
  BY DEF Sound
<1> USE DEF TypeOK, readerVars, senderVars, writerVars, bufferVars
<1>1. ASSUME NEW a \in Senders, SendDeliverSM(a) PROVE TypeOK'
  <2>1. CASE TakeSequence(a)
    <3>1. NextSequence(sequence) \in 0 .. MaxSequence
      BY SequenceAssumption DEF NextSequence
    <3> QED
      BY <2>1, <3>1 DEF TakeSequence
  <2>2. CASE Store(a)
    <3>1. seqOf[a] \in 1 .. MaxSequence
      BY <1>0, <2>2 DEF Store, SendersSound
    <3> QED
      BY <2>2, <3>1 DEF Store, Stored
  <2>3. CASE EnqueuePDU(a)
    BY <1>0, <2>3, EnqueueTypes
  <2>4. CASE Return(a)
    BY <2>4 DEF Return
  <2> QED
    BY <1>1, <2>1, <2>2, <2>3, <2>4 DEF SendDeliverSM
<1>2. CASE Read \/ ReadTimesOut
  <2>1. ASSUME NEW k \in Requests, ReadRequest(k) PROVE TypeOK'
    BY <2>1, RequestsAssumption DEF ReadRequest
  <2>2. ASSUME NEW q \in 1 .. MaxSequence, ReadAnswer(q) PROVE TypeOK'
    BY <2>2 DEF ReadAnswer
  <2>3. CASE ReadFails \/ ReadTimesOut
    BY <2>3 DEF ReadFails, ReadTimesOut, MoveReader
  <2> QED
    BY <1>2, <2>1, <2>2, <2>3 DEF Read
<1>3. CASE ReaderLoop
  <2>1. CASE LoopHead \/ LimiterRefuses \/ AnswerQueued \/ ReaderStopped
    BY <2>1 DEF LoopHead, LimiterRefuses, AnswerQueued, ReaderStopped, MoveReader
  <2>2. CASE HandleRequest
    BY <2>2 DEF HandleRequest
  <2>3. CASE EnqueuePDU(Reader)
    BY <1>0, <2>3, EnqueueTypes
  <2>4. CASE WriteReplaceAnswer
    <3>1. Answer(received) \in PDU
      BY <1>0, <2>4, Bodies DEF WriteReplaceAnswer, ReaderSound
    <3>2. Append(wire, Answer(received)) \in Seq(PDU)
      BY <3>1, AppendProperties
    <3>3. wire' \in Seq(PDU)
      BY <2>4, <3>2 DEF WriteReplaceAnswer
    <3> QED
      BY <2>4, <3>3 DEF WriteReplaceAnswer
  <2>5. CASE ReaderFlushes
    <3>1. reader = "flushing" /\ "replace" \in Requests
      BY <1>0, <2>5 DEF ReaderFlushes, ReaderSound
    <3>2. CASE FlushWrite("reader")
      BY <1>0, <3>2, FlushTypes, <3>1 DEF FlushWrite
    <3>3. CASE /\ FlushReset("reader") /\ reader' = "head"
               /\ UNCHANGED <<request, received, queueing, senderVars, pending, queue,
                              writerVars, wire, stop, answered>>
      BY <1>0, <3>3, FlushTypes, <3>1
    <3>4. CASE NothingToFlush("reader") /\ MoveReader("head")
      BY <3>4 DEF MoveReader
    <3> QED
      BY <2>5, <3>2, <3>3, <3>4 DEF ReaderFlushes
  <2> QED
    BY <1>3, <2>1, <2>2, <2>3, <2>4, <2>5 DEF ReaderLoop
<1>4. CASE WriterLoop
  <2>1. CASE TakePDU
    <3>1. /\ Head(queue) \in PDU /\ Tail(queue) \in Seq(PDU)
          /\ Len(Tail(queue)) = Len(queue) - 1 /\ Len(queue) \in Nat
      BY <2>1, HeadTailRange, LenProperties DEF TakePDU
    <3>2. Taken \in Seq(PDU) /\ Len(Taken) = Len(batch) + 1
      BY <3>1, AppendProperties DEF Taken
    <3>3. Len(batch) \in Nat /\ Len(batch) < BatchMax
      BY <1>0, <2>1, LenProperties, EmptySeq, QueueAssumption
         DEF TakePDU, RoomInBatch, BatchSound
    <3>4. queue' \in Seq(PDU) /\ Len(queue') <= Window
      BY <2>1, <3>1, QueueAssumption DEF TakePDU
    <3>5. batch' \in Seq(PDU) /\ Len(batch') <= BatchMax
      BY <2>1, <3>2, <3>3, QueueAssumption DEF TakePDU
    <3> QED
      BY <2>1, <3>4, <3>5 DEF TakePDU
  <2>2. CASE EndDrain \/ CheckOpen \/ WriterExits
    BY <2>2 DEF EndDrain, CheckOpen, WriterExits
  <2>3. CASE DropBatch
    BY <2>3, EmptySeq, QueueAssumption DEF DropBatch
  <2>4. CASE Fill
    <3>1. buffer \o batch \in Seq(PDU)
      BY ConcatProperties
    <3> QED
      BY <2>4, <3>1, EmptySeq, QueueAssumption DEF Fill
  <2>5. CASE FillDirectly
    BY <1>0, <2>5, FillTypes
  <2>6. CASE WriterFlushes
    <3>1. CASE FlushWrite("writer")
      BY <1>0, <2>6, <3>1, FlushTypes DEF FlushWrite, WriterFlushes
    <3>2. CASE /\ FlushReset("writer") /\ writer' = "wait"
               /\ UNCHANGED <<readerVars, queueing, senderVars, pending, queue, batch, wire,
                              stop, answered>>
      BY <1>0, <3>2, FlushTypes
    <3>3. CASE /\ NothingToFlush("writer") /\ writer' = "wait"
               /\ UNCHANGED <<readerVars, queueing, senderVars, pending, queue, batch,
                              bufferVars, stop, answered>>
      BY <3>3 DEF NothingToFlush
    <3> QED
      BY <2>6, <3>1, <3>2, <3>3 DEF WriterFlushes
  <2> QED
    BY <1>4, <2>1, <2>2, <2>3, <2>4, <2>5, <2>6 DEF WriterLoop
<1>5. CASE BeginStop \/ CloseConn \/ FinishStop \/ Finished
  BY <1>5 DEF BeginStop, CloseConn, FinishStop, Finished, vars
<1> QED
  BY <1>1, <1>2, <1>3, <1>4, <1>5 DEF Next

-----------------------------------------------------------------------------
(* The entries. *)

\* A step that puts no deliver_sm in flight, takes no entry away but one that is
\* answered, and does not undo Stop keeps EntriesMade.
LEMMA EntriesKept ==
    ASSUME EntriesMade,
           stop = "done" => stop' = "done",
           answered \subseteq answered',
           \A q \in (1 .. MaxSequence) \ answered' :
               /\ InFlight(q)' => InFlight(q)
               /\ stop' # "done" /\ q \in pending => q \in pending'
    PROVE  EntriesMade'
BY DEF EntriesMade

\* Steps that leave the senders alone, and move PDUs between the four places.
LEMMA MovesKeep ==
    ASSUME EntriesMade, UNCHANGED <<queueing, seqOf, pending, stop, answered>>,
           \A q \in 1 .. MaxSequence : Deliver(q) \in Path' => Deliver(q) \in Path
    PROVE  EntriesMade'
<1>1. \A q \in (1 .. MaxSequence) \ answered' : InFlight(q)' => InFlight(q)
  BY DEF InFlight
<1> QED
  BY <1>1, EntriesKept

LEMMA EntriesStep ==
    ASSUME TypeOK, Sound, EntriesMade, Next
    PROVE  EntriesMade'
<1>0. ReaderSound /\ SendersSound /\ BatchSound /\ FlushesSound
  BY DEF Sound
<1> USE DEF readerVars, senderVars, writerVars, bufferVars
<1>1. ASSUME NEW a \in Senders \union {Reader}, EnqueuePDU(a) PROVE EntriesMade'
  <2>1. CASE CheckContext(a) \/ TimeOut(a)
    <3>1. \A b \in Senders : queueing'[b] # "no" => queueing[b] # "no"
      BY <2>1 DEF CheckContext, TimeOut, TypeOK
    <3>2. \A q \in 1 .. MaxSequence : InFlight(q)' => InFlight(q)
      BY <2>1, <3>1 DEF CheckContext, TimeOut, InFlight, Path
    <3> QED
      BY <2>1, <3>2, EntriesKept DEF CheckContext, TimeOut
  <2>2. CASE Offer(a)
    <3>1. queueing[a] # "no" /\ queue' = Append(queue, BodyOf(a))
      BY <2>2 DEF Offer
    <3>2. /\ BodyOf(a) \in PDU
          /\ \A q : BodyOf(a) = Deliver(q) => a \in Senders /\ seqOf[a] = q
      BY <1>0, <3>1, BodyType
    <3>3. Range(queue') = Range(queue) \union {BodyOf(a)}
      BY <3>1, <3>2, AppendRange DEF TypeOK
    <3>4. \A b \in Senders : queueing'[b] # "no" => queueing[b] # "no"
      BY <2>2 DEF Offer, TypeOK
    <3>5. \A q : Deliver(q) \in Path'
                 => Deliver(q) \in Path \/ (a \in Senders /\ seqOf[a] = q)
      BY <2>2, <3>2, <3>3 DEF Offer, Path
    <3>6. \A q \in 1 .. MaxSequence : InFlight(q)' => InFlight(q)
      BY <2>2, <3>1, <3>4, <3>5 DEF Offer, InFlight
    <3> QED
      BY <2>2, <3>6, EntriesKept DEF Offer
  <2> QED
    BY <1>1, <2>1, <2>2 DEF EnqueuePDU
<1>2. ASSUME NEW a \in Senders, SendDeliverSM(a) PROVE EntriesMade'
  <2>1. CASE TakeSequence(a)
    <3>1. queueing[a] = "no"
      BY <1>0, <2>1 DEF TakeSequence, SendersSound
    <3>2. \A b \in Senders : b # a => seqOf'[b] = seqOf[b]
      BY <2>1 DEF TakeSequence, TypeOK
    <3>3. \A q \in 1 .. MaxSequence : InFlight(q)' => InFlight(q)
      BY <2>1, <3>1, <3>2 DEF TakeSequence, InFlight, Path
    <3> QED
      BY <2>1, <3>3, EntriesKept DEF TakeSequence
  <2>2. CASE Store(a)
    <3>1. pending' = pending \union {seqOf[a]}
      BY <2>2 DEF Store, Stored
    <3>2. \A b \in Senders : b # a => queueing'[b] = queueing[b]
      BY <2>2 DEF Store, TypeOK
    <3>3. \A q \in 1 .. MaxSequence : InFlight(q)' => InFlight(q) \/ q = seqOf[a]
      BY <2>2, <3>2 DEF Store, InFlight, Path
    <3> QED
      BY <2>2, <3>1, <3>3 DEF Store, EntriesMade
  <2>3. CASE Return(a)
    <3>1. \A q \in 1 .. MaxSequence : Deliver(q) \in Path' => Deliver(q) \in Path
      BY <2>3 DEF Return, Path
    <3> QED
      BY <2>3, <3>1, MovesKeep DEF Return
  <2> QED
    BY <1>1, <1>2, <2>1, <2>2, <2>3 DEF SendDeliverSM
<1>3. CASE Read \/ ReadTimesOut
  <2>1. ASSUME NEW q \in 1 .. MaxSequence, ReadAnswer(q) PROVE EntriesMade'
    <3>1. \A r \in 1 .. MaxSequence : InFlight(r)' => InFlight(r)
      BY <2>1 DEF ReadAnswer, InFlight, Path
    <3> QED
      BY <2>1, <3>1, EntriesKept DEF ReadAnswer
  <2>2. CASE \/ \E k \in Requests : ReadRequest(k)
             \/ ReadFails \/ ReadTimesOut
    <3>1. \A q \in 1 .. MaxSequence : Deliver(q) \in Path' => Deliver(q) \in Path
      BY <2>2 DEF ReadRequest, ReadFails, ReadTimesOut, MoveReader, Path
    <3> QED
      BY <2>2, <3>1, MovesKeep DEF ReadRequest, ReadFails, ReadTimesOut, MoveReader
  <2> QED
    BY <1>3, <2>1, <2>2 DEF Read
<1>4. CASE ReaderLoop
  <2>1. CASE LoopHead \/ LimiterRefuses \/ AnswerQueued \/ ReaderStopped
    <3>1. \A q \in 1 .. MaxSequence : Deliver(q) \in Path' => Deliver(q) \in Path
      BY <2>1 DEF LoopHead, LimiterRefuses, AnswerQueued, ReaderStopped, MoveReader, Path
    <3> QED
      BY <2>1, <3>1, MovesKeep
         DEF LoopHead, LimiterRefuses, AnswerQueued, ReaderStopped, MoveReader
  <2>2. CASE HandleRequest
    <3>1. \A b \in Senders : queueing'[b] = queueing[b]
      BY <2>2, ReaderAssumption DEF HandleRequest, TypeOK
    <3>2. \A q \in 1 .. MaxSequence : InFlight(q)' => InFlight(q)
      BY <2>2, <3>1 DEF HandleRequest, InFlight, Path
    <3> QED
      BY <2>2, <3>2, EntriesKept DEF HandleRequest
  <2>3. CASE WriteReplaceAnswer
    <3>1. Answer(received) \in PDU
      BY <1>0, <2>3, Bodies DEF WriteReplaceAnswer, ReaderSound
    <3>2. Range(Append(wire, Answer(received))) = Range(wire) \union {Answer(received)}
      BY <3>1, AppendRange DEF TypeOK
    <3>3. Path' \subseteq Path \union {Answer(received)}
      BY <2>3, <3>2 DEF WriteReplaceAnswer, Path
    <3>4. \A q \in 1 .. MaxSequence : Deliver(q) # Answer(received)
      BY Bodies
    <3>5. \A q \in 1 .. MaxSequence : Deliver(q) \in Path' => Deliver(q) \in Path
      BY <3>3, <3>4
    <3> QED
      BY <2>3, <3>5, MovesKeep DEF WriteReplaceAnswer
  <2>4. CASE ReaderFlushes
    <3>1. Path' \subseteq Path
      BY <1>0, <2>4, FlushTypes
         DEF ReaderFlushes, FlushWrite, NothingToFlush, MoveReader, Path
    <3> QED
      BY <2>4, <3>1, MovesKeep DEF ReaderFlushes, FlushWrite, NothingToFlush, MoveReader
  <2> QED
    BY <1>1, <1>4, <2>1, <2>2, <2>3, <2>4 DEF ReaderLoop
<1>5. CASE WriterLoop
  <2>1. CASE TakePDU
    <3>1. /\ Head(queue) \in PDU /\ Head(queue) \in Range(queue)
          /\ Range(Tail(queue)) \subseteq Range(queue)
      BY <2>1, HeadTailRange DEF TakePDU, TypeOK
    <3>2. Range(Taken) = Range(batch) \union {Head(queue)}
      BY <3>1, AppendRange DEF Taken, TypeOK
    <3>3. Path' \subseteq Path
      BY <2>1, <3>1, <3>2 DEF TakePDU, Path
    <3> QED
      BY <2>1, <3>3, MovesKeep DEF TakePDU
  <2>2. CASE EndDrain \/ CheckOpen \/ WriterExits
    <3>1. Path' \subseteq Path
      BY <2>2 DEF EndDrain, CheckOpen, WriterExits, Path
    <3> QED
      BY <2>2, <3>1, MovesKeep DEF EndDrain, CheckOpen, WriterExits
  <2>3. CASE DropBatch
    <3>1. Path' \subseteq Path
      BY <2>3, EmptyRange DEF DropBatch, Path
    <3> QED
      BY <2>3, <3>1, MovesKeep DEF DropBatch
  <2>4. CASE Fill
    <3>1. Range(buffer \o batch) = Range(buffer) \union Range(batch)
      BY RangeConcatenation DEF TypeOK
    <3>2. Path' \subseteq Path
      BY <2>4, <3>1, EmptyRange DEF Fill, Path
    <3> QED
      BY <2>4, <3>2, MovesKeep DEF Fill
  <2>5. CASE FillDirectly
    <3>1. Range(wire') \subseteq Range(wire) \union Range(batch)
      BY <2>5, FillTypes
    <3>2. Path' \subseteq Path
      BY <2>5, <3>1, EmptyRange DEF FillDirectly, Path
    <3> QED
      BY <2>5, <3>2, MovesKeep DEF FillDirectly
  <2>6. CASE WriterFlushes
    <3>1. Path' \subseteq Path
      BY <1>0, <2>6, FlushTypes DEF WriterFlushes, FlushWrite, Path
    <3> QED
      BY <2>6, <3>1, MovesKeep DEF WriterFlushes, FlushWrite
  <2> QED
    BY <1>5, <2>1, <2>2, <2>3, <2>4, <2>5, <2>6 DEF WriterLoop
<1>6. CASE BeginStop \/ CloseConn \/ Finished
  <2>1. \A q \in 1 .. MaxSequence : InFlight(q)' => InFlight(q)
    BY <1>6 DEF BeginStop, CloseConn, Finished, InFlight, Path, vars
  <2> QED
    BY <1>6, <2>1, EntriesKept DEF BeginStop, CloseConn, Finished, vars
<1>7. CASE FinishStop
  BY <1>7 DEF FinishStop, EntriesMade
<1> QED
  BY <1>2, <1>3, <1>4, <1>5, <1>6, <1>7 DEF Next

-----------------------------------------------------------------------------

LEMMA InitIInv == Init => IInv
<1> SUFFICES ASSUME Init PROVE IInv
  OBVIOUS
<1>1. <<>> \in Seq(PDU) /\ Len(<<>>) = 0
  BY EmptySeq
<1>2. TypeOK
  <2>1. /\ queue \in Seq(PDU) /\ Len(queue) <= Window
        /\ batch \in Seq(PDU) /\ Len(batch) <= BatchMax
        /\ buffer \in Seq(PDU) /\ wire \in Seq(PDU)
    BY <1>1, QueueAssumption DEF Init
  <2>2. flushed \in [{"reader", "writer"} -> [n : Int, ok : BOOLEAN]]
    BY DEF Init, NoFlush
  <2>3. /\ queueing \in [Senders \union {Reader} -> {"no", "check", "offer"}]
        /\ sender \in [Senders -> {"start", "store", "queueing", "done"}]
        /\ seqOf \in [Senders -> 0 .. MaxSequence]
    BY SequenceAssumption DEF Init
  <2>4. received \in 0 .. MaxRequests
    BY RequestsAssumption DEF Init
  <2> QED
    BY <2>1, <2>2, <2>3, <2>4 DEF Init, TypeOK
<1>3. ReaderSound /\ SendersSound /\ BatchSound /\ FlushesSound
  BY DEF Init, ReaderSound, SendersSound, BatchSound, FlushesSound, Reader
<1>4. EntriesMade
  BY EmptyRange DEF Init, EntriesMade, InFlight, Path
<1> QED
  BY <1>2, <1>3, <1>4 DEF IInv

LEMMA NextIInv == IInv /\ [Next]_vars => IInv'
<1>1. ASSUME IInv, Next PROVE IInv'
  BY <1>1, TypeStep, SoundStep, EntriesStep DEF IInv, Sound
<1>2. ASSUME IInv, UNCHANGED vars PROVE IInv'
  BY <1>2 DEF IInv, TypeOK, ReaderSound, SendersSound, BatchSound, FlushesSound,
     EntriesMade, InFlight, Path, vars, readerVars, senderVars, writerVars, bufferVars
<1> QED
  BY <1>1, <1>2

(* The inductive invariant holds whatever senders, requests, limits and numbers. *)
THEOREM Invariance == Spec => []IInv
  BY InitIInv, NextIInv, PTL DEF Spec

(* Types; queue and batch keep to their limits, and without replace_sm only the      *)
(* writer finds anything in the buffer (session.go:281, 311, 352-362).              *)
THEOREM TypeCorrect == Spec => []TypeOK
<1>1. IInv => TypeOK
  BY DEF IInv
<1> QED
  BY Invariance, <1>1, PTL

(* The entry of a deliver_sm is there when its answer comes (server.go:405-407,      *)
(* session.go:386-391).                                                             *)
THEOREM EntriesFound == Spec => []ResponseFindsEntry
<1>1. IInv => ResponseFindsEntry
  BY DEF IInv, EntriesMade, InFlight, Path, ResponseFindsEntry
<1> QED
  BY Invariance, <1>1, PTL

=============================================================================
