----------------------------- MODULE SessionLink -----------------------------
(***************************************************************************)
(* The two loops of one session, and Stop (session.go).                    *)
(*                                                                         *)
(* The reader takes a request off the connection, lets the rate limiter    *)
(* and the handler have it, and puts the answer on pduQueue; application   *)
(* goroutines put deliver_sm there.  Whoever queues waits for room for     *)
(* Config.Timeout at most.  The writer drains the queue in batches into    *)
(* one buffered write and one flush.  Only the answer to replace_sm takes  *)
(* another way: the reader writes it to the connection itself and then     *)
(* flushes the writer's buffer, without the writer's mutex.                *)
(*                                                                         *)
(* PendingRequests appears here with its keys that are sequence numbers;   *)
(* the message ids in it are in Receipts.  A connection may fail, and a    *)
(* write run into its deadline, at any time.                               *)
(***************************************************************************)
EXTENDS Integers, Sequences, FiniteSets, Functions

CONSTANTS
    Senders,       \* goroutines of the application, each in one SendDeliverSM
    Requests,      \* kinds of requests the peer sends: "plain", "unbind", "replace"
    MaxRequests,   \* requests it sends in a behaviour
    Window,        \* capacity of pduQueue
    BatchMax,      \* sessionWriteBatchMax
    MaxSequence

ASSUME RequestsAssumption ==
    Requests \subseteq {"plain", "unbind", "replace"} /\ MaxRequests \in Nat
ASSUME QueueAssumption == Window \in Nat \ {0} /\ BatchMax \in Nat \ {0}
\* Sequence numbers come around only after 2^31 - 1 others.
ASSUME SequenceAssumption ==
    /\ MaxSequence \in Nat \ {0}
    /\ IsFiniteSet(Senders) /\ Cardinality(Senders) <= MaxSequence

Reader == "reader"
ASSUME ReaderAssumption == Reader \notin Senders

Answer(n)  == [kind |-> "answer", n |-> n]   \* to the peer's n-th request
Deliver(q) == [kind |-> "deliver", n |-> q]  \* deliver_sm with sequence number q
PDU == {Answer(n) : n \in 1 .. MaxRequests} \union {Deliver(q) : q \in 1 .. MaxSequence}

VARIABLES
    reader,      \* "head", "reading", "limited", "queueing", "replacing", "flushing", "stopping", "exited"
    request,     \* kind of the request being handled
    received,    \* requests read so far
    queueing,    \* enqueuePDU of the reader and of each sender: "no", "check", "offer"
    sender,      \* SendDeliverSM: "start", "store", "queueing", "done"
    seqOf,       \* its sequence number
    sequence,    \* sequenceNumber
    pending,     \* sequence numbers in PendingRequests
    queue,       \* pduQueue
    writer,      \* outgoingHandler: "wait", "drain", "check", "fill", "flush", "exited"
    batch,       \* PDUs it has taken off the queue
    buffer,      \* PDUs in bufio.Writer
    broken,      \* bufio.Writer keeps an error
    flushed,     \* what a flush has got onto the connection before it clears the buffer
    stop,        \* Session.Stop: "no", "cancelled", "closed", "done"
    wire,        \* PDUs written to the connection, in order
    answered     \* sequence numbers the peer has answered

readerVars == <<reader, request, received>>
senderVars == <<sender, seqOf, sequence>>
writerVars == <<writer, batch>>
bufferVars == <<buffer, broken, flushed, wire>>
vars == <<readerVars, queueing, senderVars, pending, queue, writerVars, bufferVars, stop,
          answered>>

Cancelled == stop # "no"
Open == stop \in {"no", "cancelled"}
NoFlush == [n |-> -1, ok |-> TRUE]

-----------------------------------------------------------------------------
(* enqueuePDU.  Actor a queues body p and then is where it was, not queueing. *)

\* The context is looked at once, before the wait for room.
CheckContext(a) ==
    /\ queueing[a] = "check"
    /\ queueing' = [queueing EXCEPT ![a] = IF Cancelled THEN "no" ELSE "offer"]
    /\ UNCHANGED <<readerVars, senderVars, pending, queue, writerVars, bufferVars, stop,
                   answered>>

BodyOf(a) == IF a = Reader THEN Answer(received) ELSE Deliver(seqOf[a])

Offer(a) ==
    /\ queueing[a] = "offer"
    /\ Len(queue) < Window
    /\ queue' = Append(queue, BodyOf(a))
    /\ queueing' = [queueing EXCEPT ![a] = "no"]
    /\ UNCHANGED <<readerVars, senderVars, pending, writerVars, bufferVars, stop,
                   answered>>

MutFull == FALSE
\* time.After fires while there is still no room.
Full == Len(queue) = Window

\* "session queue timeout".
TimeOut(a) ==
    /\ queueing[a] = "offer"
    /\ Full
    /\ queueing' = [queueing EXCEPT ![a] = "no"]
    /\ UNCHANGED <<readerVars, senderVars, pending, queue, writerVars, bufferVars, stop,
                   answered>>

-----------------------------------------------------------------------------
(* SendDeliverSM, of a session that is bound as a receiver. *)

NextSequence(n) == IF n >= MaxSequence THEN 1 ELSE n + 1

TakeSequence(a) ==
    /\ sender[a] = "start"
    /\ sequence' = NextSequence(sequence)
    /\ seqOf' = [seqOf EXCEPT ![a] = NextSequence(sequence)]
    /\ sender' = [sender EXCEPT ![a] = "store"]
    /\ UNCHANGED <<readerVars, queueing, pending, queue, writerVars, bufferVars, stop,
                   answered>>

MutStored(a) == pending
Stored(a) == pending \union {seqOf[a]}

\* The entry is made before the PDU can be queued, let alone answered.
Store(a) ==
    /\ sender[a] = "store"
    /\ pending' = Stored(a)
    /\ sender' = [sender EXCEPT ![a] = "queueing"]
    /\ queueing' = [queueing EXCEPT ![a] = "check"]
    /\ UNCHANGED <<readerVars, seqOf, sequence, queue, writerVars, bufferVars, stop,
                   answered>>

\* It stays when the PDU could not be queued.
Return(a) ==
    /\ sender[a] = "queueing"
    /\ queueing[a] = "no"
    /\ sender' = [sender EXCEPT ![a] = "done"]
    /\ UNCHANGED <<readerVars, queueing, seqOf, sequence, pending, queue, writerVars,
                   bufferVars, stop, answered>>

-----------------------------------------------------------------------------
(* The reader: start and processPDU. *)

MoveReader(to) ==
    /\ reader' = to
    /\ UNCHANGED <<request, received, queueing, senderVars, pending, queue, writerVars,
                   bufferVars, stop, answered>>

LoopHead == reader = "head" /\ MoveReader(IF Cancelled THEN "stopping" ELSE "reading")

\* The read deadline passes and the loop goes round.
ReadTimesOut == reader = "reading" /\ Open /\ MoveReader("head")

\* EOF, an error, or a connection that Stop has closed.
ReadFails == reader = "reading" /\ MoveReader("stopping")

\* Closing the connection does not take away what has been read ahead of it.
ReadRequest(k) ==
    /\ reader = "reading"
    /\ received < MaxRequests
    /\ received' = received + 1
    /\ request' = k
    /\ reader' = "limited"
    /\ UNCHANGED <<queueing, senderVars, pending, queue, writerVars, bufferVars, stop,
                   answered>>

\* A response to a deliver_sm that has been written; it, too, passes the limiter.
ReadAnswer(q) ==
    /\ reader = "reading"
    /\ q \notin answered
    /\ Deliver(q) \in Range(wire)
    /\ answered' = answered \union {q}
    /\ \/ pending' = pending \ {q}
       \/ Cancelled /\ UNCHANGED pending
    /\ reader' = "head"
    /\ UNCHANGED <<request, received, queueing, senderVars, queue, writerVars,
                   bufferVars, stop>>

\* rateLimiter.Wait gives up once the session is stopped; the request is forgotten.
LimiterRefuses == reader = "limited" /\ Cancelled /\ MoveReader("head")

\* It lets the request through, and the handler decides on an answer.
HandleRequest ==
    /\ reader = "limited"
    /\ reader' = IF request = "replace" THEN "replacing" ELSE "queueing"
    /\ queueing' = [queueing EXCEPT ![Reader] = IF request = "replace" THEN "no" ELSE "check"]
    /\ UNCHANGED <<request, received, senderVars, pending, queue, writerVars,
                   bufferVars, stop, answered>>

\* handleUnbindPDU stops the session when it has queued its answer, or could not.
AnswerQueued ==
    /\ reader = "queueing"
    /\ queueing[Reader] = "no"
    /\ MoveReader(IF request = "unbind" THEN "stopping" ELSE "head")

\* sendReplaceSMResponse: written around queue, mutex and buffer, errors ignored.
WriteReplaceAnswer ==
    /\ reader = "replacing"
    /\ \/ Open /\ wire' = Append(wire, Answer(received))
       \/ UNCHANGED wire
    /\ reader' = "flushing"
    /\ UNCHANGED <<request, received, queueing, senderVars, pending, queue, writerVars,
                   buffer, broken, flushed, stop, answered>>

\* Stop returns to the reader when it is over, whoever runs it.
ReaderStopped == reader = "stopping" /\ stop = "done" /\ MoveReader("exited")

-----------------------------------------------------------------------------
(* bufio.Writer.Flush, by the writer or by the reader; not atomic. *)

\* The connection takes the buffer, or a part of it before it fails.
FlushWrite(a) ==
    /\ flushed[a] = NoFlush
    /\ ~broken /\ buffer # <<>>
    /\ \/ /\ Open
          /\ wire' = wire \o buffer
          /\ flushed' = [flushed EXCEPT ![a] = [n |-> Len(buffer), ok |-> TRUE]]
       \/ \E n \in 0 .. Len(buffer) - 1 :
              /\ n > 0 => Open
              /\ wire' = wire \o SubSeq(buffer, 1, n)
              /\ flushed' = [flushed EXCEPT ![a] = [n |-> n, ok |-> FALSE]]
    /\ UNCHANGED <<readerVars, queueing, senderVars, pending, queue, writerVars, buffer,
                   broken, stop, answered>>

ShortWrite(f) == ~f.ok \/ f.n < Len(buffer)

\* What was written leaves the buffer; an error stays for good.
FlushReset(a) ==
    /\ flushed[a] # NoFlush
    /\ flushed' = [flushed EXCEPT ![a] = NoFlush]
    /\ broken' = (broken \/ ShortWrite(flushed[a]))
    /\ buffer' = IF ShortWrite(flushed[a])
                   THEN SubSeq(buffer, flushed[a].n + 1, Len(buffer)) ELSE <<>>

\* Nothing to flush, or an error kept from earlier.
NothingToFlush(a) == flushed[a] = NoFlush /\ (broken \/ buffer = <<>>)

ReaderFlushes ==
    /\ reader = "flushing"
    /\ \/ FlushWrite("reader")
       \/ /\ FlushReset("reader")
          /\ reader' = "head"
          /\ UNCHANGED <<request, received, queueing, senderVars, pending, queue,
                         writerVars, wire, stop, answered>>
       \/ NothingToFlush("reader") /\ MoveReader("head")

-----------------------------------------------------------------------------
(* The writer: outgoingHandler, drainOutgoingPDUBatch, sendPDUBatch. *)

MutRoomInBatch == Len(batch) <= BatchMax
RoomInBatch == Len(batch) < BatchMax

MutTaken == <<Head(queue)>> \o batch
Taken == Append(batch, Head(queue))

TakePDU ==
    /\ \/ writer = "wait"
       \/ writer = "drain" /\ RoomInBatch
    /\ queue # <<>>
    /\ batch' = Taken
    /\ queue' = Tail(queue)
    /\ writer' = "drain"
    /\ UNCHANGED <<readerVars, queueing, senderVars, pending, bufferVars, stop,
                   answered>>

EndDrain ==
    /\ writer = "drain"
    /\ queue = <<>> \/ ~RoomInBatch
    /\ writer' = "check"
    /\ UNCHANGED <<readerVars, queueing, senderVars, pending, queue, batch, bufferVars,
                   stop, answered>>

CheckOpen ==
    /\ writer = "check"
    /\ ~Cancelled
    /\ writer' = "fill"
    /\ UNCHANGED <<readerVars, queueing, senderVars, pending, queue, batch, bufferVars,
                   stop, answered>>

\* The session is stopped; or the deadline cannot be set, a PDU of the batch cannot
\* be serialized, or bufio keeps an error: the batch is gone.
DropBatch ==
    /\ \/ writer = "check" /\ Cancelled
       \/ writer = "fill"
    /\ batch' = <<>>
    /\ writer' = "wait"
    /\ UNCHANGED <<readerVars, queueing, senderVars, pending, queue, bufferVars, stop,
                   answered>>

\* The batch is copied into the buffer.
Fill ==
    /\ writer = "fill"
    /\ ~broken
    /\ buffer' = buffer \o batch
    /\ batch' = <<>>
    /\ writer' = "flush"
    /\ UNCHANGED <<readerVars, queueing, senderVars, pending, queue, broken, flushed,
                   wire, stop, answered>>

\* Larger than the buffer, it goes straight to the connection.
FillDirectly ==
    /\ writer = "fill"
    /\ ~broken
    /\ buffer = <<>>
    /\ \/ Open /\ wire' = wire \o batch /\ UNCHANGED broken
       \/ \E n \in 0 .. Len(batch) - 1 :
              /\ n > 0 => Open
              /\ wire' = wire \o SubSeq(batch, 1, n)
              /\ broken' = TRUE
    /\ batch' = <<>>
    /\ writer' = "flush"
    /\ UNCHANGED <<readerVars, queueing, senderVars, pending, queue, buffer, flushed,
                   stop, answered>>

WriterFlushes ==
    /\ writer = "flush"
    /\ \/ FlushWrite("writer")
       \/ /\ \/ FlushReset("writer")
             \/ NothingToFlush("writer") /\ UNCHANGED <<buffer, broken, flushed>>
          /\ writer' = "wait"
          /\ UNCHANGED <<readerVars, queueing, senderVars, pending, queue, batch, wire,
                         stop, answered>>

MutDone == FALSE
Done == Cancelled

WriterExits ==
    /\ writer = "wait"
    /\ Done
    /\ writer' = "exited"
    /\ UNCHANGED <<readerVars, queueing, senderVars, pending, queue, batch, bufferVars,
                   stop, answered>>

-----------------------------------------------------------------------------
(* Stop, which the reader or the session cache begins. *)

BeginStop ==
    /\ stop = "no"
    /\ stop' = "cancelled"
    /\ UNCHANGED <<readerVars, queueing, senderVars, pending, queue, writerVars,
                   bufferVars, answered>>

CloseConn ==
    /\ stop = "cancelled"
    /\ stop' = "closed"
    /\ UNCHANGED <<readerVars, queueing, senderVars, pending, queue, writerVars,
                   bufferVars, answered>>

\* The Range that empties PendingRequests.
FinishStop ==
    /\ stop = "closed"
    /\ stop' = "done"
    /\ pending' = {}
    /\ UNCHANGED <<readerVars, queueing, senderVars, queue, writerVars, bufferVars,
                   answered>>

-----------------------------------------------------------------------------

Init ==
    /\ reader = "head" /\ request = "plain" /\ received = 0
    /\ queueing = [a \in Senders \union {Reader} |-> "no"]
    /\ sender = [a \in Senders |-> "start"]
    /\ seqOf = [a \in Senders |-> 0]
    /\ sequence \in 0 .. MaxSequence
    /\ pending = {} /\ queue = <<>>
    /\ writer = "wait" /\ batch = <<>>
    /\ buffer = <<>> /\ broken = FALSE
    /\ flushed = [a \in {"reader", "writer"} |-> NoFlush]
    /\ stop = "no"
    /\ wire = <<>> /\ answered = {}

EnqueuePDU(a) == CheckContext(a) \/ Offer(a) \/ TimeOut(a)

SendDeliverSM(a) == TakeSequence(a) \/ Store(a) \/ EnqueuePDU(a) \/ Return(a)

Read == \/ \E k \in Requests : ReadRequest(k)
        \/ \E q \in 1 .. MaxSequence : ReadAnswer(q)
        \/ ReadFails

ReaderLoop ==
    \/ LoopHead \/ LimiterRefuses \/ HandleRequest \/ EnqueuePDU(Reader) \/ AnswerQueued
    \/ WriteReplaceAnswer \/ ReaderFlushes \/ ReaderStopped

WriterLoop ==
    \/ TakePDU \/ EndDrain \/ CheckOpen \/ DropBatch \/ Fill \/ FillDirectly
    \/ WriterFlushes \/ WriterExits

\* Both loops and every call have ended; the model stutters.
Finished ==
    /\ reader = "exited" /\ writer = "exited"
    /\ \A a \in Senders : sender[a] = "done"
    /\ UNCHANGED vars

Next ==
    \/ \E a \in Senders : SendDeliverSM(a)
    \/ Read \/ ReadTimesOut \/ ReaderLoop \/ WriterLoop
    \/ BeginStop \/ CloseConn \/ FinishStop \/ Finished

\* Every goroutine goes on, no wait of theirs being unbounded: a read fails at once
\* on a connection that is closed.  Stop, once begun, ends, and is begun by the reader
\* that comes to it.
Fairness ==
    /\ \A a \in Senders : WF_vars(SendDeliverSM(a))
    /\ WF_vars(ReaderLoop) /\ WF_vars(WriterLoop)
    /\ WF_vars(~Open /\ ReadFails)
    /\ WF_vars(reader = "stopping" /\ BeginStop)
    /\ WF_vars(CloseConn \/ FinishStop)

Spec == Init /\ [][Next]_vars /\ Fairness

-----------------------------------------------------------------------------
(* Properties. *)

\* Types; the queue and a batch keep to their limits; without replace_sm the buffer
\* is empty whenever the writer is not between filling and flushing it.
TypeOK ==
    /\ reader \in {"head", "reading", "limited", "queueing", "replacing", "flushing",
                   "stopping", "exited"}
    /\ request \in Requests \union {"plain"}
    /\ received \in 0 .. MaxRequests
    /\ queueing \in [Senders \union {Reader} -> {"no", "check", "offer"}]
    /\ sender \in [Senders -> {"start", "store", "queueing", "done"}]
    /\ seqOf \in [Senders -> 0 .. MaxSequence]
    /\ sequence \in 0 .. MaxSequence
    /\ pending \subseteq 1 .. MaxSequence
    /\ queue \in Seq(PDU) /\ Len(queue) <= Window
    /\ writer \in {"wait", "drain", "check", "fill", "flush", "exited"}
    /\ batch \in Seq(PDU) /\ Len(batch) <= BatchMax
    /\ buffer \in Seq(PDU)
    /\ broken \in BOOLEAN
    /\ flushed \in [{"reader", "writer"} -> [n : Int, ok : BOOLEAN]]
    /\ stop \in {"no", "cancelled", "closed", "done"}
    /\ wire \in Seq(PDU)
    /\ answered \subseteq 1 .. MaxSequence
    /\ "replace" \notin Requests /\ writer # "flush" /\ ~broken => buffer = <<>>

\* A response from the peer finds the entry made for what it answers: as long as the
\* session is not stopped, every deliver_sm written and not answered is pending,
\* though its sender may not have returned yet.
ResponseFindsEntry ==
    \A q \in 1 .. MaxSequence :
        Deliver(q) \in Range(wire) /\ q \notin answered /\ stop # "done"
            => q \in pending

\* "serializes bodies in order, then writes them under a single writeMutex and one
\* bufio flush" (session.go:325-326): across batches, flushes, failures and Stop the
\* wire carries what was queued in the order in which it was, each PDU once.
Unwritten == IF flushed["writer"] = NoFlush /\ ~broken THEN buffer ELSE <<>>
Waiting == Unwritten \o batch \o queue
Out == INSTANCE Outbox WITH waiting <- Waiting
ImplementsOutbox == Out!Spec

\* The same comment, of the wire alone: no PDU is written twice.
WrittenOnce == \A i, j \in DOMAIN wire : wire[i] = wire[j] => i = j

\* Nobody waits for room in the queue for ever, even after the writer is gone.
EnqueueReturns ==
    \A a \in Senders \union {Reader} : (queueing[a] = "offer") ~> (queueing[a] = "no")

\* A session that is stopped, by whomever, sees both its loops end.
StopEndsLoops == (stop # "no") ~> (reader = "exited" /\ writer = "exited")

-----------------------------------------------------------------------------
(* The inductive invariant behind ResponseFindsEntry. *)

\* A request is at hand while the reader works on it; it queues no other answer.
ReaderSound ==
    /\ reader \in {"limited", "queueing", "replacing", "flushing"}
           => received \in 1 .. MaxRequests
    /\ reader \in {"replacing", "flushing"} => request = "replace"
    /\ queueing[Reader] # "no" => reader = "queueing"

\* A sender queues under the sequence number it has taken.
SendersSound ==
    \A a \in Senders :
        /\ sender[a] \in {"store", "queueing"} => seqOf[a] \in 1 .. MaxSequence
        /\ queueing[a] # "no" => sender[a] = "queueing"

\* The writer holds a batch only between draining and filling.
BatchSound == writer \in {"wait", "flush", "exited"} => batch = <<>>

\* A flush that is under way has a count to reset the buffer by.
FlushesSound ==
    /\ \A a \in {"reader", "writer"} : flushed[a] = NoFlush \/ flushed[a].n \in Nat
    /\ flushed["reader"] # NoFlush => reader = "flushing"
    /\ flushed["writer"] # NoFlush => writer = "flush"

\* On its way from the sender to the wire, a deliver_sm has its entry.
Path == Range(queue) \union Range(batch) \union Range(buffer) \union Range(wire)
InFlight(q) ==
    \/ Deliver(q) \in Path
    \/ \E a \in Senders : queueing[a] # "no" /\ seqOf[a] = q
EntriesMade ==
    stop # "done" => \A q \in (1 .. MaxSequence) \ answered : InFlight(q) => q \in pending

IInv == TypeOK /\ ReaderSound /\ SendersSound /\ BatchSound /\ FlushesSound /\ EntriesMade

=============================================================================
