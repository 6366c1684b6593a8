------------------------------ MODULE LongText ------------------------------
(***************************************************************************)
(* Texts on their way through one session, in parts where they are long:   *)
(* outwards by SendSegmentedDeliverSM (server.go), any number of calls at  *)
(* the same time and between the same addresses; inwards as the submit_sm  *)
(* of a client, read by parseSubmitSM (session.go), joined by              *)
(* GetCompleteMessage (segments.go) and decoded.  Texts has the functions. *)
(*                                                                         *)
(* A job is one text.  The parts of an incoming text arrive in order and   *)
(* once: Segments has the other cases, and its buckets.                    *)
(***************************************************************************)
EXTENDS Texts

CONSTANTS
    Jobs,       \* texts on their way
    Contents,   \* what texts may consist of, a subset of Text
    Refs,       \* references drawn, or used by clients; e.g. {1, 513}
    MaxRunes    \* Config.DefaultMaxSegsCount: a limit in characters, 200 by default

ASSUME ContentsAssumption == Contents \subseteq Text
ASSUME RefsAssumption == \A r \in Refs : r \in Nat /\ r <= 65535
ASSUME MaxRunesAssumption == MaxRunes \in Nat \ {0}

VARIABLES
    job,    \* what the call, or the client, and parseSubmitSM know of each text
    wire,   \* deliver_sm queued for the client
    read    \* parts parsed from submit_sm

vars == <<job, wire, read>>

-----------------------------------------------------------------------------
(* SendSegmentedDeliverSM. *)

Started(at, t, coding, form, ref, total) ==
    [at |-> at, text |-> t, coding |-> coding, form |-> form, ref |-> ref, total |-> total,
     count |-> 0, ok |-> FALSE]

Empty == [head |-> 0, tail |-> 0, kind |-> "letter"]
NewJob == Started("new", Empty, "gsm7", "plain", 0, 0)

\* The coding is chosen for the whole text, which then loses what is too long.
Truncated(t) == Slice(t, 1, Lesser(Runes(t), MaxRunes))

\* An empty text is refused; the reference is random, and drawn for several parts only.
BeginSend(j) ==
    /\ job[j].at = "new"
    /\ \E t \in Contents, r \in Refs : \E c \in CodingsOf(t) :
           job' = [job EXCEPT ![j] =
                      IF Runes(t) = 0
                      THEN Started("returned", Empty, "gsm7", "plain", 0, 0)
                      ELSE Started("sending", t, c, "plain", r, SegmentCount(Truncated(t), c))]
    /\ UNCHANGED <<wire, read>>

Room == 255 - 7

\* The part's octets, cut to fit behind the header; a text in one part is not cut.
MutKept(octets, total) == octets
Kept(octets, total) == IF total = 1 THEN octets ELSE Lesser(octets, Room)

Piece(call, i) ==
    LET text == Truncated(call.text)
    IN  Slice(text, From(call.coding, i), To(text, call.coding, i))

\* A deliver_sm: without a header if the text fits in one; above 254 octets in message_payload.
DeliverSM(j, call, i) ==
    LET octets == Octets(Piece(call, i), call.coding)
        kept   == Kept(octets, call.total)
        udh    == IF call.total = 1 THEN <<>> ELSE UDH16(call.ref, call.total, i)
    IN  [by      |-> j,
         part    |-> i,
         udh     |-> udh,
         from    |-> From(call.coding, i),
         to      |-> To(Truncated(call.text), call.coding, i),
         octets  |-> kept,
         lost    |-> octets - kept,
         payload |-> Len(udh) + kept > 254]

SendPart(j) ==
    LET i == job[j].count + 1
    IN  /\ job[j].at = "sending"
        /\ Encodable(Piece(job[j], i), job[j].coding)
        /\ wire' = wire \union {DeliverSM(j, job[j], i)}
        /\ job' = [job EXCEPT ![j].count = i,
                              ![j].at = IF i = job[j].total THEN "returned" ELSE "sending",
                              ![j].ok = i = job[j].total]
        /\ UNCHANGED read

MutCounted(j) == job[j].count + 1
\* A part is counted after it has been queued.
Counted(j) == job[j].count

\* The context is done, the session is gone, not bound or full; or the part cannot be encoded.
PartFails(j) ==
    /\ job[j].at = "sending"
    /\ job' = [job EXCEPT ![j].at = "returned", ![j].count = Counted(j)]
    /\ UNCHANGED <<wire, read>>

-----------------------------------------------------------------------------
(* submit_sm of a client. *)

\* Characters a client puts into a part: what 134 octets, or 153 septets, hold.
PerPart(t, coding) ==
    (IF coding = "gsm7" THEN 153 ELSE 134) \div
        (IF t.tail = 0 THEN Width("letter", coding) ELSE Width(t.kind, coding))

FitsInOne(t, coding) == Octets(t, coding) <= (IF coding = "gsm7" THEN 160 ELSE 140)

PartsOf(t, coding) == IF FitsInOne(t, coding) THEN 1 ELSE RoundedUp(Runes(t), PerPart(t, coding))

BeginSubmit(j) ==
    /\ job[j].at = "new"
    /\ \E t \in Contents, r \in Refs, f \in Forms : \E c \in CodingsOf(t) :
           /\ Runes(t) > 0 /\ Encodable(t, c)
           /\ FitsInOne(t, c) <=> f \notin Segmented
           /\ job' = [job EXCEPT ![j] = Started("submitting", t, c, f, r, PartsOf(t, c))]
    /\ UNCHANGED <<wire, read>>

\* parseSubmitSM; with the last part the text is whole.
ReadPart(j) ==
    LET i == job[j].count + 1
    IN  /\ job[j].at = "submitting"
        /\ read' = read \union {[by |-> j, part |-> i,
                                 segment |-> SegmentOf(Submit(job[j].form, job[j].ref, job[j].total, i))]}
        /\ job' = [job EXCEPT ![j].count = i,
                              ![j].at = IF i = job[j].total THEN "handled" ELSE "submitting"]
        /\ UNCHANGED wire

\* What the handler finds in Text is what the client wrote.
ReadRight(j) ==
    DecodedRight(job[j].text, job[j].coding, AnnouncedFor(job[j].coding, job[j].total))

\* The sub of its delivery receipt, for a text that has been read right: the code counts
\* the text it has decoded.
Sub(j) == SegmentCountForReceipt(CalcSegments(job[j].coding, job[j].text))

-----------------------------------------------------------------------------
Init ==
    /\ job = [j \in Jobs |-> NewJob]
    /\ wire = {}
    /\ read = {}

Finished == (\A j \in Jobs : job[j].at \in {"returned", "handled"}) /\ UNCHANGED vars

Next ==
    \/ \E j \in Jobs : BeginSend(j) \/ SendPart(j) \/ PartFails(j) \/ BeginSubmit(j) \/ ReadPart(j)
    \/ Finished

Spec == Init /\ [][Next]_vars

-----------------------------------------------------------------------------
(* Properties. *)

JobType ==
    [at : {"new", "sending", "returned", "submitting", "handled"}, text : Text, coding : Codings,
     form : Forms, ref : Nat, total : Nat, count : Nat, ok : BOOLEAN]

\* The type of the state; and a part with its header never exceeds the 255 octets
\* a length octet can tell.
TypeOK ==
    /\ job \in [Jobs -> JobType]
    /\ \A j \in Jobs : job[j].at \in {"sending", "submitting"} => job[j].count < job[j].total
    /\ \A w \in wire : w.udh # <<>> => Len(w.udh) + w.octets <= 255
    /\ \A p \in read : p.by \in Jobs /\ p.part \in 1 .. job[p.by].total

\* The number SendSegmentedDeliverSM returns is the number of parts it queued, and
\* these are the first ones, each once: a caller told of an error after half of a
\* text knows which half.  No error means all of it.
SentIsQueued ==
    \A j \in Jobs : job[j].at \in {"sending", "returned"} =>
        LET mine == {w \in wire : w.by = j}
        IN  /\ {w.part : w \in mine} = 1 .. job[j].count
            /\ \A v, w \in mine : v.part = w.part => v = w
            /\ job[j].ok <=> job[j].count = job[j].total /\ job[j].count > 0

Header(w) == ParseUDH(w.udh)
Together(j) == {w \in wire : w.udh # <<>> /\ Header(w).ref = job[j].ref /\ Header(w).total = job[j].total}
Alone(j) == \A k \in Jobs \ {j} : job[k].ref # job[j].ref \/ job[k].total # job[j].total

\* A receiver that puts together the parts with the same reference and total, as
\* the code's own ParseUDH reads them, gets each number once and with them the
\* text from its first character to its last, cut only at the documented limit,
\* whatever other texts travel between the same addresses at the same time, unless
\* they drew the same reference.  With the coding of SendDeliverSMText no octet of
\* a part is lost, save in texts of characters that take two UTF-16 units.
TextArrives ==
    \A j \in Jobs : job[j].at = "returned" /\ job[j].ok /\ job[j].total > 1 /\ Alone(j) =>
        /\ \A i \in 1 .. job[j].total : \E w \in Together(j) :
               /\ {v \in Together(j) : Header(v).seq = i} = {w}
               /\ i = 1 => w.from = 1
               /\ i = job[j].total => w.to = Lesser(Runes(job[j].text), MaxRunes)
               /\ \A v \in Together(j) : Header(v).seq = i + 1 => v.from = w.to + 1
        /\ job[j].coding = DetermineEncoding(job[j].text) /\ job[j].text.kind # "emoji" =>
               \A w \in Together(j) : w.lost = 0

\* Septets up to 0x1F in a text of GSM7.
Smalls(t) ==
    t.tail * (CASE t.kind \in Small \union {"bracket", "euro"} -> 1 [] t.kind = "caret" -> 2 [] OTHER -> 0)

\* In whichever of five forms a client numbers its parts, they are read as numbered,
\* with the low byte of the reference.  The handler finds the client's text when it
\* came in one part, or in several in GSM7 or in UCS-2 and an alphabet below U+2000;
\* but not in GSM7 when more than a quarter of the septets are small, for such a text
\* may be taken for UCS-2, whatever the order of its characters.  The receipt of a text
\* read right counts the parts submitted, if they were full.
SubmitsRead ==
    \A j \in Jobs : job[j].at = "handled" =>
        LET t == job[j].text
            c == job[j].coding
            several == job[j].total > 1
            below == c = "gsm7" \/ (c = "ucs2" /\ t.kind \notin High)
            few == c = "gsm7" => 4 * Smalls(t) <= Octets(t, c)
        IN  /\ several => \A i \in 1 .. job[j].total :
                   {p.segment : p \in {q \in read : q.by = j /\ q.part = i}}
                       = {[ref |-> job[j].ref % 256, total |-> job[j].total, seq |-> i]}
            /\ few /\ (several => below) => ReadRight(j)
            /\ few /\ below /\ ~(c = "gsm7" /\ t.kind \in Extension) => Sub(j) = job[j].total

=============================================================================
