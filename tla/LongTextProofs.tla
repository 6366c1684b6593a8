--------------------------- MODULE LongTextProofs ---------------------------
(* Proofs about LongText, for any texts, references and limit. *)
EXTENDS LongText, TLAPS

-----------------------------------------------------------------------------
(* Lemmas about the functions of Texts. *)

\* A slice of a text has the characters it is asked for.
LEMMA SliceLength ==
    ASSUME NEW t \in Text, NEW a \in Int, NEW b \in Int, 1 <= a, a <= b + 1, b <= Runes(t)
    PROVE  Slice(t, a, b) \in Text /\ Runes(Slice(t, a, b)) = b - a + 1
<1> DEFINE letters == Lesser(b, t.head) - Lesser(a - 1, t.head)
<1>1. t.head \in Nat /\ t.tail \in Nat /\ t.kind \in Kinds
  BY DEF Text
<1>2. letters \in Nat /\ b - a + 1 - letters \in Nat
  BY <1>1 DEF Runes, Lesser
<1>3. Slice(t, a, b) = [head |-> letters, tail |-> b - a + 1 - letters, kind |-> t.kind]
  BY DEF Slice
<1> HIDE DEF letters
<1> QED
  BY <1>1, <1>2, <1>3 DEF Text, Runes

LEMMA LimitTypes ==
    ASSUME NEW c \in Codings
    PROVE  /\ MaxLen(c) \in Nat /\ MaxMultiLen(c) \in Nat \ {0}
           /\ MaxMultiLen(c) < MaxLen(c)
BY DEF Codings, MaxLen, MaxMultiLen

\* The division that counts parts: the last multiple below, the first not below.
LEMMA RoundedUpBounds ==
    ASSUME NEW n \in Nat \ {0}, NEW c \in Codings
    PROVE  LET m == MaxMultiLen(c)
               k == RoundedUp(n, m)
           IN  k \in Nat \ {0} /\ (k - 1) * m < n /\ n <= k * m
<1>1. CASE c = "gsm7"
  BY <1>1 DEF MaxMultiLen, RoundedUp
<1>2. CASE c = "ucs2"
  BY <1>2 DEF MaxMultiLen, RoundedUp
<1>3. CASE c \in {"latin1", "cyrillic"}
  BY <1>3 DEF MaxMultiLen, RoundedUp
<1> QED
  BY <1>1, <1>2, <1>3 DEF Codings

\* splitTextIntoSegments: the parts lie end to end from the first character to the
\* last, none is empty, and of several parts none is longer than the limit.
LEMMA PartsPartition ==
    ASSUME NEW t \in Text, Runes(t) > 0, NEW c \in Codings
    PROVE  LET n == SegmentCount(t, c)
           IN  /\ n \in Nat \ {0}
               /\ From(c, 1) = 1 /\ To(t, c, n) = Runes(t)
               /\ \A i \in 1 .. n :
                      /\ From(c, i) \in Nat /\ To(t, c, i) \in Nat
                      /\ 1 <= From(c, i) /\ From(c, i) <= To(t, c, i) /\ To(t, c, i) <= Runes(t)
                      /\ n > 1 => To(t, c, i) - From(c, i) + 1 <= MaxMultiLen(c)
                      /\ i < n => From(c, i + 1) = To(t, c, i) + 1
<1> DEFINE n == SegmentCount(t, c)
           m == MaxMultiLen(c)
<1>0. Runes(t) \in Nat \ {0} /\ m \in Nat \ {0} /\ MaxLen(c) \in Nat /\ m < MaxLen(c)
  BY LimitTypes DEF Text, Runes
<1>1. CASE Runes(t) <= MaxLen(c)
  <2>1. n = 1
    BY <1>1 DEF SegmentCount
  <2> QED
    BY <1>0, <2>1 DEF From, To
<1>2. CASE ~(Runes(t) <= MaxLen(c))
  <2>1. n = RoundedUp(Runes(t), m)
    BY <1>2 DEF SegmentCount
  <2>2. n \in Nat \ {0} /\ (n - 1) * m < Runes(t) /\ Runes(t) <= n * m
    BY <1>0, <2>1, RoundedUpBounds
  <2>3. n > 1
    <3>1. n # 1
      BY <1>0, <1>2, <2>2
    <3> QED
      BY <2>2, <3>1
  <2>4. From(c, 1) = 1
    BY <1>0 DEF From
  <2>5. To(t, c, n) = Runes(t)
    BY <1>0, <2>2, <2>3 DEF To, Lesser
  <2>6. ASSUME NEW i \in 1 .. n
        PROVE  /\ From(c, i) \in Nat /\ To(t, c, i) \in Nat
               /\ 1 <= From(c, i) /\ From(c, i) <= To(t, c, i) /\ To(t, c, i) <= Runes(t)
               /\ To(t, c, i) - From(c, i) + 1 <= m
               /\ i < n => From(c, i + 1) = To(t, c, i) + 1
    <3>1. i \in Nat \ {0} /\ i - 1 \in Nat /\ n \in Nat
      BY <2>2
    <3>2. (i - 1) * m \in Nat /\ i * m \in Nat /\ i * m = (i - 1) * m + m
      BY <1>0, <3>1
    <3>3. (i - 1) * m <= (n - 1) * m
      BY <1>0, <2>2, <3>1
    <3>4. i < n => i * m <= (n - 1) * m
      BY <1>0, <2>2, <3>1
    <3>5. (n - 1) * m \in Nat
      BY <1>0, <2>2
    <3>6. From(c, i) = (i - 1) * m + 1 /\ To(t, c, i) = Lesser(i * m, Runes(t))
      BY <2>3 DEF From, To
    <3>7. From(c, i + 1) = i * m + 1
      BY <3>1 DEF From
    <3> HIDE DEF m, n
    <3> QED
      BY <1>0, <2>2, <3>2, <3>3, <3>4, <3>5, <3>6, <3>7 DEF Lesser
  <2> QED
    BY <2>2, <2>3, <2>4, <2>5, <2>6
<1> QED
  BY <1>1, <1>2

\* A number is its high and its low octet.
LEMMA OctetsJoin ==
    ASSUME NEW n \in Nat, NEW high \in Int, NEW low \in Int, high = n \div 256, low = n % 256
    PROVE  high * 256 + low = n
OBVIOUS

LEMMA OctetsAreNumbers ==
    ASSUME NEW n \in Nat
    PROVE  n \div 256 \in Int /\ n % 256 \in Int
OBVIOUS

LEMMA SmallOctet ==
    ASSUME NEW n \in Int, 0 <= n, n <= 255
    PROVE  n % 256 = n
OBVIOUS

LEMMA FirstThree ==
    ASSUME NEW u \in Seq(Int), Len(u) = 7, u[1] = 6, u[2] = 8, u[3] = 4
    PROVE  SubSeq(u, 1, 3) = <<6, 8, 4>>
<1>1. /\ SubSeq(u, 1, 3) \in Seq(Int) /\ Len(SubSeq(u, 1, 3)) = 3
      /\ SubSeq(u, 1, 3)[1] = 6 /\ SubSeq(u, 1, 3)[2] = 8 /\ SubSeq(u, 1, 3)[3] = 4
  OBVIOUS
<1> SUFFICES ASSUME NEW v \in Seq(Int), Len(v) = 3, v[1] = 6, v[2] = 8, v[3] = 4
             PROVE  v = <<6, 8, 4>>
  BY <1>1
<1> QED
  OBVIOUS

\* ParseUDH on a header of the 16-bit form.
LEMMA ReadBack ==
    ASSUME NEW a \in Int, NEW b \in Int, NEW total \in Int, NEW seq \in Int, 1 <= seq, seq <= total
    PROVE  ParseUDH(<<6, 8, 4, a, b, total, seq>>) = [ref |-> a * 256 + b, total |-> total, seq |-> seq]
<1> DEFINE u == <<6, 8, 4, a, b, total, seq>>
           segment == [ref |-> u[4] * 256 + u[5], total |-> u[6], seq |-> u[7]]
<1>1. /\ u \in Seq(Int) /\ Len(u) = 7
      /\ u[1] = 6 /\ u[2] = 8 /\ u[3] = 4 /\ u[4] = a /\ u[5] = b /\ u[6] = total /\ u[7] = seq
  OBVIOUS
<1> HIDE DEF u
<1>2. SubSeq(u, 1, 3) = <<6, 8, 4>>
  BY <1>1, FirstThree
<1>3. ParseUDH(u) = IF segment.seq = 0 \/ segment.seq > segment.total THEN NoSegment ELSE segment
  BY <1>1, <1>2 DEF ParseUDH
<1>4. segment = [ref |-> a * 256 + b, total |-> total, seq |-> seq]
  BY <1>1
<1> QED
  BY <1>3, <1>4 DEF u

\* A header of the 16-bit form is read back as it was written.
LEMMA HeaderReadBack ==
    ASSUME NEW ref \in Nat, NEW total \in Int, NEW seq \in Int, 1 <= seq, seq <= total, total <= 255
    PROVE  /\ UDH16(ref, total, seq) # <<>>
           /\ Len(UDH16(ref, total, seq)) = 7
           /\ ParseUDH(UDH16(ref, total, seq)) = [ref |-> ref, total |-> total, seq |-> seq]
<1>1. total % 256 = total /\ seq % 256 = seq
  <2>1. 0 <= total /\ 0 <= seq /\ seq <= 255
    OBVIOUS
  <2> QED
    BY <2>1, SmallOctet
<1>2. UDH16(ref, total, seq) = <<6, 8, 4, ref \div 256, ref % 256, total, seq>>
  BY <1>1, Zenon DEF UDH16
<1> SUFFICES ASSUME NEW high \in Int, NEW low \in Int, high = ref \div 256, low = ref % 256
             PROVE  /\ <<6, 8, 4, high, low, total, seq>> # <<>>
                    /\ Len(<<6, 8, 4, high, low, total, seq>>) = 7
                    /\ ParseUDH(<<6, 8, 4, high, low, total, seq>>) = [ref |-> ref, total |-> total, seq |-> seq]
  BY <1>2, OctetsAreNumbers
<1>3. high * 256 + low = ref
  BY OctetsJoin
<1>4. <<6, 8, 4, high, low, total, seq>> # <<>> /\ Len(<<6, 8, 4, high, low, total, seq>>) = 7
  BY Z3
<1> QED
  BY <1>3, <1>4, ReadBack

-----------------------------------------------------------------------------
(***************************************************************************)
(* The inductive invariant.  What is known of a call stays as it was when  *)
(* the first part went out, so the parts on the wire are the ones its      *)
(* count names, each as DeliverSM would make it now.                       *)
(***************************************************************************)
CallKnown(call) ==
    /\ Runes(call.text) > 0
    /\ call.ref \in Refs
    /\ call.total = SegmentCount(Truncated(call.text), call.coding)
    /\ call.total > 0
    /\ call.count <= call.total
    /\ call.ok <=> call.count = call.total

JobKnown(call) ==
    /\ call.at = "sending" => CallKnown(call) /\ call.count < call.total
    /\ call.at = "returned" => CallKnown(call) \/ (call.total = 0 /\ call.count = 0 /\ ~call.ok)
    /\ call.at = "submitting" => call.count < call.total
    /\ call.at = "handled" => call.count = call.total

WireKnown ==
    /\ \A w \in wire :
           /\ w.by \in Jobs
           /\ job[w.by].at \in {"sending", "returned"}
           /\ w.part \in 1 .. job[w.by].count
           /\ w = DeliverSM(w.by, job[w.by], w.part)
    /\ \A j \in Jobs : job[j].at \in {"sending", "returned"} =>
           \A i \in 1 .. job[j].count : DeliverSM(j, job[j], i) \in wire

ReadKnown ==
    \A p \in read : p.by \in Jobs /\ job[p.by].at \in {"submitting", "handled"} /\ p.part \in 1 .. job[p.by].count

IInv ==
    /\ job \in [Jobs -> JobType]
    /\ \A j \in Jobs : JobKnown(job[j])
    /\ WireKnown
    /\ ReadKnown

\* A part depends on nothing but what is known of the call.
LEMMA SamePart ==
    ASSUME NEW j, NEW i, NEW c, NEW d, c.text = d.text, c.coding = d.coding, c.ref = d.ref, c.total = d.total
    PROVE  DeliverSM(j, c, i) = DeliverSM(j, d, i)
BY DEF DeliverSM, Piece

LEMMA TruncatedText ==
    ASSUME NEW t \in Text, Runes(t) > 0
    PROVE  /\ Truncated(t) \in Text
           /\ Runes(Truncated(t)) = Lesser(Runes(t), MaxRunes)
           /\ Runes(Truncated(t)) > 0
<1>1. Runes(t) \in Nat /\ MaxRunes \in Nat \ {0}
  BY MaxRunesAssumption DEF Text, Runes
<1>2. Lesser(Runes(t), MaxRunes) \in Nat \ {0} /\ Lesser(Runes(t), MaxRunes) <= Runes(t)
  BY <1>1 DEF Lesser
<1> QED
  BY <1>1, <1>2, SliceLength DEF Truncated

\* A client's text has parts.
LEMMA SubmittedParts ==
    ASSUME NEW t \in Text, Runes(t) > 0, NEW c \in Codings
    PROVE  PartsOf(t, c) \in Nat \ {0}
<1>1. Runes(t) \in Nat \ {0}
  BY DEF Text, Runes
<1>2. PerPart(t, c) \in {153, 76, 134, 67, 33}
  BY DEF PerPart, Width, Extension, Codings
<1> QED
  BY <1>1, <1>2 DEF PartsOf, RoundedUp

LEMMA RefsAreNumbers == \A r \in Refs : r \in Nat /\ r <= 65535
BY RefsAssumption

LEMMA EmptyTypes == Empty \in Text /\ "gsm7" \in Codings /\ "plain" \in Forms
BY DEF Empty, Text, Kinds, Basic, Codings, Forms

LEMMA Initially == Init => IInv
<1> SUFFICES ASSUME Init PROVE IInv
  OBVIOUS
<1>1. /\ NewJob \in JobType /\ NewJob.at = "new"
  BY EmptyTypes DEF NewJob, Started, JobType
<1>2. \A j \in Jobs : job[j] = NewJob
  BY DEF Init
<1> QED
  BY <1>1, <1>2 DEF Init, IInv, JobKnown, WireKnown, ReadKnown

\* A job that starts leaves the others alone, and brings no parts.
LEMMA StartStep ==
    ASSUME IInv, NEW j \in Jobs, NEW call \in JobType, job[j].at = "new",
           job' = [job EXCEPT ![j] = call], wire' = wire, read' = read,
           JobKnown(call), call.count = 0
    PROVE  IInv'
<1>1. job \in [Jobs -> JobType]
  BY DEF IInv
<1>2. job'[j] = call /\ \A k \in Jobs \ {j} : job'[k] = job[k]
  BY <1>1
<1>3. job' \in [Jobs -> JobType] /\ \A k \in Jobs : JobKnown(job'[k])
  BY <1>1, <1>2 DEF IInv
<1>4. ReadKnown'
  BY <1>2 DEF IInv, ReadKnown
<1>5. \A w \in wire : w.by # j
  BY DEF IInv, WireKnown
<1>6. WireKnown'
  BY <1>2, <1>5 DEF IInv, WireKnown
<1> QED
  BY <1>3, <1>4, <1>6 DEF IInv

LEMMA BeginSendStep == ASSUME IInv, NEW j \in Jobs, BeginSend(j) PROVE IInv'
<1> PICK t \in Contents, r \in Refs : \E c \in CodingsOf(t) :
       job' = [job EXCEPT ![j] =
                  IF Runes(t) = 0
                  THEN Started("returned", Empty, "gsm7", "plain", 0, 0)
                  ELSE Started("sending", t, c, "plain", r, SegmentCount(Truncated(t), c))]
  BY DEF BeginSend
<1> PICK c \in CodingsOf(t) :
       job' = [job EXCEPT ![j] =
                  IF Runes(t) = 0
                  THEN Started("returned", Empty, "gsm7", "plain", 0, 0)
                  ELSE Started("sending", t, c, "plain", r, SegmentCount(Truncated(t), c))]
  OBVIOUS
<1>1. t \in Text /\ c \in Codings /\ r \in Nat /\ Runes(t) \in Nat
  <2>1. t \in Text
    BY ContentsAssumption
  <2>2. r \in Nat
    BY RefsAreNumbers
  <2> QED
    BY <2>1, <2>2 DEF CodingsOf, Text, Runes
<1>2. job[j].at = "new" /\ wire' = wire /\ read' = read
  BY DEF BeginSend
<1>3. CASE Runes(t) = 0
  <2> DEFINE call == Started("returned", Empty, "gsm7", "plain", 0, 0)
  <2>1. /\ call \in JobType /\ call.at = "returned" /\ call.total = 0 /\ call.count = 0 /\ call.ok = FALSE
    BY EmptyTypes DEF Started, JobType
  <2>2. job' = [job EXCEPT ![j] = call]
    BY <1>3
  <2> HIDE DEF call
  <2>3. JobKnown(call)
    BY <2>1 DEF JobKnown
  <2> QED
    BY <1>2, <2>1, <2>2, <2>3, StartStep
<1>4. CASE Runes(t) # 0
  <2> DEFINE n    == SegmentCount(Truncated(t), c)
             call == Started("sending", t, c, "plain", r, n)
  <2>1. n \in Nat \ {0}
    BY <1>1, <1>4, TruncatedText, PartsPartition
  <2>2. job' = [job EXCEPT ![j] = call]
    BY <1>4
  <2>3. n = SegmentCount(Truncated(t), c)
    OBVIOUS
  <2> HIDE DEF n
  <2>4. /\ call \in JobType /\ call.at = "sending" /\ call.text = t /\ call.coding = c /\ call.ref = r
        /\ call.total = n /\ call.count = 0 /\ call.ok = FALSE
    BY <1>1, <2>1, EmptyTypes DEF call, Started, JobType
  <2> HIDE DEF call
  <2>5. JobKnown(call)
    BY <1>1, <1>4, <2>1, <2>3, <2>4 DEF JobKnown, CallKnown
  <2> QED
    BY <1>2, <2>2, <2>4, <2>5, StartStep
<1> QED
  BY <1>3, <1>4

LEMMA SendPartStep == ASSUME IInv, NEW j \in Jobs, SendPart(j) PROVE IInv'
<1> DEFINE i    == job[j].count + 1
           call == job'[j]
<1>1. /\ job \in [Jobs -> JobType] /\ job[j] \in JobType /\ job[j].at = "sending"
      /\ job' = [job EXCEPT ![j].count = i,
                            ![j].at = IF i = job[j].total THEN "returned" ELSE "sending",
                            ![j].ok = i = job[j].total]
      /\ wire' = wire \union {DeliverSM(j, job[j], i)}
      /\ read' = read
  BY DEF IInv, SendPart
<1>2. CallKnown(job[j]) /\ job[j].count < job[j].total
  BY <1>1 DEF IInv, JobKnown
<1>3. \A k \in Jobs \ {j} : job'[k] = job[k]
  BY <1>1
<1>4. /\ call.text = job[j].text /\ call.coding = job[j].coding /\ call.form = job[j].form
      /\ call.ref = job[j].ref /\ call.total = job[j].total
      /\ call.count = i
      /\ call.at = IF i = job[j].total THEN "returned" ELSE "sending"
      /\ call.ok = (i = job[j].total)
  BY <1>1 DEF JobType
<1>5. job[j].count \in Nat /\ job[j].total \in Nat /\ i \in Nat \ {0} /\ i <= job[j].total
  BY <1>1, <1>2 DEF JobType
<1>6. call \in JobType
  BY <1>1, <1>5 DEF JobType
<1>7. JobKnown(call)
  <2>1. call.ok <=> call.count = call.total
    BY <1>4
  <2>2. call.count <= call.total
    BY <1>4, <1>5
  <2>3. CallKnown(call)
    BY <1>2, <1>4, <2>1, <2>2, Zenon DEF CallKnown
  <2>4. call.at = "sending" => call.count < call.total
    BY <1>4, <1>5
  <2>5. call.at \in {"sending", "returned"}
    BY <1>4
  <2> QED
    BY <2>3, <2>4, <2>5 DEF JobKnown
<1>8. job' \in [Jobs -> JobType] /\ \A k \in Jobs : JobKnown(job'[k])
  BY <1>1, <1>3, <1>6, <1>7 DEF IInv
<1>9. \A n : DeliverSM(j, call, n) = DeliverSM(j, job[j], n)
  BY <1>4, SamePart
<1>10. DeliverSM(j, job[j], i).by = j /\ DeliverSM(j, job[j], i).part = i
  BY DEF DeliverSM
<1>11. ASSUME NEW w \in wire'
       PROVE  /\ w.by \in Jobs
              /\ job'[w.by].at \in {"sending", "returned"}
              /\ w.part \in 1 .. job'[w.by].count
              /\ w = DeliverSM(w.by, job'[w.by], w.part)
  <2>1. CASE w \in wire
    <3>1. /\ w.by \in Jobs /\ job[w.by].at \in {"sending", "returned"} /\ w.part \in 1 .. job[w.by].count
          /\ w = DeliverSM(w.by, job[w.by], w.part)
      BY <2>1 DEF IInv, WireKnown
    <3> QED
      BY <1>3, <1>4, <1>5, <1>9, <3>1
  <2>2. CASE w = DeliverSM(j, job[j], i)
    BY <1>4, <1>5, <1>9, <1>10, <2>2
  <2> QED
    BY <1>1, <2>1, <2>2
<1>12. ASSUME NEW k \in Jobs, job'[k].at \in {"sending", "returned"}, NEW n \in 1 .. job'[k].count
       PROVE  DeliverSM(k, job'[k], n) \in wire'
  <2>1. CASE k # j
    BY <1>1, <1>3, <1>12, <2>1 DEF IInv, WireKnown
  <2>2. CASE k = j
    <3>1. n \in 1 .. job[j].count \/ n = i
      BY <1>4, <1>5, <1>12, <2>2
    <3> QED
      BY <1>1, <1>9, <2>2, <3>1 DEF IInv, WireKnown
  <2> QED
    BY <2>1, <2>2
<1>13. ReadKnown'
  BY <1>1, <1>3 DEF IInv, ReadKnown
<1> QED
  BY <1>8, <1>11, <1>12, <1>13 DEF IInv, WireKnown

LEMMA PartFailsStep == ASSUME IInv, NEW j \in Jobs, PartFails(j) PROVE IInv'
<1> DEFINE call == job'[j]
<1>1. /\ job \in [Jobs -> JobType] /\ job[j] \in JobType /\ job[j].at = "sending"
      /\ job' = [job EXCEPT ![j].at = "returned", ![j].count = job[j].count]
      /\ wire' = wire /\ read' = read
  BY DEF IInv, PartFails, Counted
<1>2. CallKnown(job[j])
  BY <1>1 DEF IInv, JobKnown
<1>3. \A k \in Jobs \ {j} : job'[k] = job[k]
  BY <1>1
<1>4. /\ call \in JobType
      /\ call.text = job[j].text /\ call.coding = job[j].coding /\ call.ref = job[j].ref
      /\ call.total = job[j].total /\ call.count = job[j].count /\ call.ok = job[j].ok
      /\ call.at = "returned"
  BY <1>1 DEF JobType
<1>5. JobKnown(call)
  BY <1>2, <1>4 DEF JobKnown, CallKnown
<1>6. job' \in [Jobs -> JobType] /\ \A k \in Jobs : JobKnown(job'[k])
  BY <1>1, <1>3, <1>4, <1>5 DEF IInv
<1>7. \A n : DeliverSM(j, call, n) = DeliverSM(j, job[j], n)
  BY <1>4, SamePart
<1>8. WireKnown'
  BY <1>1, <1>3, <1>4, <1>7 DEF IInv, WireKnown
<1>9. ReadKnown'
  BY <1>1, <1>3 DEF IInv, ReadKnown
<1> QED
  BY <1>6, <1>8, <1>9 DEF IInv

LEMMA BeginSubmitStep == ASSUME IInv, NEW j \in Jobs, BeginSubmit(j) PROVE IInv'
<1> PICK t \in Contents, r \in Refs, f \in Forms : \E c \in CodingsOf(t) :
       Runes(t) > 0 /\ job' = [job EXCEPT ![j] = Started("submitting", t, c, f, r, PartsOf(t, c))]
  BY DEF BeginSubmit
<1> PICK c \in CodingsOf(t) :
       Runes(t) > 0 /\ job' = [job EXCEPT ![j] = Started("submitting", t, c, f, r, PartsOf(t, c))]
  OBVIOUS
<1> DEFINE n    == PartsOf(t, c)
           call == Started("submitting", t, c, f, r, n)
<1>1. t \in Text /\ c \in Codings /\ r \in Nat
  <2>1. t \in Text
    BY ContentsAssumption
  <2>2. r \in Nat
    BY RefsAreNumbers
  <2> QED
    BY <2>1, <2>2 DEF CodingsOf
<1>2. n \in Nat \ {0}
  BY <1>1, SubmittedParts
<1>3. job[j].at = "new" /\ wire' = wire /\ read' = read /\ job' = [job EXCEPT ![j] = call]
  BY DEF BeginSubmit
<1> HIDE DEF n
<1>4. call \in JobType /\ call.at = "submitting" /\ call.total = n /\ call.count = 0
  BY <1>1, <1>2 DEF Started, JobType
<1> HIDE DEF call
<1>5. JobKnown(call)
  BY <1>2, <1>4 DEF JobKnown
<1> QED
  BY <1>3, <1>4, <1>5, StartStep

LEMMA ReadPartStep == ASSUME IInv, NEW j \in Jobs, ReadPart(j) PROVE IInv'
<1> DEFINE i    == job[j].count + 1
           call == job'[j]
<1>1. /\ job \in [Jobs -> JobType] /\ job[j] \in JobType /\ job[j].at = "submitting"
      /\ job' = [job EXCEPT ![j].count = i,
                            ![j].at = IF i = job[j].total THEN "handled" ELSE "submitting"]
      /\ wire' = wire
      /\ \A p \in read' : p \in read \/ (p.by = j /\ p.part = i)
  BY DEF IInv, ReadPart
<1>2. job[j].count < job[j].total /\ job[j].count \in Nat /\ job[j].total \in Nat
  BY <1>1 DEF IInv, JobKnown, JobType
<1>3. \A k \in Jobs \ {j} : job'[k] = job[k]
  BY <1>1
<1>4. /\ call \in JobType
      /\ call.count = i /\ call.total = job[j].total
      /\ call.at = IF i = job[j].total THEN "handled" ELSE "submitting"
  <2>1. i \in Nat /\ job'[j] = [job[j] EXCEPT !.count = i, !.at = IF i = job[j].total THEN "handled" ELSE "submitting"]
    BY <1>1, <1>2
  <2> HIDE DEF i
  <2> QED
    BY <1>1, <2>1 DEF JobType
<1>5. JobKnown(call)
  BY <1>2, <1>4 DEF JobKnown
<1>6. job' \in [Jobs -> JobType] /\ \A k \in Jobs : JobKnown(job'[k])
  BY <1>1, <1>3, <1>4, <1>5 DEF IInv
<1>7. WireKnown'
  BY <1>1, <1>3, <1>4 DEF IInv, WireKnown
<1>8. ReadKnown'
  BY <1>1, <1>2, <1>3, <1>4 DEF IInv, ReadKnown
<1> QED
  BY <1>6, <1>7, <1>8 DEF IInv

-----------------------------------------------------------------------------
\* The inductive invariant holds in every reachable state.
THEOREM Invariance == Spec => []IInv
<1>1. IInv /\ [Next]_vars => IInv'
  <2> SUFFICES ASSUME IInv, [Next]_vars PROVE IInv'
    OBVIOUS
  <2>1. CASE UNCHANGED vars
    BY <2>1 DEF IInv, WireKnown, ReadKnown, vars
  <2>2. CASE Finished
    BY <2>1, <2>2 DEF Finished
  <2> QED
    BY <2>1, <2>2, BeginSendStep, SendPartStep, PartFailsStep, BeginSubmitStep, ReadPartStep DEF Next
<1> QED
  BY Initially, <1>1, PTL DEF Spec

-----------------------------------------------------------------------------
(* What the parts of a call are. *)

\* The octets of a text are a number.
LEMMA OctetsType ==
    ASSUME NEW t \in Text, NEW c \in Codings
    PROVE  Octets(t, c) \in Nat
<1>1. t.head \in Nat /\ t.tail \in Nat
  BY DEF Text
<1>2. Width("letter", c) \in {1, 2, 4} /\ Width(t.kind, c) \in {1, 2, 4}
  BY DEF Width, Extension, Codings
<1> QED
  BY <1>1, <1>2 DEF Octets

\* The piece that a part carries is a text.
LEMMA PieceType ==
    ASSUME NEW call \in JobType, CallKnown(call), NEW i \in 1 .. call.total
    PROVE  Piece(call, i) \in Text
<1> DEFINE text == Truncated(call.text)
           c    == call.coding
<1>1. call.text \in Text /\ c \in Codings /\ Runes(call.text) > 0 /\ call.total = SegmentCount(text, c)
  BY DEF JobType, CallKnown
<1>2. text \in Text /\ Runes(text) > 0
  BY <1>1, TruncatedText
<1>3. /\ From(c, i) \in Nat /\ To(text, c, i) \in Nat
      /\ 1 <= From(c, i) /\ From(c, i) <= To(text, c, i) /\ To(text, c, i) <= Runes(text)
  BY <1>1, <1>2, PartsPartition
<1>4. Piece(call, i) = Slice(text, From(c, i), To(text, c, i))
  BY DEF Piece
<1> HIDE DEF text, c
<1> QED
  BY <1>2, <1>3, <1>4, SliceLength

\* With its header a part fills at most 255 octets.
LEMMA PartFits ==
    ASSUME NEW j, NEW call \in JobType, CallKnown(call), NEW i \in 1 .. call.total,
           DeliverSM(j, call, i).udh # <<>>
    PROVE  Len(DeliverSM(j, call, i).udh) + DeliverSM(j, call, i).octets <= 255
<1> DEFINE octets == Octets(Piece(call, i), call.coding)
           udh    == DeliverSM(j, call, i).udh
<1>1. octets \in Nat
  BY PieceType, OctetsType DEF JobType
<1>2. /\ udh = IF call.total = 1 THEN <<>> ELSE UDH16(call.ref, call.total, i)
      /\ DeliverSM(j, call, i).octets = Kept(octets, call.total)
  BY DEF DeliverSM
<1>3. call.total # 1 /\ udh = UDH16(call.ref, call.total, i)
  BY <1>2
<1>4. Len(UDH16(call.ref, call.total, i)) = 7
  BY DEF UDH16
<1> HIDE DEF octets, udh
<1>5. Kept(octets, call.total) \in Nat /\ Kept(octets, call.total) <= 248
  BY <1>1, <1>3 DEF Kept, Lesser, Room
<1>6. Len(DeliverSM(j, call, i).udh) = 7
  <2>1. DeliverSM(j, call, i).udh = UDH16(call.ref, call.total, i)
    BY <1>3 DEF udh
  <2> QED
    BY <1>4, <2>1
<1>7. \A n \in Nat : n <= 248 => 7 + n <= 255
  OBVIOUS
<1> QED
  BY <1>2, <1>5, <1>6, <1>7

\* Spec keeps the types, and no part is longer than a length octet can tell.
THEOREM TypeCorrect == Spec => []TypeOK
<1>1. IInv => TypeOK
  <2> SUFFICES ASSUME IInv PROVE TypeOK
    OBVIOUS
  <2>1. job \in [Jobs -> JobType]
    BY DEF IInv
  <2>2. \A j \in Jobs : job[j].at \in {"sending", "submitting"} => job[j].count < job[j].total
    BY DEF IInv, JobKnown
  <2>3. ASSUME NEW w \in wire, w.udh # <<>>
        PROVE  Len(w.udh) + w.octets <= 255
    <3>1. /\ w.by \in Jobs /\ job[w.by].at \in {"sending", "returned"} /\ w.part \in 1 .. job[w.by].count
          /\ w = DeliverSM(w.by, job[w.by], w.part)
      BY DEF IInv, WireKnown
    <3>2. job[w.by] \in JobType /\ job[w.by].count \in Nat /\ job[w.by].total \in Nat
      BY <2>1, <3>1 DEF JobType
    <3>3. CallKnown(job[w.by])
      BY <3>1, <3>2 DEF IInv, JobKnown
    <3>4. w.part \in 1 .. job[w.by].total
      BY <3>1, <3>2, <3>3 DEF CallKnown
    <3> QED
      BY <2>3, <3>1, <3>2, <3>3, <3>4, PartFits
  <2>4. ASSUME NEW p \in read
        PROVE  p.by \in Jobs /\ p.part \in 1 .. job[p.by].total
    <3>1. p.by \in Jobs /\ job[p.by].at \in {"submitting", "handled"} /\ p.part \in 1 .. job[p.by].count
      BY DEF IInv, ReadKnown
    <3>2. job[p.by].count \in Nat /\ job[p.by].total \in Nat
      BY <2>1, <3>1 DEF JobType
    <3>3. job[p.by].count <= job[p.by].total
      BY <3>1, <3>2 DEF IInv, JobKnown
    <3> QED
      BY <3>1, <3>2, <3>3
  <2> QED
    BY <2>1, <2>2, <2>3, <2>4 DEF TypeOK
<1> QED
  BY Invariance, <1>1, PTL

\* The number returned is the number of parts queued, and they are the first ones.
THEOREM SentAreQueued == Spec => []SentIsQueued
<1>1. IInv => SentIsQueued
  <2> SUFFICES ASSUME IInv, NEW j \in Jobs, job[j].at \in {"sending", "returned"}
               PROVE  LET mine == {w \in wire : w.by = j}
                      IN  /\ {w.part : w \in mine} = 1 .. job[j].count
                          /\ \A v, w \in mine : v.part = w.part => v = w
                          /\ job[j].ok <=> job[j].count = job[j].total /\ job[j].count > 0
    BY DEF SentIsQueued
  <2> DEFINE mine == {w \in wire : w.by = j}
  <2>1. job[j] \in JobType /\ job[j].count \in Nat /\ job[j].total \in Nat
    BY DEF IInv, JobType
  <2>2. \A w \in mine : w.part \in 1 .. job[j].count /\ w = DeliverSM(j, job[j], w.part)
    BY DEF IInv, WireKnown
  <2>3. ASSUME NEW i \in 1 .. job[j].count
        PROVE  \E w \in mine : w.part = i
    <3>1. DeliverSM(j, job[j], i) \in wire
      BY DEF IInv, WireKnown
    <3>2. DeliverSM(j, job[j], i).by = j /\ DeliverSM(j, job[j], i).part = i
      BY DEF DeliverSM
    <3> QED
      BY <3>1, <3>2
  <2>4. {w.part : w \in mine} = 1 .. job[j].count
    <3> HIDE DEF mine
    <3> QED
      BY <2>2, <2>3
  <2>5. job[j].ok <=> job[j].count = job[j].total /\ job[j].count > 0
    BY <2>1 DEF IInv, JobKnown, CallKnown
  <2> QED
    BY <2>2, <2>4, <2>5
<1> QED
  BY Invariance, <1>1, PTL

-----------------------------------------------------------------------------
(* What a receiver puts together. *)

\* A text within the limit of 255 parts of 67 characters has at most 255 parts.
LEMMA FewParts ==
    ASSUME NEW t \in Text, Runes(t) > 0, Runes(t) <= 17085, NEW c \in Codings
    PROVE  SegmentCount(t, c) <= 255
<1>1. Runes(t) \in Nat \ {0}
  BY DEF Text, Runes
<1>2. CASE Runes(t) <= MaxLen(c)
  BY <1>2 DEF SegmentCount
<1>3. CASE ~(Runes(t) <= MaxLen(c))
  <2> DEFINE n == Runes(t)
             k == RoundedUp(n, MaxMultiLen(c))
  <2>1. SegmentCount(t, c) = k
    BY <1>3 DEF SegmentCount
  <2>2. k \in Nat \ {0} /\ (k - 1) * MaxMultiLen(c) < n
    BY <1>1, RoundedUpBounds
  <2>3. MaxMultiLen(c) \in {153, 67, 134}
    BY DEF MaxMultiLen
  <2>4. n \in Nat /\ n <= 17085
    BY <1>1
  <2> HIDE DEF n, k
  <2>5. \A m \in {153, 67, 134} : (k - 1) * m < n => k <= 255
    BY <2>2, <2>4
  <2> QED
    BY <2>1, <2>2, <2>3, <2>5
<1> QED
  BY <1>2, <1>3

\* Without characters after the letters, a slice has none.
LEMMA SliceOfLetters ==
    ASSUME NEW t \in Text, NEW a \in Int, NEW b \in Int, 1 <= a, a <= b + 1, b <= Runes(t), t.tail = 0
    PROVE  Slice(t, a, b).tail = 0
<1>1. t.head \in Nat /\ t.tail = 0 /\ Runes(t) = t.head
  BY DEF Text, Runes
<1>2. Lesser(b, t.head) = b /\ Lesser(a - 1, t.head) = a - 1
  BY <1>1 DEF Lesser
<1> QED
  BY <1>1, <1>2 DEF Slice

\* In a coding fit for it, without the characters of two units, a part of several
\* is not cut.
LEMMA PartKept ==
    ASSUME NEW t \in Text, NEW c \in {"gsm7", "latin1", "ucs2"}, Runes(t) <= MaxMultiLen(c),
           c = "gsm7" => t.tail = 0 \/ t.kind \in Basic, t.kind # "emoji"
    PROVE  Octets(t, c) <= 248
<1>1. t.head \in Nat /\ t.tail \in Nat /\ t.kind \in Kinds /\ Runes(t) = t.head + t.tail
  BY DEF Text, Runes
<1>2. CASE c = "gsm7"
  <2>1. t.head + t.tail <= 153
    BY <1>1, <1>2 DEF MaxMultiLen
  <2>2. Octets(t, c) = t.head * 1 + t.tail * Width(t.kind, c)
    BY <1>2 DEF Octets, Width, Extension
  <2>3. t.tail * Width(t.kind, c) = t.tail
    <3>1. CASE t.tail = 0
      <4>1. Width(t.kind, c) \in {1, 2}
        BY <1>2 DEF Width, Extension
      <4> QED
        BY <3>1, <4>1
    <3>2. CASE t.kind \in Basic
      <4>1. Width(t.kind, c) = 1
        BY <1>2, <3>2 DEF Width, Basic, Extension
      <4> QED
        BY <1>1, <4>1
    <3> QED
      BY <1>2, <3>1, <3>2
  <2> QED
    BY <1>1, <2>1, <2>2, <2>3
<1>3. CASE c = "latin1"
  <2>1. t.head + t.tail <= 134
    BY <1>1, <1>3 DEF MaxMultiLen
  <2>2. Octets(t, c) = t.head * 1 + t.tail * 1
    BY <1>3 DEF Octets, Width, Extension
  <2> QED
    BY <1>1, <2>1, <2>2
<1>4. CASE c = "ucs2"
  <2>1. t.head + t.tail <= 67
    BY <1>1, <1>4 DEF MaxMultiLen
  <2>2. Octets(t, c) = t.head * 2 + t.tail * 2
    BY <1>4 DEF Octets, Width, Extension
  <2> QED
    BY <1>1, <2>1, <2>2
<1> QED
  BY <1>2, <1>3, <1>4

\* The coding that SendDeliverSMText chooses for a text is fit for its parts.
LEMMA PieceKept ==
    ASSUME NEW call \in JobType, CallKnown(call), call.total > 1, NEW i \in 1 .. call.total,
           call.coding = DetermineEncoding(call.text), call.text.kind # "emoji"
    PROVE  Octets(Piece(call, i), call.coding) <= 248
<1> DEFINE text  == Truncated(call.text)
           c     == call.coding
           first == From(c, i)
           last  == To(text, c, i)
<1>1. /\ call.text \in Text /\ c \in Codings /\ Runes(call.text) > 0 /\ call.total = SegmentCount(text, c)
      /\ MaxRunes \in Nat \ {0}
  BY MaxRunesAssumption DEF JobType, CallKnown
<1>2. text \in Text /\ Runes(text) > 0
  BY <1>1, TruncatedText
<1>3. /\ first \in Nat /\ last \in Nat
      /\ 1 <= first /\ first <= last /\ last <= Runes(text)
      /\ last - first + 1 <= MaxMultiLen(c)
  BY <1>1, <1>2, PartsPartition
<1>4. /\ Piece(call, i) = Slice(text, first, last)
      /\ text = Slice(call.text, 1, Lesser(Runes(call.text), MaxRunes))
  BY DEF Piece, Truncated
<1>5. text.kind = call.text.kind /\ Slice(text, first, last).kind = call.text.kind
  BY DEF Slice, Truncated
<1>6. c \in {"gsm7", "latin1", "ucs2"} /\ (c = "gsm7" => call.text.tail = 0 \/ call.text.kind \in Basic)
  BY DEF DetermineEncoding
<1>7. call.text.tail = 0 => text.tail = 0
  <2>1. Runes(call.text) \in Nat \ {0}
    BY <1>1 DEF Text, Runes
  <2>2. /\ Lesser(Runes(call.text), MaxRunes) \in Nat
        /\ 1 <= Lesser(Runes(call.text), MaxRunes)
        /\ Lesser(Runes(call.text), MaxRunes) <= Runes(call.text)
    BY <1>1, <2>1 DEF Lesser
  <2> QED
    BY <1>1, <1>4, <2>2, SliceOfLetters
<1> HIDE DEF text, first, last
<1>8. text.tail = 0 => Slice(text, first, last).tail = 0
  BY <1>2, <1>3, SliceOfLetters
<1>9. /\ Slice(text, first, last) \in Text
      /\ Runes(Slice(text, first, last)) = last - first + 1
  BY <1>2, <1>3, SliceLength
<1> QED
  BY <1>3, <1>4, <1>5, <1>6, <1>7, <1>8, <1>9, PartKept

\* The parts a receiver puts together for a call are the ones of that call: no other
\* shares its reference and total, and every header is read back as written.
LEMMA TogetherAreMine ==
    ASSUME MaxRunes <= 17085, IInv, NEW j \in Jobs, job[j].at = "returned", job[j].ok,
           job[j].total > 1, Alone(j)
    PROVE  /\ CallKnown(job[j]) /\ job[j].count = job[j].total /\ job[j].total <= 255
           /\ Together(j) = {DeliverSM(j, job[j], i) : i \in 1 .. job[j].total}
           /\ \A i \in 1 .. job[j].total : Header(DeliverSM(j, job[j], i)).seq = i
<1>1. \A k \in Jobs : job[k] \in JobType
  BY DEF IInv
<1>2. ASSUME NEW k \in Jobs, CallKnown(job[k])
      PROVE  job[k].total \in Nat /\ job[k].total <= 255 /\ job[k].ref \in Nat
  <2>1. /\ job[k].text \in Text /\ job[k].coding \in Codings /\ job[k].total \in Nat
        /\ Runes(job[k].text) > 0
        /\ job[k].total = SegmentCount(Truncated(job[k].text), job[k].coding)
    BY <1>1, <1>2 DEF JobType, CallKnown
  <2>2. Runes(job[k].text) \in Nat /\ MaxRunes \in Nat
    BY <2>1, MaxRunesAssumption DEF Text, Runes
  <2>3. Truncated(job[k].text) \in Text /\ Runes(Truncated(job[k].text)) > 0
    BY <2>1, TruncatedText
  <2>4. Runes(Truncated(job[k].text)) <= 17085
    BY <2>1, <2>2, TruncatedText DEF Lesser
  <2> QED
    BY <1>1, <2>1, <2>3, <2>4, FewParts DEF JobType
<1>3. ASSUME NEW k \in Jobs, CallKnown(job[k]), job[k].total # 1, NEW i \in 1 .. job[k].total
      PROVE  /\ DeliverSM(k, job[k], i).udh # <<>>
             /\ Header(DeliverSM(k, job[k], i)) = [ref |-> job[k].ref, total |-> job[k].total, seq |-> i]
  <2>1. DeliverSM(k, job[k], i).udh = UDH16(job[k].ref, job[k].total, i)
    BY <1>3 DEF DeliverSM
  <2>2. job[k].total \in Nat /\ job[k].total <= 255 /\ job[k].ref \in Nat
    BY <1>2, <1>3
  <2>3. job[k].total \in Int /\ i \in Int /\ 1 <= i /\ i <= job[k].total
    BY <2>2
  <2> QED
    BY <2>1, <2>2, <2>3, HeaderReadBack DEF Header
<1>4. CallKnown(job[j]) /\ job[j].count = job[j].total
  BY DEF IInv, JobKnown, CallKnown
<1>5. ASSUME NEW w \in Together(j)
      PROVE  \E i \in 1 .. job[j].total : w = DeliverSM(j, job[j], i)
  <2> DEFINE k == w.by
             i == w.part
  <2>1. /\ w \in wire /\ w.udh # <<>>
        /\ Header(w).ref = job[j].ref /\ Header(w).total = job[j].total
    BY DEF Together
  <2>2. /\ k \in Jobs /\ job[k].at \in {"sending", "returned"} /\ i \in 1 .. job[k].count
        /\ w = DeliverSM(k, job[k], i)
    BY <2>1 DEF IInv, WireKnown
  <2> HIDE DEF k, i
  <2>3. job[k].count \in Nat /\ job[k].total \in Nat
    BY <1>1, <2>2 DEF JobType
  <2>4. CallKnown(job[k])
    BY <2>2, <2>3 DEF IInv, JobKnown
  <2>5. i \in 1 .. job[k].total
    BY <2>2, <2>3, <2>4 DEF CallKnown
  <2>6. job[k].total # 1
    BY <2>1, <2>2 DEF DeliverSM
  <2>7. Header(w) = [ref |-> job[k].ref, total |-> job[k].total, seq |-> i]
    BY <1>3, <2>2, <2>4, <2>5, <2>6
  <2>8. k = j
    BY <2>1, <2>2, <2>7 DEF Alone
  <2> QED
    BY <2>2, <2>5, <2>8
<1>6. ASSUME NEW i \in 1 .. job[j].total
      PROVE  DeliverSM(j, job[j], i) \in Together(j) /\ Header(DeliverSM(j, job[j], i)).seq = i
  <2>1. DeliverSM(j, job[j], i) \in wire
    BY <1>4 DEF IInv, WireKnown
  <2>2. job[j].total # 1
    BY <1>2, <1>4
  <2>3. /\ DeliverSM(j, job[j], i).udh # <<>>
        /\ Header(DeliverSM(j, job[j], i)) = [ref |-> job[j].ref, total |-> job[j].total, seq |-> i]
    BY <1>3, <1>4, <2>2
  <2>4. /\ Header(DeliverSM(j, job[j], i)).ref = job[j].ref
        /\ Header(DeliverSM(j, job[j], i)).total = job[j].total
        /\ Header(DeliverSM(j, job[j], i)).seq = i
    BY <2>3
  <2> QED
    BY <2>1, <2>3, <2>4 DEF Together
<1> QED
  BY <1>2, <1>4, <1>5, <1>6

\* A text that was sent is put together whole by its receiver, for any limit that
\* keeps the total in its octet (17085 is 255 parts of 67 characters).
THEOREM TextsArrive == ASSUME MaxRunes <= 17085 PROVE Spec => []TextArrives
<1>1. IInv => TextArrives
  <2> SUFFICES ASSUME IInv, NEW j \in Jobs, job[j].at = "returned", job[j].ok, job[j].total > 1, Alone(j)
               PROVE  /\ \A i \in 1 .. job[j].total : \E w \in Together(j) :
                             /\ {v \in Together(j) : Header(v).seq = i} = {w}
                             /\ i = 1 => w.from = 1
                             /\ i = job[j].total => w.to = Lesser(Runes(job[j].text), MaxRunes)
                             /\ \A v \in Together(j) : Header(v).seq = i + 1 => v.from = w.to + 1
                      /\ job[j].coding = DetermineEncoding(job[j].text) /\ job[j].text.kind # "emoji" =>
                             \A w \in Together(j) : w.lost = 0
    BY DEF TextArrives
  <2> DEFINE call == job[j]
             n    == job[j].total
             c    == job[j].coding
             text == Truncated(job[j].text)
             Part(i) == DeliverSM(j, job[j], i)
  <2>1. /\ CallKnown(call) /\ Together(j) = {Part(i) : i \in 1 .. n}
        /\ \A i \in 1 .. n : Header(Part(i)).seq = i
    BY TogetherAreMine
  <2>2. call \in JobType /\ n \in Nat /\ c \in Codings /\ call.text \in Text /\ Runes(call.text) > 0
        /\ n = SegmentCount(text, c)
    BY <2>1 DEF IInv, JobType, CallKnown
  <2>3. text \in Text /\ Runes(text) > 0 /\ Runes(text) = Lesser(Runes(call.text), MaxRunes)
    BY <2>2, TruncatedText
  <2>4. /\ From(c, 1) = 1 /\ To(text, c, n) = Runes(text)
        /\ \A i \in 1 .. n : i < n => From(c, i + 1) = To(text, c, i) + 1
    BY <2>2, <2>3, PartsPartition
  <2>5. \A i : Part(i).from = From(c, i) /\ Part(i).to = To(text, c, i)
    BY DEF DeliverSM
  <2>6. ASSUME call.coding = DetermineEncoding(call.text), call.text.kind # "emoji", NEW i \in 1 .. n
        PROVE  Part(i).lost = 0
    <3> DEFINE octets == Octets(Piece(call, i), c)
    <3>1. octets <= 248
      BY <2>1, <2>2, <2>6, PieceKept
    <3>2. octets \in Nat
      BY <2>1, <2>2, PieceType, OctetsType
    <3>3. Part(i).lost = octets - Kept(octets, n)
      BY DEF DeliverSM
    <3> HIDE DEF octets
    <3>4. Kept(octets, n) = octets
      BY <3>1, <3>2 DEF Kept, Lesser, Room
    <3> QED
      BY <3>2, <3>3, <3>4
  <2> HIDE DEF text, Part
  <2>7. ASSUME NEW i \in 1 .. n
        PROVE  \E w \in Together(j) :
                   /\ {v \in Together(j) : Header(v).seq = i} = {w}
                   /\ i = 1 => w.from = 1
                   /\ i = n => w.to = Lesser(Runes(call.text), MaxRunes)
                   /\ \A v \in Together(j) : Header(v).seq = i + 1 => v.from = w.to + 1
    <3>1. Part(i) \in Together(j)
      BY <2>1
    <3>2. {v \in Together(j) : Header(v).seq = i} = {Part(i)}
      BY <2>1
    <3>3. /\ i = 1 => Part(i).from = 1
          /\ i = n => Part(i).to = Lesser(Runes(call.text), MaxRunes)
      BY <2>3, <2>4, <2>5
    <3>4. ASSUME NEW v \in Together(j), Header(v).seq = i + 1
          PROVE  v.from = Part(i).to + 1
      <4>1. PICK m \in 1 .. n : v = Part(m)
        BY <2>1
      <4>2. m = i + 1
        BY <2>1, <3>4, <4>1
      <4> QED
        BY <2>2, <2>4, <2>5, <4>1, <4>2
    <3> QED
      BY <3>1, <3>2, <3>3, <3>4
  <2>8. ASSUME c = DetermineEncoding(call.text), call.text.kind # "emoji", NEW w \in Together(j)
        PROVE  w.lost = 0
    <3>1. PICK i \in 1 .. n : w = Part(i)
      BY <2>1
    <3> QED
      BY <2>6, <2>8, <3>1
  <2> QED
    BY <2>7, <2>8
<1> QED
  BY Invariance, <1>1, PTL

-----------------------------------------------------------------------------
(* Submitted texts.  A client numbers its parts in one octet, in every form, so it *)
(* has no text of more parts than that.                                            *)
NumberedByOctets == \A t \in Contents : \A c \in CodingsOf(t) : PartsOf(t, c) <= 255

\* A header of the 8-bit form is read back with the low byte of the reference.
LEMMA ShortReadBack ==
    ASSUME NEW a \in Int, NEW total \in Int, NEW seq \in Int, 1 <= seq, seq <= total
    PROVE  ParseUDH(<<5, 0, 3, a, total, seq>>) = [ref |-> a, total |-> total, seq |-> seq]
<1> DEFINE u == <<5, 0, 3, a, total, seq>>
           segment == [ref |-> u[4], total |-> u[5], seq |-> u[6]]
<1>1. /\ u \in Seq(Int) /\ Len(u) = 6
      /\ u[1] = 5 /\ u[2] = 0 /\ u[3] = 3 /\ u[4] = a /\ u[5] = total /\ u[6] = seq
  OBVIOUS
<1> HIDE DEF u
<1>2. SubSeq(u, 1, 3) = <<5, 0, 3>>
  <2>1. /\ SubSeq(u, 1, 3) \in Seq(Int) /\ Len(SubSeq(u, 1, 3)) = 3
        /\ SubSeq(u, 1, 3)[1] = 5 /\ SubSeq(u, 1, 3)[2] = 0 /\ SubSeq(u, 1, 3)[3] = 3
    BY <1>1
  <2> SUFFICES ASSUME NEW v \in Seq(Int), Len(v) = 3, v[1] = 5, v[2] = 0, v[3] = 3
               PROVE  v = <<5, 0, 3>>
    BY <2>1
  <2> QED
    OBVIOUS
<1>3. <<5, 0, 3>> # <<6, 8, 4>>
  OBVIOUS
<1>4. ParseUDH(u) = IF segment.seq = 0 \/ segment.seq > segment.total THEN NoSegment ELSE segment
  BY <1>1, <1>2, <1>3 DEF ParseUDH
<1>5. segment = [ref |-> a, total |-> total, seq |-> seq]
  BY <1>1
<1> QED
  BY <1>4, <1>5 DEF u

LEMMA OctetRange ==
    ASSUME NEW n \in Nat
    PROVE  n % 256 \in Nat /\ n % 256 <= 255 /\ (n % 256) % 256 = n % 256
OBVIOUS

\* parseSubmitSM reads what the client wrote, in each of the five forms.
LEMMA NumbersRead ==
    ASSUME NEW f \in Segmented, NEW ref \in Nat, NEW total \in Int, NEW i \in Int,
           1 < total, total <= 255, 1 <= i, i <= total
    PROVE  SegmentOf(Submit(f, ref, total, i)) = [ref |-> ref % 256, total |-> total, seq |-> i]
<1> DEFINE pdu == Submit(f, ref, total, i)
           low == ref % 256
           high == ref \div 256
<1>1. total % 256 = total /\ i % 256 = i
  BY SmallOctet
<1>2. low \in Nat /\ low <= 255 /\ low % 256 = low /\ high \in Int /\ high * 256 + low = ref
  BY OctetRange, OctetsAreNumbers, OctetsJoin
<1>3. f \in {"sar", "udh8", "udh16", "payload8", "payload16"}
  BY DEF Segmented, Forms
<1>4. CASE f = "sar"
  <2>1. pdu.sar = <<ref, total, i>>
    BY <1>4 DEF Submit
  <2>2. <<ref, total, i>> # <<>>
    OBVIOUS
  <2>3. pdu.sar # <<>> /\ pdu.sar[1] = ref /\ pdu.sar[2] = total /\ pdu.sar[3] = i
    BY <2>1, <2>2
  <2> HIDE DEF pdu
  <2>4. SegmentOf(pdu) = [ref |-> ref % 256, total |-> total % 256, seq |-> i % 256]
    BY <2>3, Zenon DEF SegmentOf, LowByte
  <2> QED
    BY <2>4, <1>1 DEF pdu
<1>5. ASSUME f # "sar"
      PROVE  /\ pdu.sar = <<>>
             /\ pdu.payload <=> f \in {"payload8", "payload16"}
  BY <1>3, <1>5 DEF Submit
<1>6. [ref |-> low, total |-> total, seq |-> i] # NoSegment
  BY DEF NoSegment
<1>7. ASSUME f # "sar", ElementSegment(pdu.element) = [ref |-> low, total |-> total, seq |-> i]
      PROVE  SegmentOf(pdu) = [ref |-> low, total |-> total, seq |-> i]
  <2> HIDE DEF pdu, low
  <2> QED
    BY <1>5, <1>6, <1>7, Zenon DEF SegmentOf
<1>8. CASE f = "udh8"
  <2>1. pdu.element = <<0, low, total, i>>
    BY <1>8 DEF Submit
  <2>2. /\ Len(pdu.element) = 4 /\ pdu.element[2] = low /\ pdu.element[3] = total /\ pdu.element[4] = i
    BY <2>1
  <2> HIDE DEF pdu, low
  <2>3. ElementSegment(pdu.element) = [ref |-> low, total |-> total, seq |-> i]
    BY <2>2 DEF ElementSegment
  <2> QED
    BY <1>7, <1>8, <2>3 DEF pdu, low
<1>9. CASE f = "udh16"
  <2>1. pdu.element = <<8, high, low, total, i>>
    BY <1>9 DEF Submit
  <2>2. /\ Len(pdu.element) = 5 /\ pdu.element[3] = low /\ pdu.element[4] = total /\ pdu.element[5] = i
    BY <2>1
  <2> HIDE DEF pdu, low
  <2>3. ElementSegment(pdu.element) = [ref |-> low, total |-> total, seq |-> i]
    BY <2>2 DEF ElementSegment
  <2> QED
    BY <1>7, <1>9, <2>3 DEF pdu, low
<1>10. ASSUME f \in {"payload8", "payload16"}, NEW r \in Int, r % 256 = low,
              ParseUDH(pdu.begins) = [ref |-> r, total |-> total, seq |-> i]
       PROVE  SegmentOf(pdu) = [ref |-> low, total |-> total, seq |-> i]
  <2>1. pdu.element = <<>>
    BY <1>10 DEF Submit
  <2>2. ElementSegment(pdu.element) = NoSegment
    BY <2>1 DEF ElementSegment, NoSegment
  <2> DEFINE inside == ParseUDH(pdu.begins)
  <2>3. inside.total > 1 /\ inside.ref = r
    BY <1>10
  <2>4. [inside EXCEPT !.ref = low] = [ref |-> low, total |-> total, seq |-> i]
    BY <1>10
  <2>5. pdu.sar = <<>> /\ pdu.payload
    BY <1>5, <1>10
  <2>6. LowByte(inside.ref) = low
    BY <2>3, <1>10 DEF LowByte
  <2> HIDE DEF pdu, low
  <2>7. SegmentOf(pdu) = [inside EXCEPT !.ref = LowByte(inside.ref)]
    BY <2>2, <2>3, <2>5, Zenon DEF SegmentOf
  <2> QED
    BY <2>4, <2>6, <2>7
<1>11. CASE f = "payload8"
  <2>1. pdu.begins = UDH8(ref, total, i)
    BY <1>11 DEF Submit
  <2>2. UDH8(ref, total, i) = <<5, 0, 3, low, total, i>>
    BY <1>1, Zenon DEF UDH8
  <2> HIDE DEF pdu, low
  <2>3. ParseUDH(pdu.begins) = [ref |-> low, total |-> total, seq |-> i]
    BY <1>2, <2>1, <2>2, ShortReadBack
  <2>4. low \in Int /\ low % 256 = low
    BY <1>2
  <2>5. SegmentOf(pdu) = [ref |-> low, total |-> total, seq |-> i]
    BY <1>10, <1>11, <2>3, <2>4, Zenon
  <2> QED
    BY <2>5 DEF pdu, low
<1>12. CASE f = "payload16"
  <2>1. pdu.begins = UDH16(ref, total, i)
    BY <1>12 DEF Submit
  <2>2. ParseUDH(pdu.begins) = [ref |-> ref, total |-> total, seq |-> i]
    BY <2>1, HeaderReadBack
  <2> HIDE DEF pdu, low
  <2>3. ref \in Int /\ ref % 256 = low
    BY DEF low
  <2>4. SegmentOf(pdu) = [ref |-> low, total |-> total, seq |-> i]
    BY <1>10, <1>12, <2>2, <2>3, Zenon
  <2> QED
    BY <2>4 DEF pdu, low
<1> QED
  BY <1>3, <1>4, <1>8, <1>9, <1>11, <1>12

-----------------------------------------------------------------------------
(***************************************************************************)
(* What is known of a client's text: how the client numbered it, and that  *)
(* its count names the parts read, each with the segment of what the       *)
(* client wrote.                                                           *)
(***************************************************************************)
SubmitKnown(call) ==
    /\ call.text \in Contents /\ Runes(call.text) > 0
    /\ call.coding \in CodingsOf(call.text) /\ Encodable(call.text, call.coding)
    /\ call.ref \in Refs /\ call.form \in Forms
    /\ FitsInOne(call.text, call.coding) <=> call.form \notin Segmented
    /\ call.total = PartsOf(call.text, call.coding)

Submitting(j) == job[j].at \in {"submitting", "handled"}

SubmitsKnown ==
    /\ \A j \in Jobs : Submitting(j) => SubmitKnown(job[j])
    /\ \A p \in read : p.segment = SegmentOf(Submit(job[p.by].form, job[p.by].ref, job[p.by].total, p.part))
    /\ \A j \in Jobs : Submitting(j) =>
           \A i \in 1 .. job[j].count : \E p \in read : p.by = j /\ p.part = i

\* A step that reads no part changes nothing that is known of a client's text.
LEMMA SubmitsFrame ==
    ASSUME IInv, SubmitsKnown, NEW j \in Jobs, read' = read,
           \A k \in Jobs \ {j} : job'[k] = job[k],
           ~Submitting(j),
           Submitting(j)' => SubmitKnown(job'[j]) /\ job'[j].count = 0
    PROVE  SubmitsKnown'
<1>1. \A p \in read : p.by \in Jobs \ {j}
  BY DEF IInv, ReadKnown, Submitting
<1>2. \A k \in Jobs \ {j} : Submitting(k)' <=> Submitting(k)
  BY DEF Submitting
<1>3. \A k \in Jobs : Submitting(k)' => SubmitKnown(job'[k])
  BY <1>2 DEF SubmitsKnown
<1>4. \A p \in read' : p.segment = SegmentOf(Submit(job'[p.by].form, job'[p.by].ref, job'[p.by].total, p.part))
  BY <1>1 DEF SubmitsKnown
<1>5. ASSUME NEW k \in Jobs, Submitting(k)', NEW i \in 1 .. job'[k].count
      PROVE  \E p \in read' : p.by = k /\ p.part = i
  <2>1. CASE k = j
    BY <1>5, <2>1
  <2>2. CASE k # j
    BY <1>2, <1>5, <2>2 DEF SubmitsKnown
  <2> QED
    BY <2>1, <2>2
<1> QED
  BY <1>3, <1>4, <1>5 DEF SubmitsKnown, SubmitKnown

LEMMA ReadPartKnown == ASSUME IInv, SubmitsKnown, NEW j \in Jobs, ReadPart(j) PROVE SubmitsKnown'
<1> DEFINE i == job[j].count + 1
           n == [by |-> j, part |-> i,
                 segment |-> SegmentOf(Submit(job[j].form, job[j].ref, job[j].total, i))]
<1>1. /\ job \in [Jobs -> JobType] /\ job[j].at = "submitting"
      /\ job' = [job EXCEPT ![j].count = i,
                            ![j].at = IF i = job[j].total THEN "handled" ELSE "submitting"]
      /\ read' = read \union {n}
  BY DEF IInv, ReadPart
<1>2. n.by = j /\ n.part = i /\ n.segment = SegmentOf(Submit(job[j].form, job[j].ref, job[j].total, i))
  OBVIOUS
<1>3. \A k \in Jobs \ {j} : job'[k] = job[k]
  BY <1>1
<1>4. job[j] \in JobType /\ job[j].count \in Nat
  BY <1>1 DEF JobType
<1>5. /\ job'[j].count = i
      /\ job'[j].at \in {"submitting", "handled"}
      /\ job'[j].text = job[j].text /\ job'[j].coding = job[j].coding /\ job'[j].form = job[j].form
      /\ job'[j].ref = job[j].ref /\ job'[j].total = job[j].total
  <2> HIDE DEF i, n
  <2>1. job'[j] = [job[j] EXCEPT !.count = i, !.at = IF i = job[j].total THEN "handled" ELSE "submitting"]
    BY <1>1
  <2> QED
    BY <1>4, <2>1 DEF JobType
<1>6. Submitting(j) /\ \A k \in Jobs : Submitting(k)' <=> Submitting(k)
  BY <1>1, <1>3, <1>5 DEF Submitting
<1> HIDE DEF n
<1>7. \A k \in Jobs : Submitting(k)' => SubmitKnown(job'[k])
  <2>1. SubmitKnown(job[j])
    BY <1>6 DEF SubmitsKnown
  <2>2. SubmitKnown(job'[j])
    BY <1>5, <2>1 DEF SubmitKnown
  <2> QED
    BY <1>3, <1>6, <2>2 DEF SubmitsKnown
<1>8. ASSUME NEW p \in read'
      PROVE  p.segment = SegmentOf(Submit(job'[p.by].form, job'[p.by].ref, job'[p.by].total, p.part))
  <2>1. CASE p = n
    BY <1>2, <1>5, <2>1
  <2>2. CASE p \in read
    <3>1. p.by \in Jobs /\ p.segment = SegmentOf(Submit(job[p.by].form, job[p.by].ref, job[p.by].total, p.part))
      BY <2>2 DEF IInv, ReadKnown, SubmitsKnown
    <3>2. job'[p.by].form = job[p.by].form /\ job'[p.by].ref = job[p.by].ref /\ job'[p.by].total = job[p.by].total
      BY <1>3, <1>5, <3>1
    <3> QED
      BY <3>1, <3>2
  <2> QED
    BY <1>1, <1>8, <2>1, <2>2
<1>9. ASSUME NEW k \in Jobs, Submitting(k)', NEW m \in 1 .. job'[k].count
      PROVE  \E p \in read' : p.by = k /\ p.part = m
  <2>1. CASE k = j /\ m = i
    BY <1>1, <1>2, <2>1
  <2>2. CASE k = j /\ m # i
    <3>1. m \in 1 .. job[j].count
      BY <1>4, <1>5, <1>9, <2>2
    <3>2. \E p \in read : p.by = j /\ p.part = m
      BY <1>6, <3>1 DEF SubmitsKnown
    <3> QED
      BY <1>1, <2>2, <3>2
  <2>3. CASE k # j
    <3>1. \E p \in read : p.by = k /\ p.part = m
      BY <1>3, <1>6, <1>9, <2>3 DEF SubmitsKnown
    <3> QED
      BY <1>1, <3>1
  <2> QED
    BY <2>1, <2>2, <2>3
<1> QED
  BY <1>7, <1>8, <1>9 DEF SubmitsKnown, SubmitKnown

LEMMA SubmitsInvariance == Spec => []SubmitsKnown
<1>1. Init => SubmitsKnown
  BY DEF Init, NewJob, Started, SubmitsKnown, Submitting
<1>2. IInv /\ SubmitsKnown /\ [Next]_vars => SubmitsKnown'
  <2> SUFFICES ASSUME IInv, SubmitsKnown, [Next]_vars PROVE SubmitsKnown'
    OBVIOUS
  <2>1. CASE UNCHANGED vars
    BY <2>1 DEF SubmitsKnown, Submitting, SubmitKnown, vars
  <2>2. CASE Finished
    BY <2>1, <2>2 DEF Finished
  <2>3. ASSUME NEW j \in Jobs, BeginSend(j) \/ SendPart(j) \/ PartFails(j)
        PROVE  SubmitsKnown'
    <3>1. /\ read' = read /\ ~Submitting(j)
          /\ \A k \in Jobs \ {j} : job'[k] = job[k]
      BY <2>3 DEF IInv, BeginSend, SendPart, PartFails, Submitting
    <3>2. ~Submitting(j)'
      <4>1. job \in [Jobs -> JobType]
        BY DEF IInv
      <4>2. CASE BeginSend(j)
        BY <4>1, <4>2 DEF BeginSend, Started, Submitting
      <4>3. CASE SendPart(j)
        BY <4>1, <4>3 DEF SendPart, JobType, Submitting
      <4>4. CASE PartFails(j)
        BY <4>1, <4>4 DEF PartFails, JobType, Submitting
      <4> QED
        BY <2>3, <4>2, <4>3, <4>4
    <3> QED
      BY <3>1, <3>2, SubmitsFrame
  <2>4. ASSUME NEW j \in Jobs, BeginSubmit(j)
        PROVE  SubmitsKnown'
    <3>1. PICK t \in Contents, r \in Refs, f \in Forms : \E c \in CodingsOf(t) :
             /\ Runes(t) > 0 /\ Encodable(t, c)
             /\ FitsInOne(t, c) <=> f \notin Segmented
             /\ job' = [job EXCEPT ![j] = Started("submitting", t, c, f, r, PartsOf(t, c))]
      BY <2>4 DEF BeginSubmit
    <3>2. PICK c \in CodingsOf(t) :
             /\ Runes(t) > 0 /\ Encodable(t, c)
             /\ FitsInOne(t, c) <=> f \notin Segmented
             /\ job' = [job EXCEPT ![j] = Started("submitting", t, c, f, r, PartsOf(t, c))]
      BY <3>1
    <3>3. /\ read' = read /\ ~Submitting(j)
          /\ job'[j] = Started("submitting", t, c, f, r, PartsOf(t, c))
          /\ \A k \in Jobs \ {j} : job'[k] = job[k]
      BY <2>4, <3>2 DEF IInv, BeginSubmit, Submitting
    <3>4. SubmitKnown(job'[j]) /\ job'[j].count = 0
      BY <3>2, <3>3 DEF SubmitKnown, Started
    <3> QED
      BY <3>3, <3>4, SubmitsFrame
  <2> QED
    BY <2>1, <2>2, <2>3, <2>4, ReadPartKnown DEF Next
<1> QED
  BY Invariance, <1>1, <1>2, PTL DEF Spec

-----------------------------------------------------------------------------
(* Decoding, and the count in the receipt. *)

Extended(t, c) == c = "gsm7" /\ t.kind \in Extension
Below(t, c) == c = "gsm7" \/ (c = "ucs2" /\ t.kind \notin High)
Few(t, c) == c = "gsm7" => 4 * Smalls(t) <= Octets(t, c)

\* Without extension characters and above U+2000, a text takes one octet a
\* character in GSM7 and two in UCS-2.
LEMMA PlainOctets ==
    ASSUME NEW t \in Text, NEW c \in Codings, Below(t, c), ~Extended(t, c)
    PROVE  /\ Runes(t) \in Nat /\ t.head \in Nat /\ t.tail \in Nat
           /\ c = "gsm7" => Octets(t, c) = Runes(t) /\ Septets(t) = Runes(t)
           /\ c = "ucs2" => Octets(t, c) = 2 * Runes(t) /\ Units(t) = Runes(t)
<1>1. t.head \in Nat /\ t.tail \in Nat /\ Runes(t) \in Nat
  BY DEF Text, Runes
<1>2. CASE c = "gsm7"
  <2>1. Width("letter", c) = 1 /\ Width(t.kind, c) = 1 /\ Width(t.kind, "gsm7") = 1
    BY <1>2 DEF Extended, Extension, Width
  <2> QED
    BY <1>1, <1>2, <2>1 DEF Octets, Septets, Runes
<1>3. CASE c = "ucs2"
  <2>1. t.kind # "emoji"
    BY <1>3 DEF Below, High
  <2> QED
    BY <1>1, <1>3, <2>1 DEF Octets, Units, Runes, Width, Extension
<1> QED
  BY <1>1, <1>2, <1>3

\* Wherever in a text of GSM7 the small septets are, no more pairs begin with one
\* than there are.
LEMMA PairsAmongSmalls ==
    ASSUME NEW t \in Text
    PROVE  SmallPairs(t, "gsm7") \in Nat /\ Smalls(t) \in Nat /\ SmallPairs(t, "gsm7") <= Smalls(t)
<1>1. t.head \in Nat /\ t.tail \in Nat
  BY DEF Text
<1>2. CASE t.kind \in Small
  <2>1. SmallPairs(t, "gsm7") = Beginnings(t.head + 1, t.head + t.tail) /\ Smalls(t) = t.tail * 1
    BY <1>2 DEF SmallPairs, Smalls, Small
  <2>2. Beginnings(t.head + 1, t.head + t.tail) \in 0 .. t.tail
    BY <1>1 DEF Beginnings
  <2> QED
    BY <1>1, <2>1, <2>2
<1>3. CASE t.kind = "caret"
  <2>1. SmallPairs(t, "gsm7") = t.tail /\ Smalls(t) = t.tail * 2
    BY <1>3 DEF SmallPairs, Smalls, Small
  <2> QED
    BY <1>1, <2>1
<1>4. CASE t.kind \in {"bracket", "euro"}
  <2>1. SmallPairs(t, "gsm7") \in {0, t.tail} /\ Smalls(t) = t.tail * 1
    BY <1>4 DEF SmallPairs, Smalls, Small
  <2> QED
    BY <1>1, <2>1
<1>5. CASE t.kind \notin Small \union {"caret", "bracket", "euro"}
  <2>1. SmallPairs(t, "gsm7") = 0 /\ Smalls(t) = t.tail * 0
    BY <1>5 DEF SmallPairs, Smalls
  <2> QED
    BY <1>1, <2>1
<1> QED
  BY <1>2, <1>3, <1>4, <1>5

\* DecodeMessage finds the client's text.
LEMMA TextFound ==
    ASSUME NEW t \in Text, Runes(t) > 0, NEW c \in Codings, NEW n \in Nat, Few(t, c),
           n > 1 => Below(t, c)
    PROVE  DecodedRight(t, c, AnnouncedFor(c, n))
<1>1. CASE c = "gsm7"
  <2>1. AnnouncedFor(c, n) = "gsm7"
    BY <1>1 DEF AnnouncedFor
  <2> DEFINE pairs  == SmallPairs(t, c)
             smalls == Smalls(t)
             octets == Octets(t, c)
  <2>2. pairs \in Nat /\ smalls \in Nat /\ pairs <= smalls
    BY <1>1, PairsAmongSmalls
  <2>3. octets \in Nat /\ 4 * smalls <= octets
    BY <1>1, OctetsType DEF Few
  <2> HIDE DEF pairs, smalls, octets
  <2>4. ~(pairs * 2 > octets \div 2)
    BY <2>2, <2>3
  <2>5. ~GuessUCS2(t, c)
    BY <2>4 DEF GuessUCS2, pairs, octets
  <2> QED
    BY <1>1, <2>1, <2>5 DEF DecodedRight, DecodedAs
<1>2. CASE c # "gsm7" /\ ~(n > 1)
  BY <1>2 DEF AnnouncedFor, DecodedRight, DecodedAs
<1>3. CASE c # "gsm7" /\ n > 1
  <2>1. c = "ucs2" /\ t.kind \notin High /\ Below(t, c) /\ ~Extended(t, c) /\ AnnouncedFor(c, n) = "gsm7"
    BY <1>3 DEF Below, Extended, AnnouncedFor
  <2>2. Octets(t, c) = 2 * Runes(t) /\ Runes(t) \in Nat /\ t.head \in Nat /\ t.tail \in Nat
    BY <2>1, PlainOctets
  <2>3. SmallPairs(t, c) = Runes(t)
    BY <2>1, <2>2 DEF SmallPairs, Runes
  <2>4. \A r \in Nat : r > 0 => (2 * r) % 2 = 0 /\ r * 2 > (2 * r) \div 2
    OBVIOUS
  <2>5. GuessUCS2(t, c)
    BY <2>2, <2>3, <2>4 DEF GuessUCS2
  <2> QED
    BY <2>1, <2>5 DEF DecodedRight, DecodedAs
<1> QED
  BY <1>1, <1>2, <1>3

\* calcSegments counts the parts submitted, if an octet can.
LEMMA PartsCounted ==
    ASSUME NEW t \in Text, Runes(t) > 0, NEW c \in Codings, Encodable(t, c), ~Extended(t, c),
           Below(t, c), PartsOf(t, c) <= 255
    PROVE  SegmentCountForReceipt(CalcSegments(c, t)) = PartsOf(t, c)
<1>0. /\ Runes(t) \in Nat /\ t.head \in Nat /\ t.tail \in Nat
      /\ c = "gsm7" => Octets(t, c) = Runes(t) /\ Septets(t) = Runes(t)
      /\ c = "ucs2" => Octets(t, c) = 2 * Runes(t) /\ Units(t) = Runes(t)
  BY PlainOctets
<1>1. PartsOf(t, c) \in Nat \ {0} /\ PartsOf(t, c) % 256 = PartsOf(t, c)
  <2>1. PartsOf(t, c) \in Nat \ {0}
    BY SubmittedParts
  <2> QED
    BY <2>1, SmallOctet
<1>2. CASE c = "gsm7"
  <2>1. CalcSegments(c, t) = IF Septets(t) <= 160 THEN 1 ELSE RoundedUp(Septets(t), 153) % 256
    BY <1>2 DEF CalcSegments, MaxLen, MaxMultiLen
  <2>2. PartsOf(t, c) = IF Runes(t) <= 160 THEN 1 ELSE RoundedUp(Runes(t), PerPart(t, c))
    BY <1>0, <1>2 DEF PartsOf, FitsInOne
  <2>3. PerPart(t, c) = 153
    BY <1>2 DEF PerPart, Width, Extended, Extension
  <2> QED
    BY <1>0, <1>1, <1>2, <2>1, <2>2, <2>3 DEF SegmentCountForReceipt
<1>3. CASE c = "ucs2"
  <2>1. CalcSegments(c, t) = IF Units(t) <= 70 THEN 1 ELSE RoundedUp(Units(t), 67) % 256
    BY <1>3 DEF CalcSegments, MaxLen, MaxMultiLen
  <2>2. PartsOf(t, c) = IF 2 * Runes(t) <= 140 THEN 1 ELSE RoundedUp(Runes(t), PerPart(t, c))
    BY <1>0, <1>3 DEF PartsOf, FitsInOne
  <2>3. PerPart(t, c) = 67
    BY <1>3 DEF PerPart, Width, Extension, Below, High
  <2>4. 2 * Runes(t) <= 140 <=> Runes(t) <= 70
    BY <1>0
  <2> QED
    BY <1>0, <1>1, <1>3, <2>1, <2>2, <2>3, <2>4 DEF SegmentCountForReceipt
<1> QED
  BY <1>2, <1>3 DEF Below

\* What a client submits is read as it was numbered, if it has no more parts than an
\* octet can number; it is found as it was written, unless GSM7's small septets are
\* more than a quarter of it; and it is counted as it was sent.
THEOREM SubmitsAreRead == ASSUME NumberedByOctets PROVE Spec => []SubmitsRead
<1>1. IInv /\ SubmitsKnown => SubmitsRead
  <2> SUFFICES ASSUME IInv, SubmitsKnown, NEW j \in Jobs, job[j].at = "handled"
               PROVE  LET t == job[j].text
                          c == job[j].coding
                          several == job[j].total > 1
                          below == c = "gsm7" \/ (c = "ucs2" /\ t.kind \notin High)
                          few == c = "gsm7" => 4 * Smalls(t) <= Octets(t, c)
                      IN  /\ several => \A i \in 1 .. job[j].total :
                                 {p.segment : p \in {q \in read : q.by = j /\ q.part = i}}
                                     = {[ref |-> job[j].ref % 256, total |-> job[j].total, seq |-> i]}
                          /\ few /\ (several => below) => ReadRight(j)
                          /\ few /\ below /\ ~(c = "gsm7" /\ t.kind \in Extension) => Sub(j) = job[j].total
    BY DEF SubmitsRead
  <2> DEFINE t == job[j].text
             c == job[j].coding
  <2>1. /\ t \in Contents /\ Runes(t) > 0 /\ c \in CodingsOf(t) /\ Encodable(t, c)
        /\ job[j].ref \in Refs /\ job[j].form \in Forms
        /\ FitsInOne(t, c) <=> job[j].form \notin Segmented
        /\ job[j].total = PartsOf(t, c)
    BY DEF SubmitsKnown, SubmitKnown, Submitting
  <2>2. t \in Text /\ c \in Codings /\ job[j].ref \in Nat
    BY <2>1, ContentsAssumption, RefsAreNumbers DEF CodingsOf
  <2>3. job[j].total \in Nat \ {0} /\ job[j].total <= 255
    BY <2>1, <2>2, SubmittedParts DEF NumberedByOctets
  <2>4. ASSUME job[j].total > 1, NEW i \in 1 .. job[j].total
        PROVE  {p.segment : p \in {q \in read : q.by = j /\ q.part = i}}
                   = {[ref |-> job[j].ref % 256, total |-> job[j].total, seq |-> i]}
    <3> DEFINE segment == [ref |-> job[j].ref % 256, total |-> job[j].total, seq |-> i]
    <3>1. job[j].form \in Segmented
      BY <2>1, <2>4 DEF PartsOf
    <3>2. SegmentOf(Submit(job[j].form, job[j].ref, job[j].total, i)) = segment
      BY <2>2, <2>3, <2>4, <3>1, NumbersRead
    <3>3. job[j].count = job[j].total
      BY DEF IInv, JobKnown
    <3>4. \E p \in read : p.by = j /\ p.part = i
      BY <3>3 DEF SubmitsKnown, Submitting
    <3> HIDE DEF segment
    <3>5. \A p \in read : p.by = j /\ p.part = i => p.segment = segment
      BY <3>2 DEF SubmitsKnown
    <3>6. {p.segment : p \in {q \in read : q.by = j /\ q.part = i}} = {segment}
      BY <3>4, <3>5
    <3> QED
      BY <3>6 DEF segment
  <2>5. ASSUME Few(t, c), job[j].total > 1 => Below(t, c)
        PROVE  ReadRight(j)
    BY <2>1, <2>2, <2>3, <2>5, TextFound DEF ReadRight
  <2>6. ASSUME ~Extended(t, c), Below(t, c)
        PROVE  Sub(j) = job[j].total
    BY <2>1, <2>2, <2>3, <2>6, PartsCounted DEF Sub
  <2> QED
    BY <2>4, <2>5, <2>6 DEF Extended, Few, Below
<1> QED
  BY Invariance, SubmitsInvariance, <1>1, PTL

=============================================================================
