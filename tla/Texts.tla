-------------------------------- MODULE Texts --------------------------------
(***************************************************************************)
(* The functions a text goes through: EncodeMessage, DecodeMessage and     *)
(* ParseUDH (utils.go), splitTextIntoSegments (server.go), calcSegments    *)
(* and the header part of parseSubmitSM (session.go), and the count in a   *)
(* delivery receipt (delivery_report.go).                                  *)
(*                                                                         *)
(* Of a character only its kind is kept: what makes a difference to these  *)
(* functions.  A text is some letters, then characters of one kind: long   *)
(* enough runs of both to have parts of either kind and of both.           *)
(***************************************************************************)
EXTENDS Integers, Sequences

Lesser(a, b) == IF a <= b THEN a ELSE b

Codings == {"gsm7", "latin1", "cyrillic", "ucs2"}

\* In GSM7's basic table, with a septet above 0x1F: a letter, the same octet in every
\* coding of one octet, and an umlaut, which Latin-1 has elsewhere.  With a septet up
\* to 0x1F: the dollar, with @ and _, the vowels (and signs) of Latin-1, and Greek.  In
\* its extension table: brackets; the caret, whose second septet is small as well;
\* and the euro, which EncodeMessage's Latin-1 has but isLatin1Encodable refuses.  Not
\* in GSM7: an accent of Latin-1, Cyrillic, one above U+2000, one of two UTF-16 units.
\* Left out: the grave accent, the section sign, typographic quotes, line ends and
\* controls; and texts whose first three octets are those of a header (é@¥, ùòè).
Basic == {"letter", "umlaut", "dollar", "vowel", "delta"}
Small == {"dollar", "vowel", "delta"}
Extension == {"bracket", "caret", "euro"}
Kinds == Basic \union Extension \union {"accent", "cyrillic", "han", "emoji"}

\* UTF-16 units from U+2000.
High == {"euro", "han", "emoji"}

Text == [head : Nat, tail : Nat, kind : Kinds]

Runes(t) == t.head + t.tail

\* Characters from .. to of a text.
Slice(t, from, to) ==
    LET letters == Lesser(to, t.head) - Lesser(from - 1, t.head)
    IN  [head |-> letters, tail |-> to - from + 1 - letters, kind |-> t.kind]

-----------------------------------------------------------------------------
(* EncodeMessage. *)

Repertoire ==
    [gsm7     |-> Basic \union Extension,
     latin1   |-> {"letter", "umlaut", "dollar", "vowel", "accent"} \union Extension,
     cyrillic |-> {"letter", "dollar", "bracket", "caret", "cyrillic"},
     ucs2     |-> Kinds]

\* Latin-1 and Cyrillic give an error for any other character.  What the GSM7
\* encoder of the library makes of one is not modelled: CodingsOf excludes it.
Encodable(t, coding) == t.tail > 0 => t.kind \in Repertoire[coding]

CodingsOf(t) == {c \in Codings : c = "gsm7" => Encodable(t, c)}

Width(kind, coding) ==
    CASE coding = "gsm7" -> IF kind \in Extension THEN 2 ELSE 1
      [] coding = "ucs2" -> IF kind = "emoji" THEN 4 ELSE 2
      [] OTHER           -> 1

Octets(t, coding) == t.head * Width("letter", coding) + t.tail * Width(t.kind, coding)

\* SendDeliverSMText: IsGSM7Bit looks at the basic table only, isLatin1Encodable at
\* the code point.
MutDetermineEncoding(t) ==
    IF Encodable(t, "gsm7") THEN "gsm7" ELSE IF Encodable(t, "latin1") THEN "latin1" ELSE "ucs2"

DetermineEncoding(t) ==
    IF t.tail = 0 \/ t.kind \in Basic THEN "gsm7"
    ELSE IF Encodable(t, "latin1") /\ t.kind # "euro" THEN "latin1" ELSE "ucs2"

-----------------------------------------------------------------------------
(* splitTextIntoSegments: limits in characters, whatever these take. *)

MaxLen(coding) == CASE coding = "gsm7" -> 160 [] coding = "ucs2" -> 70 [] OTHER -> 140
MaxMultiLen(coding) == CASE coding = "gsm7" -> 153 [] coding = "ucs2" -> 67 [] OTHER -> 134

RoundedUp(a, b) == (a + b - 1) \div b

SegmentCount(t, coding) ==
    IF Runes(t) <= MaxLen(coding) THEN 1 ELSE RoundedUp(Runes(t), MaxMultiLen(coding))

From(coding, i) == (i - 1) * MaxMultiLen(coding) + 1
To(t, coding, i) ==
    IF SegmentCount(t, coding) = 1 THEN Runes(t) ELSE Lesser(i * MaxMultiLen(coding), Runes(t))

-----------------------------------------------------------------------------
(* Headers: a sequence of octets in front of a part, or an element of its own. *)

NoSegment == [ref |-> 0, total |-> 0, seq |-> 0]

UDH16(ref, total, seq) == <<6, 8, 4, ref \div 256, ref % 256, total % 256, seq % 256>>
UDH8(ref, total, seq)  == <<5, 0, 3, ref % 256, total % 256, seq % 256>>

\* ParseUDH: NoSegment stands for any of its errors.
ParseUDH(udh) ==
    LET segment ==
            CASE Len(udh) >= 7 /\ SubSeq(udh, 1, 3) = <<6, 8, 4>> ->
                     [ref |-> udh[4] * 256 + udh[5], total |-> udh[6], seq |-> udh[7]]
              [] Len(udh) >= 6 /\ SubSeq(udh, 1, 3) = <<5, 0, 3>> ->
                     [ref |-> udh[4], total |-> udh[5], seq |-> udh[6]]
              [] OTHER -> NoSegment
    IN  IF segment.seq = 0 \/ segment.seq > segment.total THEN NoSegment ELSE segment

Forms == {"plain", "payload", "udh8", "udh16", "sar", "payload8", "payload16"}
Segmented == Forms \ {"plain", "payload"}

\* A submit_sm of a client: the element the library found in the user data header,
\* the three sar_* parameters, and the octets that begin message_payload.
Submit(form, ref, total, seq) ==
    [element |-> CASE form = "udh8"  -> <<0, ref % 256, total, seq>>
                   [] form = "udh16" -> <<8, ref \div 256, ref % 256, total, seq>>
                   [] OTHER -> <<>>,
     sar     |-> IF form = "sar" THEN <<ref, total, seq>> ELSE <<>>,
     payload |-> form \in {"payload", "payload8", "payload16"},
     begins  |-> CASE form = "payload8"  -> UDH8(ref, total, seq)
                   [] form = "payload16" -> UDH16(ref, total, seq)
                   [] OTHER -> <<>>]

\* An element counts only if it speaks of several parts.
ElementSegment(element) ==
    LET n == Len(element)
        segment ==
            IF n = 0 THEN NoSegment
            ELSE [ref |-> element[n - 2], total |-> element[n - 1], seq |-> element[n]]
    IN  IF segment.total > 1 /\ segment.seq > 0 THEN segment ELSE NoSegment

MutHighByte(ref) == ref \div 256
LowByte(ref) == ref % 256

\* parseSubmitSM: the parameters go before the element, and only without both is the
\* payload searched.
SegmentOf(pdu) ==
    IF pdu.sar # <<>>
    THEN [ref |-> LowByte(pdu.sar[1]), total |-> pdu.sar[2] % 256, seq |-> pdu.sar[3] % 256]
    ELSE LET element == ElementSegment(pdu.element)
             inside  == ParseUDH(pdu.begins)
         IN  IF element = NoSegment /\ pdu.payload /\ inside.total > 1
             THEN [inside EXCEPT !.ref = LowByte(inside.ref)]
             ELSE element

-----------------------------------------------------------------------------
(* DecodeMessage, GetCompleteMessage. *)

\* Of the octets first .. last, counted from 1, those that begin a pair.
Beginnings(first, last) == (last + 1) \div 2 - first \div 2

\* Pairs of octets that begin with one up to 0x1F: a small septet of GSM7, the escape
\* before an extension character, the high octet of a UTF-16 unit below U+2000.
SmallPairs(t, coding) ==
    CASE coding = "gsm7" ->
             (CASE t.kind \in Small     -> Beginnings(t.head + 1, t.head + t.tail)
                [] t.kind = "caret"     -> t.tail
                [] t.kind \in {"bracket", "euro"} -> IF t.head % 2 = 0 THEN t.tail ELSE 0
                [] OTHER -> 0)
      [] coding = "ucs2" -> t.head + (IF t.kind \in High THEN 0 ELSE t.tail)
      [] OTHER -> 0

GuessUCS2(t, coding) ==
    /\ Octets(t, coding) % 2 = 0
    /\ SmallPairs(t, coding) * 2 > Octets(t, coding) \div 2

\* The coding in which a text encoded in coding is decoded if announced is said.
DecodedAs(t, coding, announced) ==
    IF announced = "gsm7" /\ GuessUCS2(t, coding) THEN "ucs2" ELSE announced

\* Letters have the same octet in all codings but UCS2.
DecodedRight(t, coding, announced) ==
    LET used == DecodedAs(t, coding, announced)
    IN  used = coding \/ ("ucs2" \notin {used, coding} /\ (t.tail = 0 \/ t.kind = "letter"))

\* parseSubmitSM gives no part its Encoding: the parts together count as GSM7.
AnnouncedFor(coding, parts) == IF parts > 1 THEN "gsm7" ELSE coding

-----------------------------------------------------------------------------
(* calcSegments, and the count in a receipt. *)

Septets(t) == t.head + t.tail * Width(t.kind, "gsm7")
Units(t) == t.head + t.tail * (IF t.kind = "emoji" THEN 2 ELSE 1)
Utf8Octets(t) ==
    t.head + t.tail * (CASE t.kind \in {"letter", "dollar", "bracket", "caret"} -> 1
                         [] t.kind \in {"umlaut", "vowel", "delta", "accent", "cyrillic"} -> 2
                         [] t.kind \in {"euro", "han"} -> 3
                         [] t.kind = "emoji" -> 4)

CalcSegments(coding, t) ==
    LET alphabet == IF coding = "gsm7" /\ ~Encodable(t, "gsm7") THEN "ucs2" ELSE coding
        length == CASE alphabet = "gsm7" -> Septets(t) [] alphabet = "ucs2" -> Units(t) [] OTHER -> Utf8Octets(t)
    IN  IF length <= MaxLen(alphabet) THEN 1 ELSE RoundedUp(length, MaxMultiLen(alphabet)) % 256

\* BuildDeliveryReceiptFromPending: sub is never 000.
SegmentCountForReceipt(n) == IF n = 0 THEN 1 ELSE n

=============================================================================
