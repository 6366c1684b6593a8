----------------------------- MODULE Reassembly -----------------------------
(***************************************************************************)
(* What reassembly promises, without goroutines, locks, clocks or shards.  *)
(* Parts are gathered in buckets; the first part of a bucket gives it an   *)
(* id never used before and the number of parts it needs; a bucket that    *)
(* has them all is handed over in one step, under its id, and is gone; an  *)
(* unfinished bucket may be dropped at any time.                           *)
(***************************************************************************)
EXTENDS Integers, Sequences

CONSTANTS Keys,       \* buckets
          Messages,   \* where parts come from
          Asking,     \* parts <<m, i>> that ask for a delivery receipt
          MaxParts    \* parts of the longest message

VARIABLES bucket,   \* bucket[k]: [id, total, wants, parts]; id = 0 when there is none
          lastId,   \* ids up to this one have been used
          handed    \* assembled messages, in the order they were handed over

vars == <<bucket, lastId, handed>>

New(id, n) == [id |-> id, total |-> n, wants |-> FALSE, parts |-> [i \in {} |-> 0]]
Empty == New(0, 0)

Init == /\ bucket = [k \in Keys |-> Empty]
        /\ lastId = 0
        /\ handed = <<>>

With(b, m, i) == [b EXCEPT !.wants = @ \/ <<m, i>> \in Asking,
                           !.parts = [j \in DOMAIN b.parts \union {i} |->
                                        IF j = i THEN m ELSE b.parts[j]]]

\* Ids may be spent on parts that join an existing bucket or are refused.
Spend == /\ lastId' > lastId
         /\ UNCHANGED <<bucket, handed>>

Start(k, m, i, n) ==
    /\ bucket[k] = Empty
    /\ i \in 1 .. n
    /\ lastId' > lastId
    /\ bucket' = [bucket EXCEPT ![k] =
                    With(New(lastId', n), m, i)]
    /\ UNCHANGED handed

Join(k, m, i) ==
    /\ bucket[k] # Empty
    /\ i \in 1 .. bucket[k].total
    /\ lastId' >= lastId
    /\ bucket' = [bucket EXCEPT ![k] = With(bucket[k], m, i)]
    /\ UNCHANGED handed

HandOver(k) ==
    /\ bucket[k] # Empty
    /\ DOMAIN bucket[k].parts = 1 .. bucket[k].total
    /\ handed' = Append(handed, [id |-> bucket[k].id,
                                 deliveryReceiptRequested |-> bucket[k].wants,
                                 parts |-> bucket[k].parts])
    /\ bucket' = [bucket EXCEPT ![k] = Empty]
    /\ UNCHANGED lastId

\* A sweep or a stop drops any number of buckets at once.
Drop(K) ==
    /\ bucket' = [k \in Keys |-> IF k \in K THEN Empty ELSE bucket[k]]
    /\ UNCHANGED <<lastId, handed>>

Next == \/ Spend
        \/ \E k \in Keys, m \in Messages :
              \/ \E n \in 2 .. MaxParts : \E i \in 1 .. n : Start(k, m, i, n)
              \/ \E i \in 1 .. MaxParts : Join(k, m, i)
        \/ \E k \in Keys : HandOver(k)
        \/ \E K \in SUBSET Keys : Drop(K)

Spec == Init /\ [][Next]_vars

=============================================================================
