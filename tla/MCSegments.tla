----------------------------- MODULE MCSegments -----------------------------
(* Small instances of Segments. *)
EXTENDS Segments, TLC

CONSTANTS m1, m2, m3, m4

\* m1 and m2 share bucket A, their references being equal modulo 256, but announce
\* different totals; m3 has a bucket of its own, in another shard; m4 has more parts
\* than any message may have.
MCRoute   == (m1 :> "A") @@ (m2 :> "A") @@ (m3 :> "B") @@ (m4 :> "B")
MCRef     == (m1 :> 7) @@ (m2 :> 263) @@ (m3 :> 7) @@ (m4 :> 7)
MCTotal   == (m1 :> 3) @@ (m2 :> 2) @@ (m3 :> 2) @@ (m4 :> 4)
MCAsking  == {<<m1, 2>>, <<m2, 1>>}
MCShardOf == (<<"A", 7>> :> 1) @@ (<<"B", 7>> :> 2)

\* Two messages of two parts in one bucket.
PairRoute   == (m1 :> "A") @@ (m2 :> "A")
PairRef     == (m1 :> 7) @@ (m2 :> 263)
PairTotal   == (m1 :> 2) @@ (m2 :> 2)
PairAsking  == {<<m1, 2>>}
PairShardOf == (<<"A", 7>> :> 1)

=============================================================================
