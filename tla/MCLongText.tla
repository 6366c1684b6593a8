----------------------------- MODULE MCLongText -----------------------------
(***************************************************************************)
(* Two texts of every sort, at and just above the limits of each coding:   *)
(* in one part, in two and in three, of one kind and of two, and longer    *)
(* than Config.DefaultMaxSegsCount allows.                                 *)
(***************************************************************************)
EXTENDS LongText, TLC

CONSTANTS j1, j2

Of(head, tail, kind) == [head |-> head, tail |-> tail, kind |-> kind]

MCContents ==
    {Of(0, 0, "letter"), Of(160, 0, "letter"), Of(161, 0, "letter"), Of(399, 2, "letter"),
     Of(1, 160, "bracket"), Of(0, 141, "accent"), Of(71, 0, "letter"), Of(67, 68, "cyrillic"),
     Of(140, 1, "han"), Of(0, 70, "emoji"), Of(1, 70, "emoji"),
     \* a quarter of small septets, in one part and in several; more than that
     Of(40, 20, "bracket"), Of(126, 42, "dollar"), Of(102, 17, "caret"), Of(125, 40, "vowel"),
     Of(0, 160, "delta"), Of(134, 10, "umlaut"), Of(0, 71, "euro")}

\* Two references that differ in the high byte only.
MCRefs == {1, 513}

Symmetric == Permutations(Jobs)

=============================================================================
