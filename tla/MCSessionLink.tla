---------------------------- MODULE MCSessionLink ----------------------------
(* Small instances of SessionLink. *)
EXTENDS SessionLink, TLC

CONSTANTS a1, a2

\* Senders differ in nothing but their names.
Symmetric == Permutations(Senders)

=============================================================================
