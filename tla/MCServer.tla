------------------------------ MODULE MCServer ------------------------------
(* Two connections: one may be set up while the other is served, swept or dropped. *)
EXTENDS Server, TLC

CONSTANTS c1, c2

MCConnections == {c1, c2}

=============================================================================
