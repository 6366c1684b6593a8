-------------------------- MODULE MCSessionManager --------------------------
(* Small instances of SessionManager: one or two sessions. *)
EXTENDS SessionManager, TLC

CONSTANTS s1, s2

=============================================================================
