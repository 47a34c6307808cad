----------------------------- MODULE MCTCPProxy -----------------------------
(* Small instances of the TCP handlers for TLC. *)
EXTENDS TCPProxy

CONSTANTS h1, h2

TwoHandlers == {h1, h2}
=============================================================================
