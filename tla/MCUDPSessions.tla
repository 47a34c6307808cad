--------------------------- MODULE MCUDPSessions ----------------------------
(* A small instance of the UDP session table for TLC. *)
EXTENDS UDPSessions

CONSTANTS k1, k2, h1, h2

TwoKeys == {k1, k2}
TwoHandlers == {h1, h2}
=============================================================================
