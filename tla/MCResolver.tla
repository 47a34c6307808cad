----------------------------- MODULE MCResolver -----------------------------
(* A small instance of the resolver for TLC. *)
EXTENDS Resolver

CONSTANTS d1, c1, c2, k1, k2

OneDomain == {d1}
TwoClients == {c1, c2}
TwoCalls == {k1, k2}
\* Failure (an answer without records acts alike), TTL 0, which counts as the
\* default, and a TTL below it.
SomeOutcomes == {Fail, Found(0), Found(1)}
=============================================================================
