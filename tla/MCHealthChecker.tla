-------------------------- MODULE MCHealthChecker ---------------------------
(* Small instances of the health checker for TLC. *)
EXTENDS HealthChecker

CONSTANTS p1, p2, fast, backup

TwoNodes == {p1, p2}
\* The two groups list the same proxies in opposite orders.
BothGroups == {fast, backup}
BothProxies == [g \in Groups |-> IF g = fast THEN <<p1, p2>> ELSE <<p2, p1>>]
BothTypes == [g \in Groups |-> IF g = fast THEN "url-test" ELSE "fallback"]
OnlyBackup == {backup}
=============================================================================
