---------------------------- MODULE MCFakeIPPool ----------------------------
(* Small instances of the FakeIP pool for TLC. *)
EXTENDS FakeIPNames, TLC

CONSTANTS d1, d2, w1, w2

TwoDomains == {d1, d2}
OneDomain == {d1}
TwoWorkers == {w1, w2}
OneWorker == {w1}

Background == {"background"}
WithAll == {"background", "Clear", "Close"}

\* Addresses 0..9 stand for IPv4, 10..19 for IPv6.
P(l, a, h) == [lo |-> l, addr |-> a, hi |-> h]

\* Two usable addresses: 1 and 2.
SmallPool == {[prefixes |-> <<P(0, 0, 2)>>, nv4 |-> 1]}
SmallAddrs == 0 .. 2

\* Three usable addresses: 1, 2 and 3.
MediumPool == {[prefixes |-> <<P(0, 0, 3)>>, nv4 |-> 1]}
MediumAddrs == 0 .. 3

\* A single usable address.
TinyPool == {[prefixes |-> <<P(0, 0, 1)>>, nv4 |-> 1]}
TinyAddrs == 0 .. 1

\* Dual stack; the operator edits the CIDRs between two starts: the IPv4
\* prefix is moved and its first address changed, the IPv6 prefix is removed.
EditedPools == {[prefixes |-> <<P(0, 0, 2), P(10, 10, 12)>>, nv4 |-> 1],
                [prefixes |-> <<P(1, 2, 4)>>, nv4 |-> 1]}
DualAddrs == (0 .. 4) \cup (10 .. 12)

\* d1 and the odd addresses hash to shard 1, d2 and the even ones to shard 0.
AlignedDomains == [d \in Domains |-> IF d = d1 THEN 1 ELSE 0]
Parity == [a \in Addrs |-> a % 2]

Symmetry == Permutations(Workers)
=============================================================================
