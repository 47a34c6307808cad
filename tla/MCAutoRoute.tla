---------------------------- MODULE MCAutoRoute -----------------------------
(* Small instances of AutoRoute for TLC. *)
EXTENDS AutoRoute

CONSTANTS c4, c6, d4

AllCidrs == {c4, c6, d4}
Family == [c \in AllCidrs |-> IF c = c6 THEN 6 ELSE 4]
BothCidrs == <<c4, c6>>

Full(cidrs, mark, nftName, port) ==
    [auto |-> TRUE, cidrs |-> cidrs, mark |-> mark, table |-> mark,
     nft |-> nftName, port |-> port]

\* Three files that mean the same mark, table, name and port: every key left
\* out, every key written with IPv4 only, and AutoRoute off.
AllDefaults == Full(<<>>, 0, "", 0)
OnlyV4 == Full(<<d4>>, 1, "tproxy_gw", 10800)
Manual == [OnlyV4 EXCEPT !.auto = FALSE]
DefaultFiles == {AllDefaults, OnlyV4, Manual}
\* Edits: other ranges, another table and name, and only the range written,
\* which a save in the WebUI takes as it is.  Files and edits satisfy
\* SameMarking(1, 10800), a hypothesis of AutoRouteProofs.
OnlyV6 == Full(<<c6>>, 1, "tproxy_gw", 10800)
OtherKeys == [OnlyV6 EXCEPT !.table = 2, !.nft = "other"]
OnlyRange == Full(<<c6>>, 0, "", 0)
AnyEdit == {OnlyV6, OtherKeys, OnlyRange}
KeyEdit == {OtherKeys}
=============================================================================
