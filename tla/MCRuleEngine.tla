---------------------------- MODULE MCRuleEngine ----------------------------
(* A small instance of the rule engine for TLC. *)
EXTENDS RuleEngine

\* "B" is "b" in upper case.
LabelSet == {"a", "b", "B"}
ToLower == [l \in LabelSet |-> IF l = "B" THEN "b" ELSE l]
NameSet == {<<>>, <<"a">>, <<"b">>, <<"B">>, <<"a", "b">>, <<"a", "B">>,
            <<"b", "a", "b">>}
\* A public IPv4 address and one of the LAN, plain and mapped to IPv6 (as the
\* dual-stack sockets give a destination), and a FakeIP address of fd00::/8,
\* which is private.
AddrSet == {"public", "lan", "mapped public", "mapped lan", "fake6"}
Privates == {"lan", "mapped lan", "fake6"}
Cidrs == [c \in {"lan/16"} |-> {"lan"}]
Keywords == [k \in {"b"} |-> {n \in NameSet : \E i \in 1 .. Len(n) : n[i] = "b"}]

Rule(type, payload, proxy) ==
    [type |-> type, payload |-> payload, domains |-> <<>>, proxy |-> proxy]
List(names, proxy) ==
    [type |-> "", payload |-> <<>>, domains |-> names, proxy |-> proxy]

AllRules ==
    {Rule("DOMAIN-SUFFIX", <<"b">>, p) : p \in {"p1", "p2", ""}}
        \cup {Rule("DOMAIN-SUFFIX", <<"a", "b">>, "p2"),
              Rule("DOMAIN-SUFFIX", <<"b", "a", "b">>, "p1"),
              Rule("DOMAIN-SUFFIX", <<>>, "p1"),
              List(<< <<"a">>, <<"a", "b">> >>, "p1"),
              Rule("DOMAIN", <<"a", "b">>, "p1"),
              Rule("DOMAIN", <<"B">>, "p2"),
              Rule("DOMAIN-KEYWORD", "b", "p2"),
              Rule("IP-CIDR", "lan/16", "p1"),
              Rule("IP-CIDR", "bad", "p1"),
              Rule("GEOIP", "PRIVATE", "p2"),
              Rule("GEOIP", "CN", "p1"),
              Rule("MATCH", <<>>, "p2"),
              Rule("UNKNOWN", <<>>, "p1")}
=============================================================================
