----------------------------- MODULE RuleEngine -----------------------------
(***************************************************************************)
(* The rule engine (rule_engine.go) and its domain trie (router.go):       *)
(* NewRuleEngine takes the configured rules one by one, Match finds the    *)
(* upstream of a connection.  A name is the sequence of its labels, left   *)
(* to right, without a trailing dot; labels keep their case.  The upstream *)
(* stands for the upstream with its header rewrites.                       *)
(***************************************************************************)
EXTENDS Naturals, Sequences, FiniteSetsExt, SequencesExt

CONSTANTS
    Labels,           \* labels of names
    Lower,            \* [Labels -> Labels], strings.ToLower
    ConnNames,        \* names of connections; <<>> if it is not known
    Addrs,            \* target addresses
    NoAddr,           \* the invalid netip.Addr
    PrivateAddrs,     \* addresses that are IsPrivate or IsLoopback, mapped or not
    InPrefix,         \* per payload that parses as a CIDR, what it Contains: an IPv4
                      \* prefix contains no mapped address
    KeywordIn,        \* per keyword, the lower-case names that contain it
    Configs,          \* rules that may occur: [type, payload, domains, proxy]
    MaxRules,         \* bound: rules of a configuration
    DefaultUpstream

VARIABLES
    rules,  \* the configured rules taken so far
    trie,   \* per node, a path of labels from the right, its Upstream
    items   \* the other rules in order

rVars == <<rules, trie, items>>

\* A rule without a type is a list of suffixes, or else one suffix.
IsList(r) == r.type = "" /\ r.domains # <<>>
IsSuffixRule(r) == r.type = "DOMAIN-SUFFIX" \/ (r.type = "" /\ r.domains = <<>>)

\* A suffix rule has a name, or a list of them; the names in the rules and of
\* the connections consist of labels.  The invalid address is in no prefix.
ASSUME RAssumption ==
    /\ MaxRules \in Nat
    /\ ConnNames \subseteq Seq(Labels)
    /\ \A r \in Configs :
          /\ IsList(r) => r.domains \in Seq(Seq(Labels))
          /\ IsSuffixRule(r) => r.payload \in Seq(Labels)
    /\ NoAddr \notin PrivateAddrs
    /\ \A c \in DOMAIN InPrefix : NoAddr \notin InPrefix[c]

\* The Upstream of a node that is only on the way to others.
NoUpstream == ""

LowerName(n) == [i \in 1 .. Len(n) |-> Lower[n[i]]]

\* The node with path p: the last n labels of a name.
Path(name, n) == SubSeq(Reverse(name), 1, n)
-----------------------------------------------------------------------------
(* DomainRouter *)

\* Mutant: the nodes on the way are not created.
AddRuleOrphan(t, name, upstream) ==
    IF name = <<>> THEN t
    ELSE [p \in DOMAIN t \cup {Reverse(name)} |-> IF p = Reverse(name) THEN upstream ELSE t[p]]

\* AddRule creates the missing nodes down to the name and sets its upstream.
AddRule(t, name, upstream) ==
    IF name = <<>> THEN t
    ELSE LET nodes == DOMAIN t \cup {Path(name, n) : n \in 1 .. Len(name)}
         IN  [p \in nodes |-> IF p = Reverse(name) THEN upstream
                              ELSE IF p \in DOMAIN t THEN t[p] ELSE NoUpstream]

\* How far the walk from the root gets: it stops at the first missing child.
Reached(t, name) ==
    {n \in 0 .. Len(name) : \A m \in 0 .. n : Path(name, m) \in DOMAIN t}

\* Mutant: the first node with an upstream wins.
MatchNodeShortest(t, name) ==
    LET hits == {n \in Reached(t, name) : t[Path(name, n)] # NoUpstream}
    IN  IF name = <<>> \/ hits = {} THEN NoUpstream ELSE t[Path(name, Min(hits))]

\* MatchNode: the upstream of the last node on the walk that has one.
MatchNode(t, name) ==
    LET hits == {n \in Reached(t, name) : t[Path(name, n)] # NoUpstream}
    IN  IF name = <<>> \/ hits = {} THEN NoUpstream ELSE t[Path(name, Max(hits))]
-----------------------------------------------------------------------------
(* RuleEngine *)

RInit ==
    /\ rules = <<>>
    /\ trie = [p \in {<<>>} |-> NoUpstream]
    /\ items = <<>>

\* The loop over the domains of a rule.
AddRules(t, names, upstream) ==
    LET after[k \in 0 .. Len(names)] ==
            IF k = 0 THEN t ELSE AddRule(after[k - 1], names[k], upstream)
    IN  after[Len(names)]

\* The loop of NewRuleEngine takes rule r: a suffix, or a list of them, goes
\* to the trie; a CIDR that does not parse and an unknown type are dropped.
TakeRule(r) ==
    /\ Len(rules) < MaxRules
    /\ rules' = Append(rules, r)
    /\ \/ /\ IsList(r)
          /\ trie' = AddRules(trie, r.domains, r.proxy)
          /\ UNCHANGED items
       \/ /\ IsSuffixRule(r)
          /\ trie' = AddRule(trie, r.payload, r.proxy)
          /\ UNCHANGED items
       \/ /\ r.type \in {"DOMAIN", "DOMAIN-KEYWORD", "GEOIP", "MATCH"}
             \/ (r.type = "IP-CIDR" /\ r.payload \in DOMAIN InPrefix)
          /\ items' = Append(items, r)
          /\ UNCHANGED trie
       \/ /\ r.type = "IP-CIDR" /\ r.payload \notin DOMAIN InPrefix
          /\ UNCHANGED <<trie, items>>
       \/ /\ r.type = "UNKNOWN"
          /\ UNCHANGED <<trie, items>>

\* Whether item r is about a connection.  The payload of DOMAIN is not
\* brought to lower case, the name is.
Hits(r, name, ip) ==
    CASE r.type = "DOMAIN"         -> LowerName(name) = r.payload
      [] r.type = "DOMAIN-KEYWORD" -> LowerName(name) \in KeywordIn[r.payload]
      [] r.type = "IP-CIDR"        -> ip # NoAddr /\ ip \in InPrefix[r.payload]
      [] r.type = "GEOIP"          -> r.payload \in {"PRIVATE", "LAN"} /\ ip \in PrivateAddrs
      [] r.type = "MATCH"          -> TRUE

FirstHit(name, ip) == {i \in 1 .. Len(items) : Hits(items[i], name, ip)}

\* Match: the trie first, then the first item that hits, then the default.
Match(name, ip) ==
    IF name # <<>> /\ MatchNode(trie, name) # NoUpstream THEN MatchNode(trie, name)
    ELSE IF FirstHit(name, ip) # {} THEN items[Min(FirstHit(name, ip))].proxy
    ELSE DefaultUpstream

RNext == \E r \in Configs : TakeRule(r)

RSpec == RInit /\ [][RNext]_rVars
-----------------------------------------------------------------------------
(* Properties *)

\* Every variable keeps its type; in particular the trie is a tree: every
\* node but the root hangs from a node, so the walk can reach all of them.
RTypeOK ==
    /\ rules \in Seq(Configs) /\ Len(rules) <= MaxRules
    /\ items \in Seq(Configs)
    /\ \A p \in DOMAIN trie :
          /\ p \in Seq(Labels)
          /\ p # <<>> => Front(p) \in DOMAIN trie

\* The names a rule gives an upstream for.
SuffixNames(r) ==
    IF IsList(r) THEN {r.domains[k] : k \in 1 .. Len(r.domains)}
    ELSE IF IsSuffixRule(r) THEN {r.payload} ELSE {}

\* The suffix rules of the configuration as pairs of position and suffix.
SuffixRules == UNION {{i} \X SuffixNames(rules[i]) : i \in 1 .. Len(rules)}

\* What the rules say of a name: of the suffix rules that are the last for
\* their suffix and name an upstream, the one with the longest suffix.
Applies(s, name) ==
    /\ s[2] # <<>> /\ IsSuffix(s[2], name)
    /\ rules[s[1]].proxy # NoUpstream
    /\ \A q \in SuffixRules : q[2] = s[2] => q[1] <= s[1]

BestSuffix(name) ==
    {r \in SuffixRules :
        /\ Applies(r, name)
        /\ \A s \in SuffixRules : Applies(s, name) => Len(s[2]) <= Len(r[2])}

\* Of the other rules, in the order of the file, those about a connection.
OtherRules(name, ip) ==
    {i \in 1 .. Len(rules) :
        LET r == rules[i]
        IN  \/ r.type = "MATCH"
            \/ r.type = "DOMAIN" /\ r.payload = LowerName(name)
            \/ r.type = "DOMAIN-KEYWORD" /\ LowerName(name) \in KeywordIn[r.payload]
            \/ r.type = "GEOIP" /\ r.payload \in {"PRIVATE", "LAN"} /\ ip \in PrivateAddrs
            \/ /\ r.type = "IP-CIDR" /\ r.payload \in DOMAIN InPrefix
               /\ ip \in InPrefix[r.payload]}

\* The upstream the list of rules gives a connection: the longest suffix, the
\* last rule for it; without one the first rule of another kind, whatever
\* lies in between; else the default.
Configured(name, ip) ==
    IF BestSuffix(name) # {} THEN rules[(CHOOSE r \in BestSuffix(name) : TRUE)[1]].proxy
    ELSE IF OtherRules(name, ip) # {} THEN rules[Min(OtherRules(name, ip))].proxy
    ELSE DefaultUpstream

\* The engine built from the rules gives every name and every address that
\* Match is called with the upstream that the list of rules gives it.
MatchesAsConfigured ==
    \A name \in ConnNames, ip \in Addrs \cup {NoAddr} : Match(name, ip) = Configured(name, ip)
=============================================================================
