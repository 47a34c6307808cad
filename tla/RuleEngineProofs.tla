-------------------------- MODULE RuleEngineProofs --------------------------
(***************************************************************************)
(* Proofs about the rule engine, for every list of rules and for names of  *)
(* any length.                                                             *)
(*                                                                         *)
(* A lookup agrees with the list of rules because of what the trie and the *)
(* items hold at any time: the trie has a path for every suffix that a     *)
(* rule names, with the upstream of the last of these rules, and nothing   *)
(* else (TrieOK); the items are the other rules in their order (ItemsOK).  *)
(***************************************************************************)
EXTENDS RuleEngine, NaturalsInduction, WellFoundedInduction, TLAPS

-----------------------------------------------------------------------------
(* Numbers and sequences *)

\* A set of numbers that is not empty has a least element.
LEMMA LeastNatural ==
    ASSUME NEW T, T \subseteq Nat, T # {}
    PROVE  \E m \in T : \A k \in T : m <= k
<1>1. PICK m \in T : \A k \in T : ~ (<<k, m>> \in OpToRel(<, Nat))
    BY WFMin, NatLessThanWellFounded, Zenon
<1>2. ASSUME NEW k \in T PROVE ~ (k < m)
    BY <1>1, <1>2, Zenon DEF OpToRel
<1> QED
    BY <1>2

\* Min and Max of FiniteSetsExt.
LEMMA MinOfSet ==
    ASSUME NEW T, T \subseteq Nat, T # {}
    PROVE  Min(T) \in T /\ \A k \in T : Min(T) <= k
<1>1. \E m \in T : \A k \in T : m =< k
    BY LeastNatural
<1> QED
    BY <1>1 DEF Min

LEMMA MaxOfSet ==
    ASSUME NEW n \in Nat, NEW T, T \subseteq 0 .. n, T # {}
    PROVE  Max(T) \in T /\ \A k \in T : Max(T) >= k
<1> DEFINE D == {n - k : k \in T}
<1>1. D \subseteq Nat /\ D # {}
    OBVIOUS
<1>2. PICK d \in D : \A e \in D : d <= e
    BY <1>1, LeastNatural
<1>3. PICK m \in T : d = n - m
    OBVIOUS
<1>4. ASSUME NEW k \in T PROVE m >= k
    <2>1. n - k \in D
        OBVIOUS
    <2> QED
        BY <2>1, <1>2, <1>3
<1>5. \E x \in T : \A y \in T : x >= y
    BY <1>4
<1> QED
    BY <1>5 DEF Max

LEMMA ReverseFacts ==
    ASSUME NEW S, NEW s \in Seq(S)
    PROVE  /\ Reverse(s) \in Seq(S) /\ Len(Reverse(s)) = Len(s)
           /\ Reverse(Reverse(s)) = s
<1>1. ASSUME NEW t \in Seq(S) PROVE Reverse(t) \in Seq(S) /\ Len(Reverse(t)) = Len(t)
    BY DEF Reverse
<1>2. ASSUME NEW i \in 1 .. Len(s) PROVE Reverse(Reverse(s))[i] = s[i]
    <2>1. (Len(s) - i) + 1 \in 1 .. Len(s) /\ (Len(s) - ((Len(s) - i) + 1)) + 1 = i
        OBVIOUS
    <2> QED
        BY <1>1, <2>1 DEF Reverse
<1> QED
    BY <1>1, <1>2

\* The path of the last n labels of a name, and its part of the first m.
LEMMA PathFacts ==
    ASSUME NEW name \in Seq(Labels), NEW n \in 0 .. Len(name)
    PROVE  /\ Path(name, n) \in Seq(Labels) /\ Len(Path(name, n)) = n
           /\ Path(name, Len(name)) = Reverse(name)
           /\ \A m \in 0 .. n : SubSeq(Path(name, n), 1, m) = Path(name, m)
           /\ Path(name, 0) = <<>>
<1> DEFINE r == Reverse(name)
<1>1. r \in Seq(Labels) /\ Len(r) = Len(name)
    BY ReverseFacts
<1> HIDE DEF r
<1>2. \A m \in 0 .. Len(name) : /\ SubSeq(r, 1, m) \in Seq(Labels)
                                /\ Len(SubSeq(r, 1, m)) = m
                                /\ \A i \in 1 .. m : SubSeq(r, 1, m)[i] = r[i]
    BY <1>1
<1>3. SubSeq(r, 1, Len(name)) = r
    BY <1>1, <1>2
<1>4. ASSUME NEW m \in 0 .. n
      PROVE  SubSeq(SubSeq(r, 1, n), 1, m) = SubSeq(r, 1, m)
    <2> DEFINE p == SubSeq(r, 1, n)
    <2>1. p \in Seq(Labels) /\ Len(p) = n /\ \A i \in 1 .. n : p[i] = r[i]
        BY <1>2
    <2> HIDE DEF p
    <2>2. SubSeq(p, 1, m) \in Seq(Labels) /\ Len(SubSeq(p, 1, m)) = m
          /\ \A i \in 1 .. m : SubSeq(p, 1, m)[i] = p[i]
        BY <2>1
    <2>3. SubSeq(p, 1, m) = SubSeq(r, 1, m)
        BY <2>1, <2>2, <1>2
    <2> QED
        BY <2>3 DEF p
<1>5. SubSeq(r, 1, 0) = <<>>
    BY <1>1
<1> QED
    BY <1>2, <1>3, <1>4, <1>5 DEF Path, r
-----------------------------------------------------------------------------
(* The trie *)

\* The nodes on the paths of the names in S.
Paths(S) == UNION {{Path(name, n) : n \in 1 .. Len(name)} : name \in S}

\* Trie t after AddRule for all names in S, in whatever order.
Extended(t, S, upstream) ==
    [p \in DOMAIN t \cup Paths(S) |->
        IF \E name \in S : name # <<>> /\ p = Reverse(name) THEN upstream
        ELSE IF p \in DOMAIN t THEN t[p] ELSE NoUpstream]

LEMMA AddRuleExtends ==
    ASSUME NEW t, t = [p \in DOMAIN t |-> t[p]], NEW name \in Seq(Labels), NEW upstream
    PROVE  AddRule(t, name, upstream) = Extended(t, {name}, upstream)
<1>1. CASE name = <<>>
    <2>1. 1 .. Len(name) = {}
        BY <1>1
    <2>2. Paths({name}) = {}
        BY <2>1 DEF Paths
    <2>3. Extended(t, {name}, upstream) = [p \in DOMAIN t |-> t[p]]
        BY <1>1, <2>2 DEF Extended
    <2> QED
        BY <1>1, <2>3 DEF AddRule
<1>2. CASE name # <<>>
    <2>1. Paths({name}) = {Path(name, n) : n \in 1 .. Len(name)}
        BY DEF Paths
    <2> QED
        BY <1>2, <2>1 DEF AddRule, Extended
<1> QED  BY <1>1, <1>2

\* One more name.
LEMMA ExtendedTwice ==
    ASSUME NEW t, NEW S \in SUBSET Seq(Labels), NEW name \in Seq(Labels), NEW upstream
    PROVE  Extended(Extended(t, S, upstream), {name}, upstream)
               = Extended(t, S \cup {name}, upstream)
<1> DEFINE u == Extended(t, S, upstream)
           v == Extended(t, S \cup {name}, upstream)
           w == Extended(u, {name}, upstream)
<1>1. Paths(S \cup {name}) = Paths(S) \cup Paths({name})
    BY DEF Paths
<1>2. DOMAIN u = DOMAIN t \cup Paths(S)
    BY DEF Extended
<1>3. DOMAIN v = DOMAIN t \cup Paths(S) \cup Paths({name})
    BY <1>1 DEF Extended
<1>4. DOMAIN w = DOMAIN v
    BY <1>2, <1>3 DEF Extended
<1>5. ASSUME NEW p \in DOMAIN v PROVE w[p] = v[p]
    <2>1. w[p] = IF name # <<>> /\ p = Reverse(name) THEN upstream
                 ELSE IF p \in DOMAIN u THEN u[p] ELSE NoUpstream
        BY <1>4 DEF Extended
    <2>2. p \in DOMAIN u => u[p] = IF \E x \in S : x # <<>> /\ p = Reverse(x) THEN upstream
                                   ELSE IF p \in DOMAIN t THEN t[p] ELSE NoUpstream
        BY DEF Extended
    <2>3. v[p] = IF \E x \in S \cup {name} : x # <<>> /\ p = Reverse(x) THEN upstream
                 ELSE IF p \in DOMAIN t THEN t[p] ELSE NoUpstream
        BY DEF Extended
    <2>4. ASSUME NEW x \in S, x # <<>>, p = Reverse(x), p \notin DOMAIN u PROVE FALSE
        <3>1. Len(x) \in 1 .. Len(x) /\ Path(x, Len(x)) = Reverse(x)
            BY <2>4, PathFacts
        <3>2. Reverse(x) \in Paths(S)
            BY <3>1 DEF Paths
        <3> QED
            BY <2>4, <3>2, <1>2
    <2> HIDE DEF u, v, w
    <2>5. CASE \E x \in S : x # <<>> /\ p = Reverse(x)
        BY <2>1, <2>2, <2>3, <2>4, <2>5
    <2>6. CASE ~ \E x \in S : x # <<>> /\ p = Reverse(x)
        <3>1. p \in DOMAIN t => p \in DOMAIN u
            BY <1>2
        <3>2. v[p] = IF name # <<>> /\ p = Reverse(name) THEN upstream
                     ELSE IF p \in DOMAIN t THEN t[p] ELSE NoUpstream
            BY <2>3, <2>6
        <3> QED
            <4>1. CASE p \in DOMAIN u
                BY <2>1, <2>2, <2>6, <3>2, <4>1
            <4>2. CASE p \notin DOMAIN u
                BY <2>1, <3>1, <3>2, <4>2
            <4> QED
                BY <4>1, <4>2
    <2> QED
        BY <2>5, <2>6
<1>6. w = [p \in DOMAIN w |-> w[p]] /\ v = [p \in DOMAIN v |-> v[p]]
    BY DEF Extended
<1> QED
    BY <1>4, <1>5, <1>6

\* The loop over the domains of a rule: after k of them.
LEMMA AddRulesExtends ==
    ASSUME NEW t, t = [p \in DOMAIN t |-> t[p]], NEW names \in Seq(Seq(Labels)), NEW upstream
    PROVE  AddRules(t, names, upstream)
               = Extended(t, {names[k] : k \in 1 .. Len(names)}, upstream)
<1> DEFINE n == Len(names)
           Step(f) == [k \in 0 .. n |->
                         IF k = 0 THEN t ELSE AddRule(f[k - 1], names[k], upstream)]
           after == CHOOSE f : f = Step(f)
           First(k) == {names[i] : i \in 1 .. k}
           closed == [k \in 0 .. n |-> Extended(t, First(k), upstream)]
<1>0. n \in Nat
    OBVIOUS
<1>1. AddRules(t, names, upstream) = after[n]
    BY Zenon DEF AddRules
<1> HIDE DEF n
<1>2. closed = Step(closed)
    <2>1. ASSUME NEW k \in 0 .. n
          PROVE  closed[k] = IF k = 0 THEN t ELSE AddRule(closed[k - 1], names[k], upstream)
        <3>1. CASE k = 0
            <4>1. First(k) = {} /\ Paths(First(k)) = {}
                BY <3>1 DEF Paths
            <4>2. Extended(t, First(k), upstream) = [p \in DOMAIN t |-> t[p]]
                BY <4>1 DEF Extended
            <4> QED
                BY <3>1, <4>2
        <3>2. CASE k # 0
            <4>1. k - 1 \in 0 .. n /\ k \in 1 .. n /\ names[k] \in Seq(Labels)
                BY <3>2, <1>0 DEF n
            <4>2. First(k) = First(k - 1) \cup {names[k]}
                <5>1. \A i : i \in 1 .. k <=> i \in 1 .. k - 1 \/ i = k
                    BY <4>1, <1>0
                <5> QED
                    BY <5>1
            <4>3. First(k - 1) \in SUBSET Seq(Labels)
                <5>1. \A i \in 1 .. k - 1 : names[i] \in Seq(Labels)
                    BY <4>1, <1>0 DEF n
                <5> QED
                    BY <5>1
            <4> DEFINE c == Extended(t, First(k - 1), upstream)
            <4>4. c = [p \in DOMAIN c |-> c[p]]
                BY DEF Extended
            <4>5. AddRule(c, names[k], upstream) = Extended(c, {names[k]}, upstream)
                BY <4>1, <4>4, AddRuleExtends
            <4>6. Extended(c, {names[k]}, upstream) = Extended(t, First(k), upstream)
                <5> HIDE DEF First
                <5> QED
                    BY <4>1, <4>2, <4>3, ExtendedTwice
            <4>7. closed[k - 1] = c /\ closed[k] = Extended(t, First(k), upstream)
                BY <4>1
            <4> HIDE DEF c, closed
            <4> QED
                BY <3>2, <4>5, <4>6, <4>7
        <3> QED  BY <3>1, <3>2
    <2> QED
        BY <2>1
<1> HIDE DEF closed
<1>3. after = Step(after)
    BY <1>2, Zenon
<1> HIDE DEF after
<1>4. after[n] = closed[n]
    <2> DEFINE Wrong == {k \in 0 .. n : after[k] # closed[k]}
    <2>1. SUFFICES ASSUME Wrong # {} PROVE FALSE
        <3>1. n \in 0 .. n
            BY <1>0
        <3> QED
            BY <3>1
    <2>0. Wrong \subseteq Nat
        BY <1>0
    <2>2. PICK k \in Wrong : \A o \in Wrong : k <= o
        BY <2>0, <2>1, LeastNatural
    <2>3. k \in 0 .. n /\ after[k] # closed[k]
        OBVIOUS
    <2>4. after[k] = IF k = 0 THEN t ELSE AddRule(after[k - 1], names[k], upstream)
        BY <1>3, <2>3
    <2>5. closed[k] = IF k = 0 THEN t ELSE AddRule(closed[k - 1], names[k], upstream)
        BY <1>2, <2>3
    <2>6. k # 0 => k - 1 \in 0 .. n /\ k - 1 \notin Wrong
        BY <2>2, <2>3, <1>0
    <2> QED
        BY <2>3, <2>4, <2>5, <2>6
<1>5. closed[n] = Extended(t, First(n), upstream)
    BY <1>0 DEF closed
<1> QED
    BY <1>1, <1>4, <1>5 DEF n
-----------------------------------------------------------------------------
(* The engine while it is built *)

\* Rule i is the last one for suffix s.
LastFor(i, s) ==
    /\ <<i, s>> \in SuffixRules
    /\ \A q \in SuffixRules : q[2] = s => q[1] <= i

\* The trie is a function on paths that has all parts of its paths, ...
Tree ==
    /\ trie = [p \in DOMAIN trie |-> trie[p]]
    /\ DOMAIN trie \subseteq Seq(Labels)
    /\ <<>> \in DOMAIN trie
    /\ \A p \in DOMAIN trie : \A n \in 0 .. Len(p) : SubSeq(p, 1, n) \in DOMAIN trie

\* ... with the upstream of the last rule for each suffix and no other.
Upstreams ==
    /\ trie[<<>>] = NoUpstream
    /\ \A i \in 1 .. Len(rules) : \A s \in SuffixNames(rules[i]) :
          s # <<>> /\ LastFor(i, s) =>
              Reverse(s) \in DOMAIN trie /\ trie[Reverse(s)] = rules[i].proxy
    /\ \A p \in DOMAIN trie :
          trie[p] # NoUpstream => \E i \in 1 .. Len(rules) : LastFor(i, Reverse(p))

TrieOK == Tree /\ Upstreams

\* A rule that NewRuleEngine keeps as an item.
IsItem(r) ==
    \/ r.type \in {"DOMAIN", "DOMAIN-KEYWORD", "GEOIP", "MATCH"}
    \/ r.type = "IP-CIDR" /\ r.payload \in DOMAIN InPrefix

\* The items are these rules: item k is the one at position pos[k].
InOrder(pos) ==
    /\ \A k \in 1 .. Len(items) : items[k] = rules[pos[k]]
    /\ \A k, l \in 1 .. Len(items) : k < l => pos[k] < pos[l]
    /\ \A i \in 1 .. Len(rules) : IsItem(rules[i]) <=> \E k \in 1 .. Len(items) : pos[k] = i

ItemsOK == items \in Seq(Configs) /\ \E pos \in [1 .. Len(items) -> 1 .. Len(rules)] : InOrder(pos)

RInv == rules \in Seq(Configs) /\ Len(rules) <= MaxRules /\ TrieOK /\ ItemsOK

LEMMA RInitInv == RInit => RInv
<1> SUFFICES ASSUME RInit PROVE RInv
    OBVIOUS
<1>1. rules = <<>> /\ items = <<>> /\ rules \in Seq(Configs) /\ items \in Seq(Configs)
      /\ Len(rules) = 0 /\ Len(items) = 0
    BY DEF RInit
<1>2. DOMAIN trie = {<<>>} /\ trie[<<>>] = NoUpstream /\ trie = [p \in DOMAIN trie |-> trie[p]]
    BY DEF RInit
<1>3. SuffixRules = {}
    BY <1>1 DEF SuffixRules
<1>4. Tree
    <2>1. ASSUME NEW n \in 0 .. Len(<<>>) PROVE SubSeq(<<>>, 1, n) = <<>>
        BY DEF SubSeq
    <2> QED
        BY <1>2, <2>1 DEF Tree
<1>5. Upstreams
    BY <1>2, <1>3 DEF Upstreams, LastFor
<1>6. ItemsOK
    <2> DEFINE pos == [k \in 1 .. Len(items) |-> k]
    <2>1. 1 .. Len(items) = {} /\ 1 .. Len(rules) = {}
        BY <1>1
    <2>2. pos \in [1 .. Len(items) -> 1 .. Len(rules)] /\ InOrder(pos)
        BY <2>1 DEF InOrder
    <2> QED
        BY <1>1, <2>2 DEF ItemsOK
<1> QED
    BY <1>1, <1>4, <1>5, <1>6, RAssumption DEF RInv, TrieOK

\* One more rule gives one more position.
LEMMA SuffixRulesStep ==
    ASSUME rules \in Seq(Configs), NEW r \in Configs, rules' = Append(rules, r)
    PROVE  /\ Len(rules') = Len(rules) + 1 /\ rules' \in Seq(Configs)
           /\ \A i \in 1 .. Len(rules) : rules'[i] = rules[i]
           /\ rules'[Len(rules) + 1] = r
           /\ \A i, s : <<i, s>> \in SuffixRules <=> i \in 1 .. Len(rules) /\ s \in SuffixNames(rules[i])
           /\ \A q \in SuffixRules : q = <<q[1], q[2]>>
           /\ SuffixRules' = SuffixRules \cup ({Len(rules) + 1} \X SuffixNames(r))
<1> DEFINE n == Len(rules) + 1
           P(i) == {i} \X SuffixNames(rules[i])
<1>1. /\ Len(rules') = n /\ rules' \in Seq(Configs) /\ n \in Nat
      /\ \A i \in 1 .. Len(rules) : rules'[i] = rules[i]
      /\ rules'[n] = r
    OBVIOUS
<1>2. \A i : i \in 1 .. n <=> i \in 1 .. Len(rules) \/ i = n
    BY <1>1
<1>3. SuffixRules' = UNION {{i} \X SuffixNames(rules'[i]) : i \in 1 .. n}
    BY <1>1 DEF SuffixRules, SuffixNames
<1>4. SuffixRules = UNION {P(i) : i \in 1 .. Len(rules)}
    BY DEF SuffixRules
<1>5. \A q : q \in SuffixRules' <=> q \in SuffixRules \cup ({n} \X SuffixNames(r))
    BY <1>1, <1>2, <1>3, <1>4
<1>6. \A i, s : <<i, s>> \in SuffixRules <=> i \in 1 .. Len(rules) /\ s \in SuffixNames(rules[i])
    BY <1>4
<1>7. \A q \in SuffixRules : q = <<q[1], q[2]>>
    BY <1>4
<1> QED
    BY <1>1, <1>5, <1>6, <1>7

\* The names of a rule are names.
LEMMA SuffixNamesTyped ==
    ASSUME NEW r \in Configs
    PROVE  SuffixNames(r) \in SUBSET Seq(Labels)
<1>1. /\ IsList(r) => \A k \in 1 .. Len(r.domains) : r.domains[k] \in Seq(Labels)
      /\ IsSuffixRule(r) => r.payload \in Seq(Labels)
    BY RAssumption
<1> QED
    BY <1>1 DEF SuffixNames

\* Its suffixes are its own from now on.
LEMMA LastForStep ==
    ASSUME rules \in Seq(Configs), NEW r \in Configs, rules' = Append(rules, r),
           NEW i, NEW s
    PROVE  LastFor(i, s)' <=> IF s \in SuffixNames(r) THEN i = Len(rules) + 1 ELSE LastFor(i, s)
<1> DEFINE n == Len(rules) + 1
<1>1. /\ SuffixRules' = SuffixRules \cup ({n} \X SuffixNames(r))
      /\ \A j, t : <<j, t>> \in SuffixRules <=> j \in 1 .. Len(rules) /\ t \in SuffixNames(rules[j])
      /\ \A q \in SuffixRules : q = <<q[1], q[2]>>
    BY SuffixRulesStep
<1>2. n \in Nat /\ \A q \in SuffixRules : q[1] \in 1 .. Len(rules) /\ q[1] < n
    BY <1>1
<1>3. \A t : <<n, t>> \notin SuffixRules
    BY <1>1, <1>2
<1>4. LastFor(i, s)' <=> /\ <<i, s>> \in SuffixRules'
                         /\ \A q \in SuffixRules' : q[2] = s => q[1] <= i
    BY DEF LastFor
<1>5. <<i, s>> \in SuffixRules' <=> <<i, s>> \in SuffixRules \/ (i = n /\ s \in SuffixNames(r))
    BY <1>1
<1> HIDE DEF n
<1>6. (\A q \in SuffixRules' : q[2] = s => q[1] <= i)
        <=> /\ \A q \in SuffixRules : q[2] = s => q[1] <= i
            /\ s \in SuffixNames(r) => n <= i
    <2>1. ASSUME \A q \in SuffixRules' : q[2] = s => q[1] <= i, s \in SuffixNames(r)
          PROVE  n <= i
        <3>1. <<n, s>> \in SuffixRules'
            BY <1>1, <2>1
        <3> QED
            BY <2>1, <3>1
    <2>2. ASSUME \A q \in SuffixRules : q[2] = s => q[1] <= i, s \in SuffixNames(r) => n <= i,
                 NEW q \in SuffixRules', q[2] = s
          PROVE  q[1] <= i
        <3>1. q \in SuffixRules \/ (q[1] = n /\ q[2] \in SuffixNames(r))
            BY <1>1, <2>2
        <3> QED
            BY <2>2, <3>1
    <2>3. SuffixRules \subseteq SuffixRules'
        BY <1>1
    <2> QED
        BY <2>1, <2>2, <2>3
<1>7. CASE s \in SuffixNames(r)
    <2>1. i = n => \A q \in SuffixRules : q[1] <= i
        BY <1>2
    <2>2. <<i, s>> \in SuffixRules => ~ (n <= i)
        BY <1>1, <1>2 DEF n
    <2>3. i = n => n <= i
        BY <1>2
    <2> QED
        BY <1>4, <1>5, <1>6, <1>7, <2>1, <2>2, <2>3 DEF n
<1>8. CASE s \notin SuffixNames(r)
    BY <1>4, <1>5, <1>6, <1>8 DEF LastFor
<1> QED  BY <1>7, <1>8

\* The trie after a rule, whatever its kind.
LEMMA TrieStep ==
    ASSUME RInv, NEW r \in Configs, rules' = Append(rules, r),
           trie' = Extended(trie, SuffixNames(r), r.proxy)
    PROVE  TrieOK'
<1> DEFINE S == SuffixNames(r)
           n == Len(rules) + 1
<1>0. rules \in Seq(Configs) /\ Tree /\ Upstreams
    BY DEF RInv, TrieOK
<1>1. S \in SUBSET Seq(Labels)
    BY SuffixNamesTyped
<1>2. /\ Len(rules') = n
      /\ \A i \in 1 .. Len(rules) : rules'[i] = rules[i]
      /\ rules'[n] = r
      /\ \A i, s : <<i, s>> \in SuffixRules <=> i \in 1 .. Len(rules) /\ s \in SuffixNames(rules[i])
    BY <1>0, SuffixRulesStep
<1>3. \A i, s : LastFor(i, s)' <=> IF s \in S THEN i = n ELSE LastFor(i, s)
    BY <1>0, LastForStep
<1>n. n \in Nat /\ n \in 1 .. n /\ \A i \in 1 .. Len(rules) : i \in 1 .. n
    BY <1>0
<1> HIDE DEF S, n
<1>4. DOMAIN trie' = DOMAIN trie \cup Paths(S) /\ trie' = [p \in DOMAIN trie' |-> trie'[p]]
    BY DEF Extended, S
<1>5. \A p \in DOMAIN trie' :
         trie'[p] = IF \E name \in S : name # <<>> /\ p = Reverse(name) THEN r.proxy
                    ELSE IF p \in DOMAIN trie THEN trie[p] ELSE NoUpstream
    BY <1>4 DEF Extended, S
<1>6. \A p : p \in Paths(S) <=> \E name \in S : \E k \in 1 .. Len(name) : p = Path(name, k)
    BY DEF Paths
<1>7. Tree'
    <2>1. DOMAIN trie' \subseteq Seq(Labels)
        <3>1. ASSUME NEW name \in S, NEW k \in 1 .. Len(name) PROVE Path(name, k) \in Seq(Labels)
            BY <1>1, PathFacts
        <3> QED
            BY <3>1, <1>0, <1>4, <1>6 DEF Tree
    <2>2. ASSUME NEW p \in DOMAIN trie', NEW m \in 0 .. Len(p)
          PROVE  SubSeq(p, 1, m) \in DOMAIN trie'
        <3>1. CASE p \in DOMAIN trie
            BY <3>1, <1>0, <1>4 DEF Tree
        <3>2. CASE p \in Paths(S)
            <4>1. PICK name \in S : \E k \in 1 .. Len(name) : p = Path(name, k)
                BY <1>6, <3>2
            <4>a. PICK k \in 1 .. Len(name) : p = Path(name, k)
                BY <4>1
            <4>2. name \in Seq(Labels) /\ k \in 0 .. Len(name)
                BY <1>1
            <4>3. Len(p) = k /\ m \in 0 .. k /\ SubSeq(p, 1, m) = Path(name, m) /\ Path(name, 0) = <<>>
                BY <4>a, <4>2, PathFacts
            <4>4. CASE m = 0
                BY <4>3, <4>4, <1>0, <1>4 DEF Tree
            <4>5. CASE m # 0
                <5>1. m \in 1 .. Len(name)
                    BY <4>2, <4>3, <4>5
                <5> QED
                    BY <4>3, <5>1, <1>4, <1>6
            <4> QED  BY <4>4, <4>5
        <3> QED  BY <3>1, <3>2, <1>4
    <2> QED
        BY <2>1, <2>2, <1>0, <1>4 DEF Tree
<1>8. \A s, t \in Seq(Labels) : Reverse(s) = Reverse(t) => s = t
    BY ReverseFacts
<1>9. \A s \in Seq(Labels) : /\ Reverse(s) \in Seq(Labels) /\ Reverse(Reverse(s)) = s
                             /\ (s # <<>> <=> Reverse(s) # <<>>)
    <2>1. ASSUME NEW s \in Seq(Labels)
          PROVE  Reverse(s) \in Seq(Labels) /\ Reverse(Reverse(s)) = s /\ Len(Reverse(s)) = Len(s)
        BY ReverseFacts
    <2>2. \A s \in Seq(Labels) : s # <<>> <=> Len(s) # 0
        OBVIOUS
    <2> QED
        BY <2>1, <2>2
<1>10. ASSUME NEW s \in S, s # <<>> PROVE Reverse(s) \in DOMAIN trie'
    <2>1. Len(s) \in 1 .. Len(s) /\ Path(s, Len(s)) = Reverse(s)
        BY <1>1, <1>10, PathFacts
    <2> QED
        BY <2>1, <1>4, <1>6
<1>11. Upstreams'
    <2>1. trie'[<<>>] = NoUpstream
        <3>1. <<>> \in DOMAIN trie /\ <<>> \in DOMAIN trie' /\ trie[<<>>] = NoUpstream
            BY <1>0, <1>4 DEF Tree, Upstreams
        <3>2. ~ \E name \in S : name # <<>> /\ <<>> = Reverse(name)
            BY <1>1, <1>9
        <3> QED
            BY <3>1, <3>2, <1>5
    <2>2. ASSUME NEW i \in 1 .. n, NEW s \in SuffixNames(rules'[i]), s # <<>>, LastFor(i, s)'
          PROVE  Reverse(s) \in DOMAIN trie' /\ trie'[Reverse(s)] = rules'[i].proxy
        <3>1. CASE s \in S
            <4>1. i = n /\ rules'[i] = r
                BY <1>2, <1>3, <2>2, <3>1
            <4>2. Reverse(s) \in DOMAIN trie'
                BY <1>10, <2>2, <3>1
            <4> QED
                BY <4>1, <4>2, <1>5, <2>2, <3>1
        <3>2. CASE s \notin S
            <4>1. LastFor(i, s)
                BY <1>3, <2>2, <3>2
            <4>2. i \in 1 .. Len(rules) /\ s \in SuffixNames(rules[i])
                BY <4>1, <1>2 DEF LastFor
            <4>3. Reverse(s) \in DOMAIN trie /\ trie[Reverse(s)] = rules[i].proxy
                BY <4>1, <4>2, <2>2, <1>0 DEF Upstreams
            <4>4. rules[i] \in Configs
                BY <4>2, <1>0
            <4>5. s \in Seq(Labels)
                BY <4>2, <4>4, SuffixNamesTyped
            <4>6. ~ \E name \in S : name # <<>> /\ Reverse(s) = Reverse(name)
                BY <4>5, <1>1, <1>8, <3>2
            <4> QED
                BY <4>2, <4>3, <4>6, <1>2, <1>4, <1>5
        <3> QED  BY <3>1, <3>2
    <2>3. ASSUME NEW p \in DOMAIN trie', trie'[p] # NoUpstream
          PROVE  \E i \in 1 .. n : LastFor(i, Reverse(p))'
        <3>1. CASE \E name \in S : name # <<>> /\ p = Reverse(name)
            <4>1. PICK name \in S : p = Reverse(name)
                BY <3>1
            <4>2. Reverse(p) = name
                BY <4>1, <1>1, <1>9
            <4>3. PICK i \in 1 .. n : i = n
                BY <1>n
            <4>4. LastFor(i, Reverse(p))'
                BY <4>2, <4>3, <1>3
            <4> QED
                BY <4>4
        <3>2. CASE ~ \E name \in S : name # <<>> /\ p = Reverse(name)
            <4>1. p \in DOMAIN trie /\ trie[p] # NoUpstream
                BY <1>5, <2>3, <3>2
            <4>2. PICK i \in 1 .. Len(rules) : LastFor(i, Reverse(p))
                BY <4>1, <1>0 DEF Upstreams
            <4>3. p \in Seq(Labels) /\ p # <<>>
                BY <4>1, <1>0 DEF Tree, Upstreams
            <4>4. Reverse(p) \notin S
                BY <4>3, <1>9, <3>2
            <4>5. LastFor(i, Reverse(p))'
                BY <4>2, <4>4, <1>3
            <4> QED
                BY <4>5, <1>n
        <3> QED  BY <3>1, <3>2
    <2> QED
        BY <2>1, <2>2, <2>3, <1>2 DEF Upstreams, SuffixNames
<1> QED
    BY <1>7, <1>11 DEF TrieOK

\* A rule that is no item leaves the items as they are, ...
LEMMA ItemsKept ==
    ASSUME RInv, NEW r \in Configs, rules' = Append(rules, r), items' = items, ~ IsItem(r)
    PROVE  ItemsOK'
<1>1. rules \in Seq(Configs) /\ items \in Seq(Configs)
    BY DEF RInv, ItemsOK
<1>2. PICK pos \in [1 .. Len(items) -> 1 .. Len(rules)] : InOrder(pos)
    BY DEF RInv, ItemsOK
<1> DEFINE n == Len(rules) + 1
<1>3. /\ Len(rules') = n /\ \A i \in 1 .. Len(rules) : rules'[i] = rules[i]
      /\ rules'[n] = r /\ n \in Nat
    BY <1>1
<1>4. \A i : i \in 1 .. n <=> i \in 1 .. Len(rules) \/ i = n
    BY <1>1
<1>5. \A k \in 1 .. Len(items) : pos[k] \in 1 .. Len(rules) /\ pos[k] # n
    BY <1>1
<1> HIDE DEF n
<1>6. pos \in [1 .. Len(items) -> 1 .. n]
    BY <1>4
<1>7. InOrder(pos)'
    <2>1. \A k \in 1 .. Len(items) : items[k] = rules'[pos[k]]
        BY <1>2, <1>3, <1>5 DEF InOrder
    <2>2. \A i \in 1 .. n : IsItem(rules'[i]) <=> \E k \in 1 .. Len(items) : pos[k] = i
        BY <1>2, <1>3, <1>4, <1>5 DEF InOrder
    <2>3. \A k, l \in 1 .. Len(items) : k < l => pos[k] < pos[l]
        BY <1>2 DEF InOrder
    <2> QED
        BY <2>1, <2>2, <2>3, <1>3 DEF InOrder, IsItem
<1> QED
    BY <1>1, <1>3, <1>6, <1>7 DEF ItemsOK

\* ... an item becomes the last of them.
LEMMA ItemAppended ==
    ASSUME RInv, NEW r \in Configs, rules' = Append(rules, r), items' = Append(items, r), IsItem(r)
    PROVE  ItemsOK'
<1>1. rules \in Seq(Configs) /\ items \in Seq(Configs)
    BY DEF RInv, ItemsOK
<1>2. PICK pos \in [1 .. Len(items) -> 1 .. Len(rules)] : InOrder(pos)
    BY DEF RInv, ItemsOK
<1> DEFINE n == Len(rules) + 1
           m == Len(items) + 1
<1>3. /\ Len(rules') = n /\ \A i \in 1 .. Len(rules) : rules'[i] = rules[i]
      /\ rules'[n] = r /\ n \in Nat
    BY <1>1
<1>4. /\ Len(items') = m /\ \A k \in 1 .. Len(items) : items'[k] = items[k]
      /\ items'[m] = r /\ m \in Nat /\ items' \in Seq(Configs)
    BY <1>1
<1>5. \A i : i \in 1 .. n <=> i \in 1 .. Len(rules) \/ i = n
    BY <1>1
<1>6. \A k : k \in 1 .. m <=> k \in 1 .. Len(items) \/ k = m
    BY <1>1
<1>7. \A k \in 1 .. Len(items) : /\ pos[k] \in 1 .. Len(rules) /\ pos[k] # n /\ pos[k] < n
                                 /\ k # m /\ k < m /\ ~ (m < k)
    BY <1>1
<1> HIDE DEF n, m
<1>8. PICK new : new = [k \in 1 .. m |-> IF k = m THEN n ELSE pos[k]]
    OBVIOUS
<1>9. m \in 1 .. m /\ n \in 1 .. n /\ new[m] = n /\ \A k \in 1 .. Len(items) : new[k] = pos[k]
    BY <1>5, <1>6, <1>7, <1>8
<1>10. new \in [1 .. m -> 1 .. n]
    BY <1>5, <1>6, <1>8
<1>11. InOrder(new)'
    <2>1. ASSUME NEW k \in 1 .. m PROVE items'[k] = rules'[new[k]]
        BY <1>2, <1>3, <1>4, <1>6, <1>7, <1>9 DEF InOrder
    <2>2. ASSUME NEW k \in 1 .. m, NEW l \in 1 .. m, k < l PROVE new[k] < new[l]
        <3>1. k \in 1 .. Len(items)
            BY <1>4, <1>6, <2>2
        <3>2. CASE l = m
            BY <3>1, <3>2, <1>7, <1>9
        <3>3. CASE l \in 1 .. Len(items)
            BY <3>1, <3>3, <1>2, <1>9, <2>2 DEF InOrder
        <3> QED  BY <3>2, <3>3, <1>6
    <2>3. ASSUME NEW i \in 1 .. n PROVE IsItem(rules'[i]) <=> \E k \in 1 .. m : new[k] = i
        <3>1. CASE i = n
            BY <3>1, <1>3, <1>9
        <3>2. CASE i \in 1 .. Len(rules)
            <4>1. IsItem(rules'[i]) <=> \E k \in 1 .. Len(items) : pos[k] = i
                BY <3>2, <1>2, <1>3 DEF InOrder
            <4>2. i # n
                BY <3>2, <1>1 DEF n
            <4> QED
                BY <4>1, <4>2, <1>6, <1>9
        <3> QED  BY <3>1, <3>2, <1>5
    <2> QED
        BY <2>1, <2>2, <2>3, <1>3, <1>4 DEF InOrder, IsItem
<1> QED
    BY <1>3, <1>4, <1>10, <1>11 DEF ItemsOK

\* A rule of another kind gives no suffix.
LEMMA NoSuffixes ==
    ASSUME NEW r, r.type # "", r.type # "DOMAIN-SUFFIX", Tree
    PROVE  trie = Extended(trie, SuffixNames(r), r.proxy)
<1>1. SuffixNames(r) = {}
    BY DEF SuffixNames, IsList, IsSuffixRule
<1>2. Paths({}) = {}
    BY DEF Paths
<1>3. Extended(trie, {}, r.proxy) = [p \in DOMAIN trie |-> trie[p]]
    BY <1>2 DEF Extended
<1> QED
    BY <1>1, <1>3 DEF Tree

\* The strings that name the kinds of rules are different.
LEMMA ItemIsNoSuffix ==
    ASSUME NEW r, IsItem(r) \/ r.type = "IP-CIDR" \/ r.type = "UNKNOWN"
    PROVE  r.type # "" /\ r.type # "DOMAIN-SUFFIX"
<1>1. r.type \in {"DOMAIN", "DOMAIN-KEYWORD", "GEOIP", "MATCH", "IP-CIDR", "UNKNOWN"}
    BY DEF IsItem
<1>2. "DOMAIN" # "" /\ "DOMAIN" # "DOMAIN-SUFFIX"
    BY Zenon
<1>3. "DOMAIN-KEYWORD" # "" /\ "DOMAIN-KEYWORD" # "DOMAIN-SUFFIX"
    BY Zenon
<1>4. "GEOIP" # "" /\ "GEOIP" # "DOMAIN-SUFFIX"
    BY Zenon
<1>5. "MATCH" # "" /\ "MATCH" # "DOMAIN-SUFFIX"
    BY Zenon
<1>6. "IP-CIDR" # "" /\ "IP-CIDR" # "DOMAIN-SUFFIX"
    BY Zenon
<1>7. "UNKNOWN" # "" /\ "UNKNOWN" # "DOMAIN-SUFFIX"
    BY Zenon
<1> QED
    BY <1>1, <1>2, <1>3, <1>4, <1>5, <1>6, <1>7, Zenon

\* NewRuleEngine preserves the invariant with every rule it takes.
LEMMA RNextInv == RInv /\ [RNext]_rVars => RInv'
<1> SUFFICES ASSUME RInv, [RNext]_rVars PROVE RInv'
    OBVIOUS
<1>1. CASE UNCHANGED rVars
    <2>1. rules' = rules /\ trie' = trie /\ items' = items
        BY <1>1 DEF rVars
    <2>2. SuffixRules' = SuffixRules
        BY <2>1 DEF SuffixRules
    <2>3. \A i, s : LastFor(i, s)' <=> LastFor(i, s)
        BY <2>2 DEF LastFor
    <2>4. Tree'
        BY <2>1 DEF RInv, TrieOK, Tree
    <2>5. Upstreams'
        <3>1. Upstreams
            BY DEF RInv, TrieOK
        <3>2. \A p : (\E i \in 1 .. Len(rules) : LastFor(i, Reverse(p)))'
                        <=> \E i \in 1 .. Len(rules) : LastFor(i, Reverse(p))
            BY <2>1, <2>3
        <3>3. ASSUME NEW i \in 1 .. Len(rules), NEW s \in SuffixNames(rules[i]), s # <<>>, LastFor(i, s)'
              PROVE  Reverse(s) \in DOMAIN trie /\ trie[Reverse(s)] = rules[i].proxy
            BY <2>3, <3>1, <3>3 DEF Upstreams
        <3> QED
            BY <2>1, <3>1, <3>2, <3>3 DEF Upstreams
    <2>6. ItemsOK'
        <3>1. PICK pos \in [1 .. Len(items) -> 1 .. Len(rules)] : InOrder(pos)
            BY DEF RInv, ItemsOK
        <3>2. InOrder(pos)'
            BY <2>1, <3>1 DEF InOrder
        <3> QED
            BY <2>1, <3>1, <3>2 DEF RInv, ItemsOK
    <2> QED
        BY <2>1, <2>4, <2>5, <2>6 DEF RInv, TrieOK
<1>2. ASSUME NEW r \in Configs, TakeRule(r) PROVE RInv'
    <2>1. rules \in Seq(Configs) /\ Tree /\ trie = [p \in DOMAIN trie |-> trie[p]]
        BY DEF RInv, TrieOK, Tree
    <2>2. rules' = Append(rules, r) /\ rules' \in Seq(Configs) /\ Len(rules') <= MaxRules
        BY <1>2, <2>1, RAssumption DEF TakeRule
    <2>3. SUFFICES trie' = Extended(trie, SuffixNames(r), r.proxy) /\ ItemsOK'
        BY <2>2, TrieStep DEF RInv
    <2>4. CASE IsList(r) /\ trie' = AddRules(trie, r.domains, r.proxy) /\ UNCHANGED items
        <3>1. r.domains \in Seq(Seq(Labels))
            BY <2>4, RAssumption
        <3>2. SuffixNames(r) = {r.domains[k] : k \in 1 .. Len(r.domains)}
            BY <2>4 DEF SuffixNames
        <3>3. ~ IsItem(r)
            BY <2>4, ItemIsNoSuffix DEF IsList
        <3>4. AddRules(trie, r.domains, r.proxy)
                  = Extended(trie, {r.domains[k] : k \in 1 .. Len(r.domains)}, r.proxy)
            BY <3>1, <2>1, AddRulesExtends
        <3>5. ItemsOK'
            BY <3>3, <2>2, <2>4, ItemsKept
        <3> QED
            BY <3>2, <3>4, <3>5, <2>4, Zenon
    <2>5. CASE IsSuffixRule(r) /\ trie' = AddRule(trie, r.payload, r.proxy) /\ UNCHANGED items
        <3>1. r.payload \in Seq(Labels)
            BY <2>5, RAssumption
        <3>2. ~ IsList(r)
            <4>1. "" # "DOMAIN-SUFFIX"
                BY Zenon
            <4> QED
                BY <4>1, <2>5, Zenon DEF IsList, IsSuffixRule
        <3>3. SuffixNames(r) = {r.payload}
            BY <3>2, <2>5 DEF SuffixNames
        <3>4. ~ IsItem(r)
            BY <2>5, ItemIsNoSuffix DEF IsSuffixRule
        <3> QED
            BY <3>1, <3>3, <3>4, <2>1, <2>2, <2>5, AddRuleExtends, ItemsKept
    <2>6. CASE IsItem(r) /\ items' = Append(items, r) /\ UNCHANGED trie
        BY <2>1, <2>2, <2>6, ItemIsNoSuffix, NoSuffixes, ItemAppended
    <2>7. CASE /\ r.type = "UNKNOWN" \/ (r.type = "IP-CIDR" /\ r.payload \notin DOMAIN InPrefix)
               /\ UNCHANGED <<trie, items>>
        <3>1. ~ IsItem(r)
            BY <2>7 DEF IsItem
        <3> QED
            BY <3>1, <2>1, <2>2, <2>7, ItemIsNoSuffix, NoSuffixes, ItemsKept
    <2> QED
        BY <1>2, <2>4, <2>5, <2>6, <2>7 DEF TakeRule, IsItem
<1> QED
    BY <1>1, <1>2 DEF RNext
-----------------------------------------------------------------------------
(* The lookup *)

\* The walk gets to every node on the path of a name.
LEMMA WalkReaches ==
    ASSUME Tree, NEW name \in Seq(Labels)
    PROVE  Reached(trie, name) = {n \in 0 .. Len(name) : Path(name, n) \in DOMAIN trie}
<1>1. ASSUME NEW n \in 0 .. Len(name), Path(name, n) \in DOMAIN trie, NEW m \in 0 .. n
      PROVE  Path(name, m) \in DOMAIN trie
    <2>1. Len(Path(name, n)) = n /\ SubSeq(Path(name, n), 1, m) = Path(name, m)
        BY PathFacts
    <2> QED
        BY <1>1, <2>1 DEF Tree
<1>2. \A n \in 0 .. Len(name) : n \in 0 .. n
    OBVIOUS
<1> QED
    BY <1>1, <1>2 DEF Reached

\* A suffix of a name is a path of its last labels, read from the right.
LEMMA SuffixIsPath ==
    ASSUME NEW s \in Seq(Labels), NEW name \in Seq(Labels)
    PROVE  IsSuffix(s, name) <=> Len(s) <= Len(name) /\ Reverse(s) = Path(name, Len(s))
<1>1. Len(Reverse(s)) = Len(s) /\ Len(Reverse(name)) = Len(name)
    BY ReverseFacts
<1>2. SubSeq(Reverse(s), 1, Len(s)) = Reverse(s)
    BY PathFacts DEF Path
<1> QED
    BY <1>1, <1>2 DEF IsSuffix, IsPrefix, Path

\* The nodes with an upstream on the path of a name are the suffix rules that
\* apply to it.
LEMMA HitsAreRules ==
    ASSUME RInv, NEW name \in Seq(Labels), NEW n
    PROVE  /\ n \in Reached(trie, name) /\ trie[Path(name, n)] # NoUpstream
                  => \E s \in SuffixRules : Applies(s, name) /\ Len(s[2]) = n
           /\ \A s \in SuffixRules : Applies(s, name) /\ Len(s[2]) = n =>
                  /\ n \in Reached(trie, name)
                  /\ trie[Path(name, n)] = rules[s[1]].proxy
                  /\ rules[s[1]].proxy # NoUpstream
<1>0. rules \in Seq(Configs) /\ Tree /\ Upstreams
    BY DEF RInv, TrieOK
<1>1. Reached(trie, name) = {k \in 0 .. Len(name) : Path(name, k) \in DOMAIN trie}
    BY <1>0, WalkReaches
<1>2. \A i, s : <<i, s>> \in SuffixRules <=> i \in 1 .. Len(rules) /\ s \in SuffixNames(rules[i])
    BY DEF SuffixRules
<1>3. \A q \in SuffixRules : q = <<q[1], q[2]>> /\ q[1] \in 1 .. Len(rules) /\ q[2] \in SuffixNames(rules[q[1]])
    BY DEF SuffixRules
<1>4. \A i \in 1 .. Len(rules) : SuffixNames(rules[i]) \in SUBSET Seq(Labels)
    BY <1>0, SuffixNamesTyped
<1>5. ASSUME n \in Reached(trie, name), trie[Path(name, n)] # NoUpstream
      PROVE  \E s \in SuffixRules : Applies(s, name) /\ Len(s[2]) = n
    <2> DEFINE p == Path(name, n)
               s == Reverse(p)
    <2>1. n \in 0 .. Len(name) /\ p \in DOMAIN trie /\ trie[p] # NoUpstream
        BY <1>1, <1>5
    <2>2. p \in Seq(Labels) /\ Len(p) = n
        BY <2>1, PathFacts
    <2>3. s \in Seq(Labels) /\ Len(s) = n /\ Reverse(s) = p
        BY <2>2, ReverseFacts
    <2>4. p # <<>>
        BY <2>1, <1>0 DEF Upstreams
    <2>5. PICK i \in 1 .. Len(rules) : LastFor(i, s)
        BY <2>1, <1>0 DEF Upstreams
    <2> HIDE DEF p, s
    <2>6. n # 0 /\ s # <<>>
        BY <2>2, <2>3, <2>4
    <2>7. <<i, s>> \in SuffixRules /\ s \in SuffixNames(rules[i])
        BY <2>5, <1>2 DEF LastFor
    <2>8. rules[i].proxy # NoUpstream
        BY <2>1, <2>3, <2>5, <2>6, <2>7, <1>0 DEF Upstreams
    <2>9. IsSuffix(s, name)
        BY <2>1, <2>3, SuffixIsPath DEF p
    <2>10. Applies(<<i, s>>, name)
        BY <2>5, <2>6, <2>8, <2>9 DEF Applies, LastFor
    <2> QED
        BY <2>3, <2>7, <2>10
<1>6. ASSUME NEW q \in SuffixRules, Applies(q, name), Len(q[2]) = n
      PROVE  /\ n \in Reached(trie, name)
             /\ trie[Path(name, n)] = rules[q[1]].proxy
             /\ rules[q[1]].proxy # NoUpstream
    <2>1. /\ q[1] \in 1 .. Len(rules) /\ q[2] \in SuffixNames(rules[q[1]])
          /\ q[2] \in Seq(Labels) /\ <<q[1], q[2]>> \in SuffixRules
        BY <1>3, <1>4
    <2>2. /\ q[2] # <<>> /\ IsSuffix(q[2], name) /\ rules[q[1]].proxy # NoUpstream
          /\ LastFor(q[1], q[2])
        BY <1>6, <2>1 DEF Applies, LastFor
    <2>3. n \in 0 .. Len(name) /\ Reverse(q[2]) = Path(name, n)
        BY <1>6, <2>1, <2>2, SuffixIsPath
    <2>4. Reverse(q[2]) \in DOMAIN trie /\ trie[Reverse(q[2])] = rules[q[1]].proxy
        BY <2>1, <2>2, <1>0 DEF Upstreams
    <2> QED
        BY <2>2, <2>3, <2>4, <1>1
<1> QED
    BY <1>5, <1>6

\* MatchNode gives the upstream of the best suffix.
LEMMA LongestSuffix ==
    ASSUME RInv, NEW name \in Seq(Labels)
    PROVE  /\ BestSuffix(name) # {} =>
                  /\ name # <<>> /\ MatchNode(trie, name) # NoUpstream
                  /\ MatchNode(trie, name) = rules[(CHOOSE r \in BestSuffix(name) : TRUE)[1]].proxy
           /\ BestSuffix(name) = {} => MatchNode(trie, name) = NoUpstream
<1> DEFINE hits == {n \in Reached(trie, name) : trie[Path(name, n)] # NoUpstream}
<1>1. hits \subseteq 0 .. Len(name) /\ Len(name) \in Nat
    BY DEF Reached
<1>2. ASSUME NEW s \in SuffixRules, Applies(s, name)
      PROVE  /\ Len(s[2]) \in hits
             /\ trie[Path(name, Len(s[2]))] = rules[s[1]].proxy
             /\ rules[s[1]].proxy # NoUpstream
    BY <1>2, HitsAreRules
<1>3. ASSUME NEW n \in hits
      PROVE  \E s \in SuffixRules : Applies(s, name) /\ Len(s[2]) = n
    BY HitsAreRules
<1>4. MatchNode(trie, name) = IF name = <<>> \/ hits = {} THEN NoUpstream
                              ELSE trie[Path(name, Max(hits))]
    BY DEF MatchNode
<1> HIDE DEF hits
<1>5. CASE hits = {}
    <2>1. BestSuffix(name) = {}
        BY <1>2, <1>5 DEF BestSuffix
    <2> QED
        BY <1>4, <1>5, <2>1
<1>6. CASE hits # {}
    <2>1. Max(hits) \in hits /\ \A n \in hits : Max(hits) >= n
        BY <1>1, <1>6, MaxOfSet
    <2> DEFINE m == Max(hits)
    <2> HIDE DEF m
    <2>2. m \in hits /\ m \in Nat /\ \A n \in hits : n <= m /\ n \in Nat
        <3>1. \A n \in hits : n \in Nat
            BY <1>1
        <3> QED
            BY <2>1, <3>1 DEF m
    <2>3. PICK s \in SuffixRules : Applies(s, name) /\ Len(s[2]) = m
        BY <2>2, <1>3
    <2>4. s \in BestSuffix(name)
        BY <2>2, <2>3, <1>2 DEF BestSuffix
    <2> DEFINE b == CHOOSE r \in BestSuffix(name) : TRUE
    <2>5. b \in BestSuffix(name)
        BY <2>4
    <2> HIDE DEF b
    <2>6. b \in SuffixRules /\ Applies(b, name) /\ Len(s[2]) <= Len(b[2])
        BY <2>3, <2>5 DEF BestSuffix
    <2>7. Len(b[2]) \in hits /\ Len(b[2]) = m
        BY <1>2, <2>2, <2>3, <2>6
    <2>8. trie[Path(name, m)] = rules[b[1]].proxy /\ rules[b[1]].proxy # NoUpstream
        BY <1>2, <2>6, <2>7
    <2>9. name # <<>>
        <3>1. m # 0
            <4>1. m \in Reached(trie, name) /\ trie[Path(name, m)] # NoUpstream
                BY <2>2 DEF hits
            <4>2. Path(name, 0) = <<>> /\ trie[<<>>] = NoUpstream
                BY PathFacts DEF RInv, TrieOK, Upstreams
            <4> QED
                BY <4>1, <4>2
        <3> QED
            BY <3>1, <2>2, <1>1
    <2> QED
        BY <1>4, <1>6, <2>4, <2>8, <2>9 DEF m, b
<1> QED  BY <1>5, <1>6

\* The items that hit are the other rules that do, the first is the first.
LEMMA FirstItem ==
    ASSUME RInv, NEW name, NEW ip
    PROVE  /\ FirstHit(name, ip) # {} <=> OtherRules(name, ip) # {}
           /\ FirstHit(name, ip) # {} =>
                  items[Min(FirstHit(name, ip))] = rules[Min(OtherRules(name, ip))]
<1> DEFINE F == FirstHit(name, ip)
           O == OtherRules(name, ip)
<1>0. rules \in Seq(Configs) /\ items \in Seq(Configs)
    BY DEF RInv, ItemsOK
<1>1. PICK pos \in [1 .. Len(items) -> 1 .. Len(rules)] : InOrder(pos)
    BY DEF RInv, ItemsOK
<1>2. ASSUME NEW i \in 1 .. Len(rules)
      PROVE  i \in O <=> IsItem(rules[i]) /\ Hits(rules[i], name, ip)
    <2> DEFINE r == rules[i]
               J == \/ r.type = "MATCH"
                    \/ r.type = "DOMAIN" /\ r.payload = LowerName(name)
                    \/ r.type = "DOMAIN-KEYWORD" /\ LowerName(name) \in KeywordIn[r.payload]
                    \/ r.type = "GEOIP" /\ r.payload \in {"PRIVATE", "LAN"} /\ ip \in PrivateAddrs
                    \/ /\ r.type = "IP-CIDR" /\ r.payload \in DOMAIN InPrefix
                       /\ ip \in InPrefix[r.payload]
    <2>1. i \in O <=> J
        BY DEF OtherRules
    <2> HIDE DEF r
    <2>2. CASE r.type = "MATCH"
        BY <2>1, <2>2 DEF IsItem, Hits, r
    <2>3. CASE r.type = "DOMAIN"
        BY <2>1, <2>3 DEF IsItem, Hits, r
    <2>4. CASE r.type = "DOMAIN-KEYWORD"
        BY <2>1, <2>4 DEF IsItem, Hits, r
    <2>5. CASE r.type = "GEOIP"
        BY <2>1, <2>5 DEF IsItem, Hits, r
    <2>6. CASE r.type = "IP-CIDR"
        <3>1. ASSUME r.payload \in DOMAIN InPrefix, ip \in InPrefix[r.payload] PROVE ip # NoAddr
            BY <3>1, RAssumption
        <3>2. Hits(r, name, ip) <=> ip # NoAddr /\ ip \in InPrefix[r.payload]
            BY <2>6 DEF Hits
        <3>3. IsItem(r) <=> r.payload \in DOMAIN InPrefix
            BY <2>6 DEF IsItem
        <3>4. i \in O <=> r.payload \in DOMAIN InPrefix /\ ip \in InPrefix[r.payload]
            BY <2>1, <2>6
        <3> QED
            BY <3>1, <3>2, <3>3, <3>4 DEF r
    <2>7. CASE r.type \notin {"MATCH", "DOMAIN", "DOMAIN-KEYWORD", "GEOIP", "IP-CIDR"}
        BY <2>1, <2>7 DEF IsItem, r
    <2> QED
        BY <2>2, <2>3, <2>4, <2>5, <2>6, <2>7
<1>3. O \subseteq 1 .. Len(rules) /\ F = {k \in 1 .. Len(items) : Hits(items[k], name, ip)}
    BY DEF OtherRules, FirstHit
<1>4. ASSUME NEW k \in 1 .. Len(items)
      PROVE  pos[k] \in 1 .. Len(rules) /\ items[k] = rules[pos[k]] /\ IsItem(rules[pos[k]])
    BY <1>1 DEF InOrder
<1> HIDE DEF F, O
<1>5. ASSUME NEW k \in 1 .. Len(items) PROVE k \in F <=> pos[k] \in O
    BY <1>2, <1>3, <1>4
<1>6. ASSUME NEW i \in O PROVE \E k \in F : pos[k] = i
    <2>1. i \in 1 .. Len(rules) /\ IsItem(rules[i])
        BY <1>2, <1>3
    <2>2. PICK k \in 1 .. Len(items) : pos[k] = i
        BY <2>1, <1>1 DEF InOrder
    <2> QED
        BY <2>2, <1>5
<1>7. F # {} <=> O # {}
    BY <1>3, <1>5, <1>6
<1>8. ASSUME F # {} PROVE items[Min(F)] = rules[Min(O)]
    <2>1. (\A k \in F : k \in Nat) /\ (\A i \in O : i \in Nat)
        BY <1>3
    <2>2. Min(F) \in F /\ \A k \in F : Min(F) <= k
        BY <1>8, <2>1, MinOfSet
    <2>3. Min(O) \in O /\ \A i \in O : Min(O) <= i
        BY <1>7, <1>8, <2>1, MinOfSet
    <2>4. PICK k \in F : k = Min(F)
        BY <2>2
    <2>5. PICK o \in O : o = Min(O)
        BY <2>3
    <2>6. k \in 1 .. Len(items) /\ pos[k] \in O
        BY <1>3, <1>5
    <2>7. PICK l \in F : pos[l] = o
        BY <1>6
    <2>8. l \in 1 .. Len(items) /\ k <= l /\ o <= pos[k]
        BY <2>2, <2>3, <2>4, <2>5, <2>6, <1>3
    <2>9. pos[k] <= o
        <3>1. CASE k = l
            BY <3>1, <2>1, <2>7
        <3>2. CASE k < l
            BY <3>2, <2>1, <2>6, <2>7, <2>8, <1>1 DEF InOrder
        <3> QED
            BY <3>1, <3>2, <2>1, <2>8
    <2>10. pos[k] = o
        BY <2>1, <2>6, <2>8, <2>9
    <2> QED
        BY <2>4, <2>5, <2>6, <2>10, <1>4
<1> QED
    BY <1>7, <1>8 DEF F, O

\* The lookup agrees with the rules, and the trie is a tree.
LEMMA RInvFacts == RInv => RTypeOK /\ MatchesAsConfigured
<1> SUFFICES ASSUME RInv PROVE RTypeOK /\ MatchesAsConfigured
    OBVIOUS
<1>1. RTypeOK
    <2>1. ASSUME NEW p \in DOMAIN trie, p # <<>> PROVE Front(p) \in DOMAIN trie
        <3>1. p \in Seq(Labels)
            BY DEF RInv, TrieOK, Tree
        <3>2. Len(p) - 1 \in 0 .. Len(p)
            BY <2>1, <3>1
        <3> QED
            BY <3>2 DEF RInv, TrieOK, Tree, Front
    <2> QED
        BY <2>1 DEF RTypeOK, RInv, TrieOK, Tree, ItemsOK
<1>2. ASSUME NEW name \in ConnNames, NEW ip \in Addrs \cup {NoAddr}
      PROVE  Match(name, ip) =
                IF BestSuffix(name) # {}
                THEN rules[(CHOOSE r \in BestSuffix(name) : TRUE)[1]].proxy
                ELSE IF OtherRules(name, ip) # {} THEN rules[Min(OtherRules(name, ip))].proxy
                ELSE DefaultUpstream
    <2>1. name \in Seq(Labels)
        BY RAssumption
    <2>2. CASE BestSuffix(name) # {}
        BY <2>1, <2>2, LongestSuffix DEF Match
    <2>3. CASE BestSuffix(name) = {}
        <3>1. MatchNode(trie, name) = NoUpstream
            BY <2>1, <2>3, LongestSuffix
        <3> QED
            BY <2>3, <3>1, FirstItem DEF Match
    <2> QED  BY <2>2, <2>3
<1> QED
    BY <1>1, <1>2 DEF MatchesAsConfigured, Configured

\* The variables of the rule engine keep their types for every list of rules;
\* AddRule leaves no node of the trie without the nodes above it.
THEOREM RulesTyped == RSpec => []RTypeOK
BY RInitInv, RNextInv, RInvFacts, PTL DEF RSpec

\* Match of an engine that NewRuleEngine has built from any list of rules
\* gives every connection the upstream that the list says.
THEOREM RoutesAsConfigured == RSpec => []MatchesAsConfigured
BY RInitInv, RNextInv, RInvFacts, PTL DEF RSpec
=============================================================================
