--------------------------- MODULE HealthChecker ----------------------------
(***************************************************************************)
(* Proxy groups and health checks (health_check.go): every interval a      *)
(* group probes all its proxies at once, each probe records its outcome in *)
(* the node shared with the other groups, and when the last one is in the  *)
(* group selects its upstream.  A hot reload (SIGHUP, WebUI) installs a    *)
(* new checker with NewHealthChecker; only main calls Start.  The          *)
(* goroutines of a replaced checker go on, but they touch nothing that     *)
(* SelectProxy reads, so the model drops them.                             *)
(***************************************************************************)
EXTENDS Naturals, Sequences

CONSTANTS
    Nodes,      \* proxy addresses
    Groups,     \* proxy group names
    Proxies,    \* [Groups -> Seq(Nodes)], in configured order
    Type,       \* [Groups -> {"url-test", "fallback"}]
    MaxRTT,     \* bound: latencies are 1..MaxRTT
    None        \* the empty Selected of a group without proxies

ASSUME GroupsAssumption ==
    /\ Proxies \in [Groups -> Seq(Nodes)]
    /\ Type \in [Groups -> {"url-test", "fallback"}]
ASSUME RTTAssumption == MaxRTT \in Nat \ {0}

MembersOf(g) == {Proxies[g][i] : i \in 1 .. Len(Proxies[g])}

\* FailCount is only compared with 2, so it is kept up to 2.
FailLimit == 2

VARIABLES
    net,       \* external: 0 if the proxy is unreachable, else its latency
    started,   \* whether the checker in globalChecker has been started
    node,      \* ProxyNodeStatus: [alive, rtt, failCount] per node
    selected,  \* ProxyGroup.Selected
    phase,     \* per group: "start", "wait" (for the ticker), "probe"
    pending    \* per group: probes of the round that are still out

vars == <<net, started, node, selected, phase, pending>>

NewNode == [alive |-> TRUE, rtt |-> 0, failCount |-> 0]
FirstProxy(g) == IF Proxies[g] = <<>> THEN None ELSE Head(Proxies[g])

Init ==
    /\ net \in [Nodes -> 0 .. MaxRTT]
    /\ started = TRUE
    /\ node = [n \in Nodes |-> NewNode]
    /\ selected = [g \in Groups |-> FirstProxy(g)]
    /\ phase = [g \in Groups |-> "start"]
    /\ pending = [g \in Groups |-> {}]

\* External: a proxy goes down, comes back or changes its latency.
NetChanges(n, v) ==
    /\ net[n] # v
    /\ net' = [net EXCEPT ![n] = v]
    /\ UNCHANGED <<started, node, selected, phase, pending>>

\* checkGroup starts a goroutine per proxy: at once when the group's
\* goroutine starts, then at every tick.
StartRound(g) ==
    /\ started
    /\ phase[g] \in {"start", "wait"}
    /\ phase' = [phase EXCEPT ![g] = "probe"]
    /\ pending' = [pending EXCEPT ![g] = MembersOf(g)]
    /\ UNCHANGED <<net, started, node, selected>>

\* Mutant: a success only records the latency.
ProbedSticky(s, v) ==
    IF v > 0
    THEN [s EXCEPT !.rtt = v]
    ELSE [alive     |-> s.alive /\ s.failCount + 1 < FailLimit,
          rtt       |-> s.rtt,
          failCount |-> IF s.failCount < FailLimit THEN s.failCount + 1 ELSE FailLimit]

\* The status after a probe that took v, or failed if v = 0.  A failure
\* leaves the RTT of the last success, 0 if there was none.
Probed(s, v) ==
    IF v > 0
    THEN [alive |-> TRUE, rtt |-> v, failCount |-> 0]
    ELSE [alive     |-> s.alive /\ s.failCount + 1 < FailLimit,
          rtt       |-> s.rtt,
          failCount |-> IF s.failCount < FailLimit THEN s.failCount + 1 ELSE FailLimit]

\* pingSocks5Proxy returns and the goroutine records the outcome.
ProbeDone(g, n) ==
    /\ phase[g] = "probe"
    /\ n \in pending[g]
    /\ node' = [node EXCEPT ![n] = Probed(node[n], net[n])]
    /\ pending' = [pending EXCEPT ![g] = pending[g] \ {n}]
    /\ UNCHANGED <<net, started, selected, phase>>

AliveAt(g) == {i \in 1 .. Len(Proxies[g]) : node[Proxies[g][i]].alive}

\* The alive proxy with the smallest RTT; of equals the first.
Fastest(g, i) ==
    \A j \in AliveAt(g) :
        LET r(k) == node[Proxies[g][k]].rtt
        IN  r(i) < r(j) \/ (r(i) = r(j) /\ i <= j)

\* Mutant: no break, the last alive proxy wins.
LastAlive(g, i) == \A j \in AliveAt(g) : i >= j

\* The first alive proxy.
FirstAlive(g, i) == \A j \in AliveAt(g) : i <= j

\* updateGroupSelection, once wg.Wait returns: without an alive proxy the
\* selection stays as it is.
UpdateGroupSelection(g) ==
    /\ phase[g] = "probe"
    /\ pending[g] = {}
    /\ \/ /\ AliveAt(g) = {}
          /\ UNCHANGED selected
       \/ \E i \in AliveAt(g) :
             /\ IF Type[g] = "url-test" THEN Fastest(g, i) ELSE FirstAlive(g, i)
             /\ selected' = [selected EXCEPT ![g] = Proxies[g][i]]
    /\ phase' = [phase EXCEPT ![g] = "wait"]
    /\ UNCHANGED <<net, started, node, pending>>

\* NewHealthChecker without Start.
Reload ==
    /\ started' = FALSE
    /\ node' = [n \in Nodes |-> NewNode]
    /\ selected' = [g \in Groups |-> FirstProxy(g)]
    /\ phase' = [g \in Groups |-> "start"]
    /\ pending' = [g \in Groups |-> {}]
    /\ UNCHANGED net

Next ==
    \/ \E n \in Nodes, v \in 0 .. MaxRTT : NetChanges(n, v)
    \/ \E g \in Groups : \/ StartRound(g)
                         \/ \E n \in Nodes : ProbeDone(g, n)
                         \/ UpdateGroupSelection(g)
    \/ Reload

Spec == Init /\ [][Next]_vars

\* The ticker of a started group fires and a probe ends within its timeout.
Fairness ==
    \A g \in Groups :
        /\ WF_vars(StartRound(g))
        /\ WF_vars(UpdateGroupSelection(g))
        /\ \A n \in Nodes : WF_vars(ProbeDone(g, n))

FairSpec == Spec /\ Fairness
-----------------------------------------------------------------------------
(* Properties *)

\* Every variable keeps its type.
TypeOK ==
    /\ net \in [Nodes -> 0 .. MaxRTT]
    /\ started \in BOOLEAN
    /\ node \in [Nodes -> [alive : BOOLEAN, rtt : 0 .. MaxRTT,
                           failCount : 0 .. FailLimit]]
    /\ selected \in [Groups -> Nodes \cup {None}]
    /\ phase \in [Groups -> {"start", "wait", "probe"}]
    /\ pending \in [Groups -> SUBSET Nodes]

\* The proxy a group should end up with when the network is v: the first
\* reachable one, for url-test of those with the least latency.
Best(g, v) ==
    LET ps == Proxies[g]
        up == {i \in 1 .. Len(ps) : v[ps[i]] > 0}
        ok == IF Type[g] = "fallback" THEN up
              ELSE {i \in up : \A j \in up : v[ps[i]] <= v[ps[j]]}
    IN  ps[CHOOSE i \in ok : \A j \in ok : i <= j]

Settles(g, v) ==
    (\E n \in MembersOf(g) : v[n] > 0)
        => (<>[](net = v) => <>[](selected[g] = Best(g, v)))

\* Failover of a checker that main started: once the network stops changing,
\* every group that has a reachable proxy settles on the right one, whatever
\* happened before and however the rounds of groups that share a proxy
\* interleave.
Converges ==
    []started => \A g \in Groups : \A v \in [Nodes -> 0 .. MaxRTT] : Settles(g, v)

\* "Seamless zero-downtime failover": the same of whatever checker is in use,
\* also after hot reloads.
AlwaysConverges ==
    \A g \in Groups : \A v \in [Nodes -> 0 .. MaxRTT] : Settles(g, v)

\* Fail-back order: a started fallback group (updateGroupSelection) leaves
\* the proxy it uses only when that proxy is dead at that moment or the new
\* one is listed before it, although another group's probes may have changed
\* the shared status of both since this group's own probes came in.
AbandonsOnlyDead ==
    [][\A g \in Groups :
          selected'[g] # selected[g] /\ started' /\ Type[g] = "fallback"
              => \/ ~node[selected[g]].alive
                 \/ \E i, j \in 1 .. Len(Proxies[g]) :
                       /\ i < j
                       /\ Proxies[g][i] = selected'[g]
                       /\ Proxies[g][j] = selected[g]]_vars
=============================================================================
