---------------------------- MODULE ConfigReload ----------------------------
(***************************************************************************)
(* Hot reload: SIGHUP (main.go), saving in the WebUI and its reload_rules  *)
(* (metrics.go) each replace the global parts of the gateway one by one,   *)
(* without a lock, while the rule subscriptions started at boot            *)
(* (rule_subscription.go) rebuild the rule engine at their own pace.  A    *)
(* part is the content of the configuration file it was built from.        *)
(***************************************************************************)
EXTENDS Naturals, Sequences

CONSTANTS
    Versions,  \* contents of the configuration file
    Jobs,      \* subset of {"sighup", "webui", "rules"}: who reloads
    Subs       \* rule subscriptions of the configuration at boot

ASSUME JobsAssumption == Jobs \subseteq {"sighup", "webui", "rules"}

\* The globals a reload replaces, but for globalSubManager ("subs" below),
\* which nothing reads: the subscriptions in force stay those of the manager
\* that main has started at boot.
Parts == {"resolver", "checker", "engine", "adblock"}

\* Mutant: the proxy groups are forgotten.
OrderNoChecker == <<"resolver", "engine", "engine", "adblock", "subs", "cfg">>

\* The order in which a reload assigns the globals.
Order == <<"resolver", "checker", "engine", "adblock", "subs", "cfg">>

VARIABLES
    file,        \* the configuration file
    cfg,         \* the global cfg
    part,        \* per part the configuration it was built from
    engineSubs,  \* the subscriptions whose rules the rule engine holds
    loaded,      \* the global AdBlocker has read its lists
    job,         \* per job [step, new]: next index into Order, 0 if idle, and
                 \* a set with the configuration it installs
    alone,       \* history: no reload was under way when the last one began
    fetch        \* per subscription the rules it will install, or {}

vars == <<file, cfg, part, engineSubs, loaded, job, alone, fetch>>

Idle == [step |-> 0, new |-> {}]

Init ==
    /\ file \in Versions
    /\ cfg = file
    /\ part = [p \in Parts |-> file]
    /\ engineSubs = {}
    /\ loaded = FALSE
    /\ job = [j \in Jobs |-> Idle]
    /\ alone = TRUE
    /\ fetch = [s \in Subs |-> {}]

EditFile(v) ==
    /\ file # v
    /\ file' = v
    /\ UNCHANGED <<cfg, part, engineSubs, loaded, job, alone, fetch>>

Reloading == \E j \in Jobs : job[j].step > 0

Begin(j, first, new) ==
    /\ job[j].step = 0
    /\ job' = [job EXCEPT ![j] = [step |-> first, new |-> new]]
    /\ alone' = ~Reloading

\* SIGHUP: a file that LoadConfig refuses changes nothing.
BeginSighup(j) ==
    /\ j = "sighup" /\ Begin(j, 1, {file})
    /\ UNCHANGED <<file, cfg, part, engineSubs, loaded, fetch>>

\* POST /api/config: SaveAndValidateConfig replaces the file first.
BeginWebUI(j, v) ==
    /\ j = "webui" /\ Begin(j, 1, {v})
    /\ file' = v
    /\ UNCHANGED <<cfg, part, engineSubs, loaded, fetch>>

\* reload_rules rebuilds the parts but the resolver from the cfg of the moment.
BeginRules(j) ==
    /\ j = "rules" /\ Begin(j, 2, {})
    /\ UNCHANGED <<file, cfg, part, engineSubs, loaded, fetch>>

Source(j) == IF j = "rules" THEN cfg ELSE CHOOSE v \in job[j].new : TRUE

AfterStep(j) ==
    LET last == IF j = "rules" THEN Len(Order) - 1 ELSE Len(Order)
    IN  IF job[j].step = last THEN Idle ELSE [job[j] EXCEPT !.step = @ + 1]

\* The next global is assigned.  A new rule engine holds no subscription, a
\* new AdBlocker blocks nothing until its goroutine has read the lists, and
\* a new SubscriptionManager is never started: the Subs of boot go on.
Assign(j) ==
    /\ job[j].step > 0
    /\ LET p == Order[job[j].step]
       IN  /\ cfg' = IF p = "cfg" THEN Source(j) ELSE cfg
           /\ part' = [q \in Parts |-> IF q = p THEN Source(j) ELSE part[q]]
           /\ engineSubs' = IF p = "engine" THEN {} ELSE engineSubs
           /\ loaded' = (loaded /\ p # "adblock")
    /\ job' = [job EXCEPT ![j] = AfterStep(j)]
    /\ UNCHANGED <<file, alone, fetch>>

\* NewDefaultResolver refuses the DNS URL: the old resolver stays.
ResolverRefused(j) ==
    /\ job[j].step = 1
    /\ job' = [job EXCEPT ![j].step = 2]
    /\ UNCHANGED <<file, cfg, part, engineSubs, loaded, alone, fetch>>

\* loadAll of the global AdBlocker ends.
LoadAll ==
    /\ ~loaded
    /\ loaded' = TRUE
    /\ UNCHANGED <<file, cfg, part, engineSubs, job, alone, fetch>>

\* Mutant: the new rules are appended to those of the engine in use.
FetchOntoEngine(s) ==
    /\ fetch[s] = {}
    /\ fetch' = [fetch EXCEPT ![s] = {part["engine"]}]
    /\ UNCHANGED <<file, cfg, part, engineSubs, loaded, job, alone>>

\* fetchAndApply has read at least one rule and appends them to cfg.Rules; a
\* failed download or an empty list changes nothing.
Fetch(s) ==
    /\ fetch[s] = {}
    /\ fetch' = [fetch EXCEPT ![s] = {cfg}]
    /\ UNCHANGED <<file, cfg, part, engineSubs, loaded, job, alone>>

\* NewRuleEngine has built the engine from those rules and installs it.
Install(s) ==
    /\ \E v \in fetch[s] : part' = [part EXCEPT !["engine"] = v]
    /\ engineSubs' = {s}
    /\ fetch' = [fetch EXCEPT ![s] = {}]
    /\ UNCHANGED <<file, cfg, loaded, job, alone>>

Next ==
    \/ \E v \in Versions : EditFile(v)
    \/ \E j \in Jobs :
          \/ BeginSighup(j) \/ BeginRules(j)
          \/ \E v \in Versions : BeginWebUI(j, v)
          \/ Assign(j) \/ ResolverRefused(j)
    \/ LoadAll
    \/ \E s \in Subs : Fetch(s) \/ Install(s)

Spec == Init /\ [][Next]_vars

\* Reloads that have begun go on, the AdBlocker's goroutine ends, and a
\* subscription's ticker fires and its server answers again and again.
Fairness ==
    /\ \A j \in Jobs : WF_vars(Assign(j))
    /\ WF_vars(LoadAll)
    /\ \A s \in Subs : WF_vars(Fetch(s)) /\ WF_vars(Install(s))

FairSpec == Spec /\ Fairness
-----------------------------------------------------------------------------
(* Properties *)

\* Every variable keeps its type.
TypeOK ==
    /\ file \in Versions /\ cfg \in Versions
    /\ part \in [Parts -> Versions]
    /\ engineSubs \subseteq Subs
    /\ loaded \in BOOLEAN
    /\ job \in [Jobs -> [step : 0 .. Len(Order), new : {{}} \cup {{v} : v \in Versions}]]
    /\ alone \in BOOLEAN
    /\ fetch \in [Subs -> {{}} \cup {{v} : v \in Versions}]

\* With a subscription, any mixture of configurations that racing reloads or
\* a fetch caught between the assignments of a reload leave in the rule
\* engine is repaired: once reloads stop, the engine ends up with the rules
\* of cfg and of the subscription of the start, and the block lists are loaded,
\* for good.
EventuallyCurrent ==
    <>[](~Reloading) => <>[](part["engine"] = cfg /\ engineSubs = Subs /\ loaded)

\* "hot-reloaded successfully": a reload that no other one overlapped leaves
\* the proxy groups and the block lists of cfg, whatever mixture earlier
\* reloads that raced have left.  (The resolver may be an older one, when its
\* URL was refused; the rule engine is subject to EventuallyCurrent, and the
\* subscriptions stay those of boot.)
LoneReloadRepairs ==
    ~Reloading /\ alone => \A p \in {"checker", "adblock"} : part[p] = cfg
=============================================================================
