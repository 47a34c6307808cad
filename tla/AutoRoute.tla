----------------------------- MODULE AutoRoute ------------------------------
(***************************************************************************)
(* AutoRoute (netlink_route.go) over the life of the process (main.go):    *)
(* setup installs policy rules, local routes and an nftables table for the *)
(* FakeIP ranges, cleanup removes them by the configuration in memory at   *)
(* that time, which a hot reload or a save in the WebUI may have replaced. *)
(* The kernel's tables outlive the process: they are external state.       *)
(***************************************************************************)
EXTENDS Naturals, Sequences

CONSTANTS
    Cidrs,         \* the FakeIP ranges that occur; they do not overlap
    Fam,           \* [Cidrs -> {4, 6}], address family
    Aligned,       \* the ranges written without host bits
    DefaultCidrs,  \* Seq(Cidrs), the ranges of a file that names none
    Files,         \* contents of the configuration file
    Edits,         \* contents the operator may change it to, or save in the WebUI
    MaxBoots       \* bound: starts of the process

Families == {4, 6}

\* The name of the nftables table is left out.
NoName == ""

\* Routing, Server and FakeIP settings; 0, NoName and <<>> are absent keys.
Config == [auto : BOOLEAN, cidrs : Seq(Cidrs), mark : Nat, table : Nat,
           nft : STRING, port : Nat]

ASSUME CidrAssumption ==
    /\ Fam \in [Cidrs -> Families]
    /\ Aligned \subseteq Cidrs
    /\ DefaultCidrs \in Seq(Cidrs) /\ DefaultCidrs # <<>>
ASSUME FilesAssumption == \A f \in Files \cup Edits : f \in Config
ASSUME NamesAssumption == "tproxy_gw" \in STRING /\ "tproxy_gw" # NoName
ASSUME BoundAssumption == MaxBoots \in Nat

NftNames == {"tproxy_gw"} \cup {f.nft : f \in Files \cup Edits}

VARIABLES
    file,        \* the configuration file
    cfg,         \* the global cfg
    pc,          \* where main and its shutdown goroutine are
    hang,        \* pool.Close is blocked
    exit,        \* how the last process ended
    ok,          \* no netlink call of this setup, or of this cleanup, failed
    swept,       \* history: this cleanup has gone by the keys of setup so far
    boot,        \* cfg at the start: the pool allocates from its ranges
    listen,      \* port of the TProxy listeners
    ipRules,     \* external: ip rule, {[fam, mark, table]}
    routes,      \* external: local default routes, {[fam, table]}
    nft,         \* external: per nftables table, its rules in order
    forwarding,  \* external: families with IP forwarding switched on
    boots        \* starts so far

kernel == <<ipRules, routes, nft, forwarding>>
routeVars == <<file, cfg, pc, hang, exit, ok, swept, boot, listen, kernel, boots>>

Or(v, unset, default) == IF v = unset THEN default ELSE v

\* Mutant: the firewall mark has no default.
LoadConfigUnmarked(f) ==
    [f EXCEPT !.cidrs = Or(@, <<>>, DefaultCidrs), !.table = Or(@, 0, 1),
              !.nft = Or(@, NoName, "tproxy_gw"), !.port = Or(@, 0, 10800)]

\* LoadConfig fills in what the file leaves out.
LoadConfig(f) ==
    [f EXCEPT !.cidrs = Or(@, <<>>, DefaultCidrs), !.mark = Or(@, 0, 1),
              !.table = Or(@, 0, 1), !.nft = Or(@, NoName, "tproxy_gw"),
              !.port = Or(@, 0, 10800)]

RouteInit ==
    /\ file \in Files
    /\ cfg = LoadConfig(file)
    /\ pc = "off"
    /\ hang = FALSE
    /\ exit = "none"
    /\ ok = TRUE /\ swept = FALSE
    /\ boot = cfg
    /\ listen = 0
    /\ ipRules = {} /\ routes = {} /\ forwarding = {}
    /\ nft = [n \in NftNames |-> <<>>]
    /\ boots = 0
-----------------------------------------------------------------------------
(* Start *)

CidrsOf(c) == {c.cidrs[i] : i \in 1 .. Len(c.cidrs)}
Has(f) == \E c \in CidrsOf(cfg) : Fam[c] = f

\* main loads the file and creates the pool; setupAutoRouteNetlink returns
\* at once without auto_route, and otherwise switches forwarding on.  The
\* loopback interface is taken to exist, at setup and at cleanup.
Start ==
    /\ pc = "off" /\ boots < MaxBoots
    /\ boots' = boots + 1
    /\ cfg' = LoadConfig(file)
    /\ boot' = cfg'
    /\ ok' = TRUE /\ swept' = FALSE /\ hang' = FALSE /\ exit' = "none"
    /\ pc' = IF cfg'.auto THEN "rule4" ELSE "routed"
    /\ forwarding' = IF cfg'.auto THEN forwarding \cup {Fam[c] : c \in CidrsOf(cfg')}
                     ELSE forwarding
    /\ UNCHANGED <<file, listen, ipRules, routes, nft>>

PolicyRule(f) == [fam |-> f, mark |-> cfg.mark, table |-> cfg.table]
LocalRoute(f) == [fam |-> f, table |-> cfg.table]

\* netlink.RuleAdd for a family that has a range: a rule that is there
\* already is not an error, any other failure is logged and ignored.
AddRule(f, here, next) ==
    /\ pc = here /\ pc' = next
    /\ \/ ipRules' = (IF Has(f) THEN ipRules \cup {PolicyRule(f)} ELSE ipRules)
          /\ ok' = ok
       \/ Has(f) /\ ok' = FALSE /\ ipRules' = ipRules
    /\ UNCHANGED <<file, cfg, hang, exit, swept, boot, listen, routes, nft, forwarding, boots>>

\* netlink.RouteAdd, likewise.
AddRoute(f, here, next) ==
    /\ pc = here /\ pc' = next
    /\ \/ routes' = (IF Has(f) THEN routes \cup {LocalRoute(f)} ELSE routes)
          /\ ok' = ok
       \/ Has(f) /\ ok' = FALSE /\ routes' = routes
    /\ UNCHANGED <<file, cfg, hang, exit, swept, boot, listen, ipRules, nft, forwarding, boots>>

\* Mutant: only the IPv4 ranges get rules.
NftRulesV4(c) ==
    [i \in 1 .. Len(SelectSeq(c.cidrs, LAMBDA x : Fam[x] = 4)) |->
        [cidr |-> SelectSeq(c.cidrs, LAMBDA x : Fam[x] = 4)[i],
         mark |-> c.mark, port |-> c.port]]

\* Per range, the rule of the prerouting chain that marks a packet and hands
\* it to the listener, and the one of the output chain that only marks it.
NftRules(c) ==
    [i \in 1 .. Len(c.cidrs) |->
        [cidr |-> c.cidrs[i], mark |-> c.mark, port |-> c.port]]

\* setupNftablesNetlink: one transaction.  Table and chains are created if
\* they are not there, the rules are always appended.
AddNft ==
    /\ pc = "nft" /\ pc' = "routed"
    /\ \/ nft' = [nft EXCEPT ![cfg.nft] = @ \o NftRules(cfg)] /\ ok' = ok
       \/ ok' = FALSE /\ nft' = nft
    /\ UNCHANGED <<file, cfg, hang, exit, swept, boot, listen, ipRules, routes, forwarding, boots>>

\* From here on SIGHUP is handled; main starts the TProxy listeners.
Listen ==
    /\ pc = "routed" /\ pc' = "up"
    /\ listen' = cfg.port
    /\ UNCHANGED <<file, cfg, hang, exit, ok, swept, boot, kernel, boots>>

Setup ==
    \/ AddRule(4, "rule4", "route4") \/ AddRoute(4, "route4", "rule6")
    \/ AddRule(6, "rule6", "route6") \/ AddRoute(6, "route6", "nft")
    \/ AddNft \/ Listen
-----------------------------------------------------------------------------
(* Configuration changes *)

Stopping == {"closing", "delRule4", "delRoute4", "delRule6", "delRoute6", "delNft"}
Serving == {"routed", "up"} \cup Stopping

EditFile(f) ==
    /\ file # f
    /\ file' = f
    /\ UNCHANGED <<cfg, pc, hang, exit, ok, swept, boot, listen, kernel, boots>>

\* SIGHUP; a reload that has begun may still end during the cleanup.
Reload ==
    /\ pc \in Serving
    /\ cfg # LoadConfig(file)
    /\ cfg' = LoadConfig(file)
    /\ UNCHANGED <<file, pc, hang, exit, ok, swept, boot, listen, kernel, boots>>

\* Saving in the WebUI: SaveAndValidateConfig insists on a range, writes the
\* file and returns the settings as they are, without the defaults.
SaveInWebUI(f) ==
    /\ pc \in Serving \ {"routed"}
    /\ f.cidrs # <<>>
    /\ file' = f
    /\ cfg' = f
    /\ UNCHANGED <<pc, hang, exit, ok, swept, boot, listen, kernel, boots>>
-----------------------------------------------------------------------------
(* Exit *)

Stop(how) == pc' = "off" /\ exit' = how

\* SIGINT or SIGTERM: a goroutine calls pool.Close, which may block for good
\* (see FakeIPPool), then the cleanup.
Shutdown ==
    /\ pc = "up"
    /\ pc' = "closing"
    /\ hang' \in BOOLEAN
    /\ ok' = TRUE
    /\ UNCHANGED <<file, cfg, exit, swept, boot, listen, kernel, boots>>

\* cleanupAutoRouteNetlink returns at once without auto_route.
PoolClosed ==
    /\ pc = "closing" /\ ~hang
    /\ IF cfg.auto THEN pc' = "delRule4" /\ exit' = exit ELSE Stop("graceful")
    /\ swept' = cfg.auto
    /\ UNCHANGED <<file, cfg, hang, ok, boot, listen, kernel, boots>>

\* Mutant: no time limit.
ForceExitNever == FALSE /\ UNCHANGED routeVars

\* main waits for the cleanup at most 5 seconds.
ForceExit ==
    /\ pc = "closing" /\ hang
    /\ Stop("forced")
    /\ UNCHANGED <<file, cfg, hang, ok, swept, boot, listen, kernel, boots>>

\* Cleanup finds things by the mark, table and name in memory.
OwnKeys == cfg.mark = boot.mark /\ cfg.table = boot.table /\ cfg.nft = boot.nft
Sweep == swept' = (swept /\ OwnKeys)

\* Mutant: cleanup, like setup, skips a family that has no range (any more).
DelRuleOfRange(f, here, next) ==
    /\ pc = here /\ pc' = next /\ Sweep
    /\ \/ ipRules' = (IF Has(f) THEN ipRules \ {PolicyRule(f)} ELSE ipRules) /\ ok' = ok
       \/ PolicyRule(f) \in ipRules /\ ok' = FALSE /\ ipRules' = ipRules
    /\ UNCHANGED <<file, cfg, hang, exit, boot, listen, routes, nft, forwarding, boots>>

\* netlink.RuleDel, for both families whatever the ranges: one that is not
\* there, or any other failure, is ignored.
DelRule(f, here, next) ==
    /\ pc = here /\ pc' = next /\ Sweep
    /\ \/ ipRules' = ipRules \ {PolicyRule(f)} /\ ok' = ok
       \/ PolicyRule(f) \in ipRules /\ ok' = FALSE /\ ipRules' = ipRules
    /\ UNCHANGED <<file, cfg, hang, exit, boot, listen, routes, nft, forwarding, boots>>

\* netlink.RouteDel, likewise.
DelRoute(f, here, next) ==
    /\ pc = here /\ pc' = next /\ Sweep
    /\ \/ routes' = routes \ {LocalRoute(f)} /\ ok' = ok
       \/ LocalRoute(f) \in routes /\ ok' = FALSE /\ routes' = routes
    /\ UNCHANGED <<file, cfg, hang, exit, boot, listen, ipRules, nft, forwarding, boots>>

\* DelTable and Flush, the last error that is ignored.
DelNft ==
    /\ pc = "delNft" /\ Stop("graceful") /\ Sweep
    /\ \/ nft' = [n \in NftNames |-> IF n = cfg.nft THEN <<>> ELSE nft[n]] /\ ok' = ok
       \/ cfg.nft \in NftNames /\ nft[cfg.nft] # <<>> /\ ok' = FALSE /\ nft' = nft
    /\ UNCHANGED <<file, cfg, hang, boot, listen, ipRules, routes, forwarding, boots>>

Cleanup ==
    \/ DelRule(4, "delRule4", "delRoute4") \/ DelRoute(4, "delRoute4", "delRule6")
    \/ DelRule(6, "delRule6", "delRoute6") \/ DelRoute(6, "delRoute6", "delNft")
    \/ DelNft

\* The WebUI's restart is os.Exit, and a supervisor starts the process again.
Restart ==
    /\ pc \in Serving \ {"routed"}
    /\ Stop("restart")
    /\ UNCHANGED <<file, cfg, hang, ok, swept, boot, listen, kernel, boots>>

Crash ==
    /\ pc # "off"
    /\ Stop("crash")
    /\ UNCHANGED <<file, cfg, hang, ok, swept, boot, listen, kernel, boots>>

RouteNext ==
    \/ Start \/ Setup
    \/ \E f \in Edits : EditFile(f) \/ SaveInWebUI(f)
    \/ Reload
    \/ Shutdown \/ PoolClosed \/ ForceExit \/ Cleanup
    \/ Restart \/ Crash

RouteSpec == RouteInit /\ [][RouteNext]_routeVars
-----------------------------------------------------------------------------
(* Properties *)

\* Every variable keeps its type; in particular setup never installs a
\* policy rule with mark 0, which would match all traffic, and never an
\* nftables table without a name.
RouteTypeOK ==
    /\ file \in Files \cup Edits
    /\ cfg \in Config /\ boot \in Config
    /\ pc \in {"off", "rule4", "route4", "rule6", "route6", "nft"} \cup Serving
    /\ hang \in BOOLEAN /\ ok \in BOOLEAN /\ swept \in BOOLEAN
    /\ exit \in {"none", "graceful", "forced", "restart", "crash"}
    /\ listen \in Nat
    /\ ipRules \subseteq [fam : Families, mark : Nat \ {0}, table : Nat \ {0}]
    /\ routes \subseteq [fam : Families, table : Nat \ {0}]
    /\ \A n \in NftNames :
          nft[n] # <<>> => /\ n # NoName
                           /\ nft[n] \in Seq([cidr : Cidrs, mark : Nat \ {0}, port : Nat \ {0}])
    /\ forwarding \subseteq Families
    /\ boots \in 0 .. MaxBoots

\* Once the process has shut down gracefully, no netlink call of the cleanup
\* has failed, and neither a reload nor the WebUI has given cfg another mark,
\* table or name (or switched AutoRoute off) before the cleanup was through,
\* nothing is left of what setup installs: whatever became of the ranges in
\* the meantime, and whatever earlier processes with the same keys left
\* behind when they were killed half way through setup or cleanup, restarted
\* from the WebUI or ran out of time.
OwnResidueGone ==
    pc = "off" /\ exit = "graceful" /\ ok /\ swept
        => /\ \A p \in ipRules : p.mark # boot.mark \/ p.table # boot.table
           /\ \A q \in routes : q.table # boot.table
           /\ nft[boot.nft] = <<>>

\* "leaving zero residue on exit" as src/README.md puts it: once the process
\* has shut down gracefully without netlink failures, nothing that AutoRoute
\* ever installed is left.  Cleanup goes by the settings in memory, not by
\* those of setup, so this does not hold of the code.
ZeroResidue ==
    pc = "off" /\ exit = "graceful" /\ ok
        => ipRules = {} /\ routes = {} /\ \A n \in NftNames : nft[n] = <<>>

\* A packet to range c: the first rule for c of every table that has one
\* hands it to the listener, with a mark that some policy rule leads to a
\* local route.  The rules compare the masked address with the range as it
\* is written, so one with host bits matches nothing.
Intercepts(c) ==
    LET hits(n) == {i \in 1 .. Len(nft[n]) : nft[n][i].cidr = c /\ c \in Aligned}
    IN  /\ \E n \in NftNames : hits(n) # {}
        /\ \A n \in NftNames : \A i \in hits(n) :
              (\A j \in hits(n) : i <= j) =>
                  /\ nft[n][i].port = listen
                  /\ \E p \in ipRules :
                        /\ p.fam = Fam[c] /\ p.mark = nft[n][i].mark
                        /\ [fam |-> p.fam, table |-> p.table] \in routes

\* While the gateway is up, a packet to any address the FakeIP pool may hand
\* out reaches the TProxy listener, whatever earlier processes left behind,
\* provided no netlink call of this start failed.
Intercepted ==
    pc = "up" /\ ok /\ boot.auto => \A c \in CidrsOf(boot) : Intercepts(c)

\* What Intercepted asks of the operator, who may edit the rest: mark and port
\* stay the same.
SameMarking(m, p) ==
    \A f \in Files \cup Edits : LoadConfig(f).mark = m /\ LoadConfig(f).port = p

\* A shutdown ends, even if saving the FakeIP pool never returns.
ShutdownTerminates == (pc = "closing") ~> (pc = "off")
=============================================================================
