-------------------------- MODULE AutoRouteProofs ---------------------------
(***************************************************************************)
(* RouteTypeOK, OwnResidueGone and Intercepted for every set of ranges and of   *)
(* configuration files, for any number of starts, crashes and restarts     *)
(* before, and whichever netlink calls fail.  The last one holds of an     *)
(* operator who leaves mark and port alone (SameMarking).                  *)
(***************************************************************************)
EXTENDS AutoRoute, SequenceTheorems, TLAPS

SetupPCs == {"rule4", "route4", "rule6", "route6", "nft"}

NftRule == [cidr : Cidrs, mark : Nat \ {0}, port : Nat \ {0}]

\* A configuration with its defaults filled in.
Complete(c) ==
    /\ c \in Config
    /\ c.mark # 0 /\ c.table # 0 /\ c.nft # NoName /\ c.port # 0
    /\ c.nft \in NftNames

\* Setup works with a complete configuration, the one of this start: neither
\* SIGHUP nor the WebUI is served yet.
Typed ==
    /\ RouteTypeOK
    /\ nft \in [NftNames -> Seq(NftRule)]
    /\ \A n \in NftNames : n = NoName => nft[n] = <<>>
    /\ Complete(boot)
    /\ pc \in SetupPCs => cfg = boot /\ cfg.auto

\* LoadConfig returns a complete configuration and keeps what the file says.
LEMMA LoadConfigOK ==
    ASSUME NEW f \in Files \cup Edits
    PROVE  /\ Complete(LoadConfig(f))
           /\ LoadConfig(f).auto = f.auto
           /\ f.mark # 0 => LoadConfig(f).mark = f.mark
           /\ f.table # 0 => LoadConfig(f).table = f.table
           /\ f.nft # NoName => LoadConfig(f).nft = f.nft
<1>1. f \in Config
  BY FilesAssumption
<1>2. LoadConfig(f) =
        [f EXCEPT !.cidrs = Or(f.cidrs, <<>>, DefaultCidrs), !.mark = Or(f.mark, 0, 1),
                  !.table = Or(f.table, 0, 1), !.nft = Or(f.nft, NoName, "tproxy_gw"),
                  !.port = Or(f.port, 0, 10800)]
  BY <1>1 DEF LoadConfig, Config
<1>3. Or(f.cidrs, <<>>, DefaultCidrs) \in Seq(Cidrs)
  BY <1>1, CidrAssumption DEF Or, Config
<1>4. /\ Or(f.mark, 0, 1) \in Nat /\ Or(f.mark, 0, 1) # 0
      /\ Or(f.table, 0, 1) \in Nat /\ Or(f.table, 0, 1) # 0
      /\ Or(f.port, 0, 10800) \in Nat /\ Or(f.port, 0, 10800) # 0
  BY <1>1 DEF Or, Config
<1>5. /\ Or(f.nft, NoName, "tproxy_gw") \in STRING /\ Or(f.nft, NoName, "tproxy_gw") # NoName
      /\ Or(f.nft, NoName, "tproxy_gw") \in NftNames
  <2>1. f.nft \in STRING
    BY <1>1 DEF Config
  <2>2. f.nft \in NftNames /\ "tproxy_gw" \in NftNames
    BY DEF NftNames
  <2>3. CASE f.nft = NoName
    BY <2>2, <2>3, NamesAssumption DEF Or
  <2>4. CASE f.nft # NoName
    BY <2>1, <2>2, <2>4 DEF Or
  <2> QED
    BY <2>3, <2>4
<1>6. LoadConfig(f) \in Config
  <2> DEFINE c == Or(f.cidrs, <<>>, DefaultCidrs)
             m == Or(f.mark, 0, 1)
             t == Or(f.table, 0, 1)
             n == Or(f.nft, NoName, "tproxy_gw")
             p == Or(f.port, 0, 10800)
  <2>1. LoadConfig(f) = [f EXCEPT !.cidrs = c, !.mark = m, !.table = t, !.nft = n, !.port = p]
    BY <1>2
  <2>2. c \in Seq(Cidrs) /\ m \in Nat /\ t \in Nat /\ n \in STRING /\ p \in Nat
    BY <1>3, <1>4, <1>5
  <2> HIDE DEF c, m, t, n, p
  <2> QED
    BY <1>1, <2>1, <2>2 DEF Config
<1>7. /\ LoadConfig(f).auto = f.auto /\ LoadConfig(f).mark = Or(f.mark, 0, 1)
      /\ LoadConfig(f).table = Or(f.table, 0, 1) /\ LoadConfig(f).port = Or(f.port, 0, 10800)
      /\ LoadConfig(f).nft = Or(f.nft, NoName, "tproxy_gw")
  BY <1>1 DEF LoadConfig, Config
<1>8. Complete(LoadConfig(f))
  BY <1>4, <1>5, <1>6, <1>7 DEF Complete
<1>9. /\ f.mark # 0 => Or(f.mark, 0, 1) = f.mark
      /\ f.table # 0 => Or(f.table, 0, 1) = f.table
      /\ f.nft # NoName => Or(f.nft, NoName, "tproxy_gw") = f.nft
  BY DEF Or
<1> QED
  BY <1>7, <1>8, <1>9

\* The ranges of a configuration.
LEMMA CidrsTyped ==
    ASSUME NEW c \in Config
    PROVE  /\ CidrsOf(c) \subseteq Cidrs
           /\ {Fam[d] : d \in CidrsOf(c)} \subseteq Families
<1>1. c.cidrs \in Seq(Cidrs)
  BY DEF Config
<1>2. CidrsOf(c) \subseteq Cidrs
  BY <1>1, ElementOfSeq DEF CidrsOf
<1> QED
  BY <1>2, CidrAssumption

\* The rules of a complete configuration: one per range.
LEMMA NftRulesOK ==
    ASSUME NEW c, Complete(c)
    PROVE  /\ NftRules(c) \in Seq(NftRule)
           /\ \A i \in 1 .. Len(NftRules(c)) :
                 NftRules(c)[i].mark = c.mark /\ NftRules(c)[i].port = c.port
           /\ \A d \in CidrsOf(c) : \E i \in 1 .. Len(NftRules(c)) : NftRules(c)[i].cidr = d
<1>1. c.cidrs \in Seq(Cidrs) /\ c.mark \in Nat \ {0} /\ c.port \in Nat \ {0}
  BY DEF Complete, Config
<1>2. Len(c.cidrs) \in Nat /\ \A i \in 1 .. Len(c.cidrs) : c.cidrs[i] \in Cidrs
  BY <1>1
<1> DEFINE rule(i) == [cidr |-> c.cidrs[i], mark |-> c.mark, port |-> c.port]
<1>3. \A i \in 1 .. Len(c.cidrs) : rule(i) \in NftRule
  BY <1>1, <1>2 DEF NftRule
<1>4. \A i \in 1 .. Len(c.cidrs) :
         /\ rule(i).cidr = c.cidrs[i] /\ rule(i).mark = c.mark /\ rule(i).port = c.port
  OBVIOUS
<1>5. NftRules(c) = [i \in 1 .. Len(c.cidrs) |-> rule(i)]
  BY DEF NftRules
<1> HIDE DEF rule
<1>6. NftRules(c) \in Seq(NftRule) /\ Len(NftRules(c)) = Len(c.cidrs)
  BY <1>2, <1>3, <1>5
<1> QED
  BY <1>4, <1>5, <1>6 DEF CidrsOf

\* Rules and tables that setup appends to stay well formed.
LEMMA AppendTyped ==
    ASSUME NEW s \in Seq(NftRule), NEW c, Complete(c)
    PROVE  s \o NftRules(c) \in Seq(NftRule)
BY NftRulesOK, ConcatProperties

\* Before the first start the kernel's tables are empty.
LEMMA InitTyped == RouteInit => Typed
<1> SUFFICES ASSUME RouteInit PROVE Typed
  OBVIOUS
<1> USE DEF RouteInit
<1>1. Complete(LoadConfig(file)) /\ LoadConfig(file) \in Config
  BY LoadConfigOK DEF Complete
<1>2. \A n \in NftNames : nft[n] = <<>>
  OBVIOUS
<1>3. nft \in [NftNames -> Seq(NftRule)]
  <2>1. <<>> \in Seq(NftRule)
    OBVIOUS
  <2> QED
    BY <2>1
<1>4. RouteTypeOK
  <2>1. 0 \in 0 .. MaxBoots /\ 0 \in Nat
    BY BoundAssumption
  <2>2. file \in Files \cup Edits /\ cfg \in Config /\ boot \in Config
    BY <1>1
  <2>3. ipRules = {} /\ routes = {} /\ forwarding = {} /\ listen = 0 /\ boots = 0
        /\ pc = "off" /\ exit = "none" /\ hang = FALSE /\ ok = TRUE /\ swept = FALSE
    OBVIOUS
  <2> HIDE DEF RouteInit
  <2> QED
    BY <1>2, <2>1, <2>2, <2>3 DEF RouteTypeOK
<1> QED
  BY <1>1, <1>2, <1>3, <1>4 DEF Typed, SetupPCs

\* netlink.RuleAdd and RouteAdd of setup.
LEMMA AddTyped ==
    ASSUME Typed, NEW f \in Families, NEW here \in SetupPCs, NEW next \in SetupPCs,
           AddRule(f, here, next) \/ AddRoute(f, here, next)
    PROVE  Typed'
<1> USE DEF Typed
<1>1. pc \in SetupPCs /\ cfg \in Config /\ Complete(cfg)
  BY DEF AddRule, AddRoute, Complete
<1>2. /\ PolicyRule(f) \in [fam : Families, mark : Nat \ {0}, table : Nat \ {0}]
      /\ LocalRoute(f) \in [fam : Families, table : Nat \ {0}]
  <2>1. cfg.mark \in Nat \ {0} /\ cfg.table \in Nat \ {0}
    BY <1>1 DEF Complete, Config
  <2> QED
    BY <2>1 DEF PolicyRule, LocalRoute
<1>3. CASE AddRule(f, here, next)
  <2>1. ipRules' \subseteq [fam : Families, mark : Nat \ {0}, table : Nat \ {0}]
    BY <1>2, <1>3 DEF AddRule, RouteTypeOK
  <2>2. ok' \in BOOLEAN
    BY <1>3 DEF AddRule, RouteTypeOK
  <2>3. pc' \in SetupPCs /\ cfg' = boot'
    BY <1>1, <1>3 DEF AddRule
  <2> QED
    BY <1>1, <1>3, <2>1, <2>2, <2>3 DEF AddRule, RouteTypeOK, SetupPCs, Complete
<1>4. CASE AddRoute(f, here, next)
  <2>1. routes' \subseteq [fam : Families, table : Nat \ {0}]
    BY <1>2, <1>4 DEF AddRoute, RouteTypeOK
  <2>2. ok' \in BOOLEAN
    BY <1>4 DEF AddRoute, RouteTypeOK
  <2>3. pc' \in SetupPCs /\ cfg' = boot'
    BY <1>1, <1>4 DEF AddRoute
  <2> QED
    BY <1>1, <1>4, <2>1, <2>2, <2>3 DEF AddRoute, RouteTypeOK, SetupPCs, Complete
<1> QED
  BY <1>3, <1>4

\* RuleDel and RouteDel of cleanup.
LEMMA DelTyped ==
    ASSUME Typed, NEW f \in Families, NEW here \in Stopping, NEW next \in Stopping,
           DelRule(f, here, next) \/ DelRoute(f, here, next)
    PROVE  Typed'
<1> USE DEF Typed
<1>1. swept' \in BOOLEAN
  BY DEF DelRule, DelRoute, Sweep, OwnKeys, RouteTypeOK
<1>2. CASE DelRule(f, here, next)
  <2>1. ok' \in BOOLEAN /\ ipRules' \subseteq ipRules
    BY <1>2 DEF DelRule, RouteTypeOK
  <2> QED
    BY <1>1, <1>2, <2>1 DEF DelRule, RouteTypeOK, SetupPCs, Stopping, Serving, Complete
<1>3. CASE DelRoute(f, here, next)
  <2>1. ok' \in BOOLEAN /\ routes' \subseteq routes
    BY <1>3 DEF DelRoute, RouteTypeOK
  <2> QED
    BY <1>1, <1>3, <2>1 DEF DelRoute, RouteTypeOK, SetupPCs, Stopping, Serving, Complete
<1> QED
  BY <1>2, <1>3

\* Every step preserves the types.
LEMMA NextTyped == Typed /\ [RouteNext]_routeVars => Typed'
<1> SUFFICES ASSUME Typed, [RouteNext]_routeVars PROVE Typed'
  OBVIOUS
<1> USE DEF Typed, kernel
<1>1. CASE Start
  <2> USE <1>1 DEF Start
  <2>1. Complete(cfg') /\ cfg' \in Config
    BY LoadConfigOK DEF RouteTypeOK, Complete
  <2>2. forwarding' \subseteq Families
    BY <2>1, CidrsTyped DEF RouteTypeOK
  <2>3. boots' \in 0 .. MaxBoots
    BY BoundAssumption DEF RouteTypeOK
  <2>4. pc' \in {"rule4", "routed"} /\ (pc' = "rule4" => cfg'.auto)
    OBVIOUS
  <2>5. RouteTypeOK'
    BY <2>1, <2>2, <2>3, <2>4 DEF RouteTypeOK, Serving
  <2> QED
    BY <2>1, <2>4, <2>5 DEF SetupPCs, Complete
<1>2. CASE Setup
  <2>1. CASE AddRule(4, "rule4", "route4")
    BY <2>1, AddTyped DEF Families, SetupPCs
  <2>2. CASE AddRoute(4, "route4", "rule6")
    BY <2>2, AddTyped DEF Families, SetupPCs
  <2>3. CASE AddRule(6, "rule6", "route6")
    BY <2>3, AddTyped DEF Families, SetupPCs
  <2>4. CASE AddRoute(6, "route6", "nft")
    BY <2>4, AddTyped DEF Families, SetupPCs
  <2>5. CASE AddNft
    <3> USE <2>5 DEF AddNft
    <3>1. Complete(cfg) /\ cfg.nft \in NftNames /\ cfg.nft # NoName
      BY DEF SetupPCs, Complete
    <3>2. nft[cfg.nft] \o NftRules(cfg) \in Seq(NftRule)
      BY <3>1, AppendTyped
    <3>3. nft' \in [NftNames -> Seq(NftRule)]
          /\ \A n \in NftNames : n = NoName => nft'[n] = <<>>
      BY <3>1, <3>2
    <3>4. ok' \in BOOLEAN
      BY DEF RouteTypeOK
    <3>5. RouteTypeOK'
      BY <3>3, <3>4 DEF RouteTypeOK, NftRule, Serving
    <3> QED
      BY <3>3, <3>5 DEF SetupPCs, Complete
  <2>6. CASE Listen
    <3>1. cfg.port \in Nat
      BY DEF RouteTypeOK, Config
    <3> QED
      BY <2>6, <3>1 DEF Listen, RouteTypeOK, SetupPCs, Serving, Complete
  <2> QED
    BY <1>2, <2>1, <2>2, <2>3, <2>4, <2>5, <2>6 DEF Setup
<1>3. ASSUME NEW f \in Edits, EditFile(f) PROVE Typed'
  BY <1>3 DEF EditFile, RouteTypeOK, Complete
<1>4. ASSUME NEW f \in Edits, SaveInWebUI(f) PROVE Typed'
  <2>1. f \in Config
    BY FilesAssumption
  <2> QED
    BY <1>4, <2>1 DEF SaveInWebUI, RouteTypeOK, SetupPCs, Serving, Stopping, Complete
<1>5. CASE Reload
  <2>1. cfg' \in Config
    BY <1>5, LoadConfigOK DEF Reload, RouteTypeOK, Complete
  <2> QED
    BY <1>5, <2>1 DEF Reload, RouteTypeOK, SetupPCs, Serving, Stopping, Complete
<1>6. CASE Shutdown
  BY <1>6 DEF Shutdown, RouteTypeOK, SetupPCs, Serving, Stopping, Complete
<1>7. CASE PoolClosed
  <2>1. swept' \in BOOLEAN
    BY <1>7 DEF PoolClosed, RouteTypeOK, Config
  <2> QED
    BY <1>7, <2>1 DEF PoolClosed, Stop, RouteTypeOK, SetupPCs, Serving, Stopping, Complete
<1>8. CASE ForceExit
  BY <1>8 DEF ForceExit, Stop, RouteTypeOK, SetupPCs, Complete
<1>9. CASE Cleanup
  <2>1. CASE DelRule(4, "delRule4", "delRoute4")
    BY <2>1, DelTyped DEF Families, Stopping
  <2>2. CASE DelRoute(4, "delRoute4", "delRule6")
    BY <2>2, DelTyped DEF Families, Stopping
  <2>3. CASE DelRule(6, "delRule6", "delRoute6")
    BY <2>3, DelTyped DEF Families, Stopping
  <2>4. CASE DelRoute(6, "delRoute6", "delNft")
    BY <2>4, DelTyped DEF Families, Stopping
  <2>5. CASE DelNft
    <3>1. /\ nft' \in [NftNames -> Seq(NftRule)]
          /\ \A n \in NftNames : nft'[n] = <<>> \/ nft'[n] = nft[n]
      <4>1. CASE nft' = nft
        BY <4>1
      <4>2. CASE nft' = [n \in NftNames |-> IF n = cfg.nft THEN <<>> ELSE nft[n]]
        <5>1. <<>> \in Seq(NftRule)
          OBVIOUS
        <5> QED
          BY <4>2, <5>1
      <4> QED
        BY <2>5, <4>1, <4>2 DEF DelNft
    <3>2. ok' \in BOOLEAN /\ swept' \in BOOLEAN
      <4>1. ok' \in BOOLEAN
        BY <2>5 DEF DelNft, RouteTypeOK
      <4>2. swept' \in BOOLEAN
        BY <2>5 DEF DelNft, Sweep, OwnKeys, RouteTypeOK
      <4> QED
        BY <4>1, <4>2
    <3>3. RouteTypeOK'
      BY <2>5, <3>1, <3>2 DEF DelNft, Stop, RouteTypeOK
    <3> QED
      BY <2>5, <3>1, <3>3 DEF DelNft, Stop, SetupPCs, Complete
  <2> QED
    BY <1>9, <2>1, <2>2, <2>3, <2>4, <2>5 DEF Cleanup
<1>10. CASE Restart
  BY <1>10 DEF Restart, Stop, RouteTypeOK, SetupPCs, Complete
<1>11. CASE Crash
  BY <1>11 DEF Crash, Stop, RouteTypeOK, SetupPCs, Complete
<1>12. CASE UNCHANGED routeVars
  BY <1>12 DEF routeVars, RouteTypeOK, Complete
<1> QED
  BY <1>1, <1>2, <1>3, <1>4, <1>5, <1>6, <1>7, <1>8, <1>9, <1>10, <1>11, <1>12 DEF RouteNext

\* RouteTypeOK of AutoRoute, and in particular no policy rule with mark 0, for
\* every set of configuration files.
THEOREM TypesHold == RouteSpec => []RouteTypeOK
<1>1. Typed => RouteTypeOK
  BY DEF Typed
<1> QED
  BY InitTyped, NextTyped, <1>1, PTL DEF RouteSpec
-----------------------------------------------------------------------------
(* Residue *)

Gone == pc = "off" /\ exit = "graceful"

\* What setup installs for a family, with the keys of this start.
Policy(f) == [fam |-> f, mark |-> boot.mark, table |-> boot.table]
Local(f) == [fam |-> f, table |-> boot.table]

\* How far a cleanup that goes by those keys and has met no failure has come.
Cleaned ==
    /\ pc \in {"delRoute4", "delRule6", "delRoute6", "delNft"} \/ Gone => Policy(4) \notin ipRules
    /\ pc \in {"delRule6", "delRoute6", "delNft"} \/ Gone => Local(4) \notin routes
    /\ pc \in {"delRoute6", "delNft"} \/ Gone => Policy(6) \notin ipRules
    /\ pc = "delNft" \/ Gone => Local(6) \notin routes
    /\ Gone => nft[boot.nft] = <<>>

ResidueInv ==
    /\ swept => pc \in {"delRule4", "delRoute4", "delRule6", "delRoute6", "delNft", "off"}
    /\ swept /\ ok => Cleaned

\* A step during which the cleanup does not go on.
LEMMA ResidueKept ==
    ASSUME ResidueInv, UNCHANGED <<kernel, boot, ok, swept>>,
           \/ UNCHANGED <<pc, exit>>
           \/ pc' = "off" /\ exit' # "graceful"
    PROVE  ResidueInv'
BY DEF ResidueInv, Cleaned, Gone, Policy, Local, kernel

\* RuleDel and RouteDel take away what they look for, or fail.
LEMMA DelResidue ==
    ASSUME ResidueInv,
           \/ DelRule(4, "delRule4", "delRoute4") \/ DelRoute(4, "delRoute4", "delRule6")
           \/ DelRule(6, "delRule6", "delRoute6") \/ DelRoute(6, "delRoute6", "delNft")
    PROVE  ResidueInv'
<1> USE DEF ResidueInv, Sweep
<1>1. /\ pc' \in {"delRoute4", "delRule6", "delRoute6", "delNft"} /\ ~Gone'
      /\ ipRules' \subseteq ipRules /\ routes' \subseteq routes /\ boot' = boot
      /\ (ok' => ok) /\ (swept' => swept /\ OwnKeys)
  <2>1. swept' => swept /\ OwnKeys
    BY Zenon DEF DelRule, DelRoute
  <2>2. ok' => ok
    BY Zenon DEF DelRule, DelRoute
  <2>3. pc' \in {"delRoute4", "delRule6", "delRoute6", "delNft"} /\ ~Gone'
    BY DEF DelRule, DelRoute, Gone
  <2>4. ipRules' \subseteq ipRules /\ routes' \subseteq routes /\ boot' = boot
    BY DEF DelRule, DelRoute
  <2> QED
    BY <2>1, <2>2, <2>3, <2>4
<1>2. OwnKeys => \A f \in Families : PolicyRule(f) = Policy(f) /\ LocalRoute(f) = Local(f)
  BY DEF OwnKeys, PolicyRule, LocalRoute, Policy, Local
<1>3. \A f \in Families : Policy(f)' = Policy(f) /\ Local(f)' = Local(f)
  BY <1>1 DEF Policy, Local
<1>4. 4 \in Families /\ 6 \in Families
  BY DEF Families
<1> SUFFICES ASSUME swept', ok' PROVE Cleaned'
  BY <1>1
<1>5. swept /\ ok /\ Cleaned /\ OwnKeys
  BY <1>1
<1>6. CASE DelRule(4, "delRule4", "delRoute4")
  <2>1. pc' = "delRoute4" /\ Policy(4) \notin ipRules'
    BY <1>2, <1>4, <1>5, <1>6 DEF DelRule
  <2> QED
    BY <2>1, <1>1, <1>3, <1>4 DEF Cleaned
<1>7. CASE DelRoute(4, "delRoute4", "delRule6")
  <2>1. pc = "delRoute4" /\ pc' = "delRule6" /\ Local(4) \notin routes'
    BY <1>2, <1>4, <1>5, <1>7 DEF DelRoute
  <2> QED
    BY <2>1, <1>1, <1>3, <1>4, <1>5 DEF Cleaned
<1>8. CASE DelRule(6, "delRule6", "delRoute6")
  <2>1. pc = "delRule6" /\ pc' = "delRoute6" /\ Policy(6) \notin ipRules'
    BY <1>2, <1>4, <1>5, <1>8 DEF DelRule
  <2> QED
    BY <2>1, <1>1, <1>3, <1>4, <1>5 DEF Cleaned
<1>9. CASE DelRoute(6, "delRoute6", "delNft")
  <2>1. pc = "delRoute6" /\ pc' = "delNft" /\ Local(6) \notin routes'
    BY <1>2, <1>4, <1>5, <1>9 DEF DelRoute
  <2> QED
    BY <2>1, <1>1, <1>3, <1>4, <1>5 DEF Cleaned
<1> QED
  BY <1>6, <1>7, <1>8, <1>9

\* Every step preserves the invariant.
LEMMA NextResidue == Typed /\ ResidueInv /\ [RouteNext]_routeVars => ResidueInv'
<1> SUFFICES ASSUME Typed, ResidueInv, [RouteNext]_routeVars PROVE ResidueInv'
  OBVIOUS
<1>1. CASE Start
  BY <1>1 DEF Start, ResidueInv
<1>2. CASE Setup
  <2>1. pc \in SetupPCs \cup {"routed"} /\ swept' = swept
    BY <1>2 DEF Setup, AddRule, AddRoute, AddNft, Listen, SetupPCs
  <2>2. ~swept
    BY <2>1 DEF ResidueInv, SetupPCs
  <2> QED
    BY <2>1, <2>2 DEF ResidueInv
<1>3. ASSUME NEW f \in Edits, EditFile(f) PROVE ResidueInv'
  BY <1>3, ResidueKept DEF EditFile
<1>4. ASSUME NEW f \in Edits, SaveInWebUI(f) PROVE ResidueInv'
  BY <1>4, ResidueKept DEF SaveInWebUI
<1>5. CASE Reload
  BY <1>5, ResidueKept DEF Reload
<1>6. CASE Shutdown
  BY <1>6 DEF Shutdown, ResidueInv
<1>7. CASE PoolClosed
  <2>1. CASE cfg.auto
    BY <1>7, <2>1 DEF PoolClosed, ResidueInv, Cleaned, Gone
  <2>2. CASE ~cfg.auto
    BY <1>7, <2>2 DEF PoolClosed, ResidueInv
  <2> QED
    BY <2>1, <2>2
<1>8. CASE ForceExit
  BY <1>8, ResidueKept DEF ForceExit, Stop
<1>9. CASE Cleanup
  <2>1. CASE DelNft
    <3> USE <2>1 DEF DelNft, Stop, Sweep, ResidueInv
    <3>1. pc = "delNft" /\ pc' = "off" /\ UNCHANGED <<ipRules, routes, boot>>
          /\ (ok' => ok) /\ (swept' => swept /\ OwnKeys)
      <4>1. swept' => swept /\ OwnKeys
        BY Zenon
      <4>2. ok' => ok
        BY Zenon
      <4> QED
        BY <4>1, <4>2
    <3> SUFFICES ASSUME swept', ok' PROVE Cleaned'
      BY <3>1
    <3>2. Cleaned /\ cfg.nft = boot.nft /\ ok
      BY <3>1 DEF OwnKeys
    <3>3. boot.nft \in NftNames
      BY DEF Typed, Complete
    <3>4. nft'[boot.nft] = <<>>
      BY <3>2, <3>3
    <3> QED
      BY <3>1, <3>2, <3>4 DEF Cleaned, Policy, Local
  <2> QED
    BY <1>9, <2>1, DelResidue DEF Cleanup
<1>10. CASE Restart
  BY <1>10, ResidueKept DEF Restart, Stop
<1>11. CASE Crash
  BY <1>11, ResidueKept DEF Crash, Stop
<1>12. CASE UNCHANGED routeVars
  BY <1>12, ResidueKept DEF routeVars
<1> QED
  BY <1>1, <1>2, <1>3, <1>4, <1>5, <1>6, <1>7, <1>8, <1>9, <1>10, <1>11, <1>12 DEF RouteNext

\* What the two families' deletions leave has other keys.
LEMMA ResidueGone == Typed /\ ResidueInv => OwnResidueGone
<1> SUFFICES ASSUME Typed, ResidueInv, Gone, ok, swept
             PROVE  /\ \A p \in ipRules : p.mark # boot.mark \/ p.table # boot.table
                    /\ \A q \in routes : q.table # boot.table
                    /\ nft[boot.nft] = <<>>
  BY DEF OwnResidueGone, Gone
<1>1. Cleaned
  BY DEF ResidueInv
<1>2. ASSUME NEW p \in ipRules, p.mark = boot.mark, p.table = boot.table PROVE FALSE
  <2>1. p \in [fam : Families, mark : Nat \ {0}, table : Nat \ {0}]
    BY DEF Typed, RouteTypeOK
  <2>2. p = Policy(p.fam) /\ p.fam \in {4, 6}
    BY <1>2, <2>1 DEF Policy, Families
  <2> QED
    BY <1>1, <2>2 DEF Cleaned
<1>3. ASSUME NEW q \in routes, q.table = boot.table PROVE FALSE
  <2>1. q \in [fam : Families, table : Nat \ {0}]
    BY DEF Typed, RouteTypeOK
  <2>2. q = Local(q.fam) /\ q.fam \in {4, 6}
    BY <1>3, <2>1 DEF Local, Families
  <2> QED
    BY <1>1, <2>2 DEF Cleaned
<1> QED
  BY <1>1, <1>2, <1>3 DEF Cleaned

\* OwnResidueGone: after a graceful exit nothing with the keys of this start
\* is left, however many processes were killed half way through setup or
\* cleanup before and however the configuration changed, unless a deletion
\* failed or the keys themselves were changed before the cleanup was through.
THEOREM NoResidue == RouteSpec => []OwnResidueGone
<1>1. RouteInit => ResidueInv
  BY DEF RouteInit, ResidueInv
<1> QED
  BY InitTyped, NextTyped, <1>1, NextResidue, ResidueGone, PTL DEF RouteSpec
-----------------------------------------------------------------------------
(* Interception *)

Needs(f) == \E c \in CidrsOf(boot) : Fam[c] = f

\* All nftables rules, also those of earlier processes, lead to the listener.
SameRules(m, p) ==
    \A x \in NftNames : \A i \in 1 .. Len(nft[x]) : nft[x][i].mark = m /\ nft[x][i].port = p

\* What a start without failures has installed so far.
Installed ==
    ok /\ boot.auto =>
        /\ pc \in {"route4", "rule6", "route6", "nft", "routed", "up"} /\ Needs(4)
               => Policy(4) \in ipRules
        /\ pc \in {"rule6", "route6", "nft", "routed", "up"} /\ Needs(4) => Local(4) \in routes
        /\ pc \in {"route6", "nft", "routed", "up"} /\ Needs(6) => Policy(6) \in ipRules
        /\ pc \in {"nft", "routed", "up"} /\ Needs(6) => Local(6) \in routes
        /\ pc \in {"routed", "up"} => \A c \in CidrsOf(boot) :
               \E i \in 1 .. Len(nft[boot.nft]) : nft[boot.nft][i].cidr = c

MarkInv(m, p) ==
    /\ boot.mark = m
    /\ pc \in SetupPCs \cup {"routed"} => cfg.port = p
    /\ pc = "up" => listen = p
    /\ SameRules(m, p) /\ Installed

\* Appended rules have the mark and the port of those before.
LEMMA AppendSame ==
    ASSUME NEW s \in Seq(NftRule), NEW c, Complete(c)
    PROVE  LET u == s \o NftRules(c)
           IN  /\ \A i \in 1 .. Len(u) :
                     \/ i \in 1 .. Len(s) /\ u[i] = s[i]
                     \/ u[i].mark = c.mark /\ u[i].port = c.port
               /\ \A d \in CidrsOf(c) : \E i \in 1 .. Len(u) : u[i].cidr = d
<1> DEFINE r == NftRules(c)
           u == s \o r
<1>1. r \in Seq(NftRule)
  BY NftRulesOK
<1>2. \A i \in 1 .. Len(r) : r[i].mark = c.mark /\ r[i].port = c.port
  BY NftRulesOK
<1>3. \A d \in CidrsOf(c) : \E i \in 1 .. Len(r) : r[i].cidr = d
  BY NftRulesOK
<1> HIDE DEF r
<1>4. Len(s) \in Nat /\ Len(r) \in Nat /\ Len(u) = Len(s) + Len(r)
  BY <1>1
<1>5. \A i \in 1 .. Len(s) : u[i] = s[i]
  BY <1>1
<1>6. \A i \in 1 .. Len(r) : i + Len(s) \in 1 .. Len(u) /\ u[i + Len(s)] = r[i]
  BY <1>1, <1>4
<1>7. \A i \in 1 .. Len(u) : i \notin 1 .. Len(s) => i - Len(s) \in 1 .. Len(r)
                                                   /\ u[i] = r[i - Len(s)]
  BY <1>1, <1>4
<1> HIDE DEF u
<1>8. \A i \in 1 .. Len(u) : \/ i \in 1 .. Len(s) /\ u[i] = s[i]
                             \/ u[i].mark = c.mark /\ u[i].port = c.port
  BY <1>2, <1>5, <1>7
<1>9. \A d \in CidrsOf(c) : \E i \in 1 .. Len(u) : u[i].cidr = d
  BY <1>3, <1>6
<1> QED
  BY <1>8, <1>9 DEF u, r

\* A step during which nothing of AutoRoute changes and main does not go on.
LEMMA MarkKept ==
    ASSUME NEW m, NEW p, MarkInv(m, p), UNCHANGED <<kernel, boot, ok, listen>>,
           pc' = pc \/ pc' \notin SetupPCs \cup {"routed", "up"},
           pc' \in SetupPCs \cup {"routed"} => cfg'.port = p
    PROVE  MarkInv(m, p)'
<1> USE DEF MarkInv, kernel
<1>1. SameRules(m, p)'
  BY DEF SameRules
<1>2. Installed'
  BY DEF Installed, Policy, Local, Needs, CidrsOf, SetupPCs
<1> QED
  BY <1>1, <1>2

\* netlink.RuleAdd and RouteAdd.
LEMMA AddMark ==
    ASSUME NEW m, NEW p, Typed, MarkInv(m, p),
           \/ AddRule(4, "rule4", "route4") \/ AddRoute(4, "route4", "rule6")
           \/ AddRule(6, "rule6", "route6") \/ AddRoute(6, "route6", "nft")
    PROVE  MarkInv(m, p)'
<1> USE DEF MarkInv
<1>1. /\ cfg = boot /\ pc \in SetupPCs /\ pc' \in SetupPCs
      /\ UNCHANGED <<cfg, boot, nft, listen>>
  BY DEF AddRule, AddRoute, Typed, SetupPCs
<1>2. SameRules(m, p)'
  BY <1>1 DEF SameRules
<1>3. ipRules \subseteq ipRules' /\ routes \subseteq routes' /\ (ok' => ok)
  BY DEF AddRule, AddRoute
<1>4. \A f \in Families : /\ Needs(f)' <=> Needs(f)
                          /\ Policy(f)' = Policy(f) /\ Local(f)' = Local(f)
                          /\ Has(f) <=> Needs(f)
                          /\ PolicyRule(f) = Policy(f) /\ LocalRoute(f) = Local(f)
  BY <1>1 DEF Needs, Policy, Local, Has, PolicyRule, LocalRoute, CidrsOf
<1>5. 4 \in Families /\ 6 \in Families
  BY DEF Families
<1>6. Installed'
  <2>1. CASE AddRule(4, "rule4", "route4")
    <3>1. pc' = "route4" /\ (ok' /\ Needs(4) => Policy(4) \in ipRules')
      BY <2>1, <1>4, <1>5 DEF AddRule
    <3> QED
      BY <3>1, <1>4, <1>5 DEF Installed
  <2>2. CASE AddRoute(4, "route4", "rule6")
    <3>1. pc = "route4" /\ pc' = "rule6" /\ (ok' /\ Needs(4) => Local(4) \in routes')
      BY <2>2, <1>4, <1>5 DEF AddRoute
    <3> QED
      BY <3>1, <1>1, <1>3, <1>4, <1>5 DEF Installed
  <2>3. CASE AddRule(6, "rule6", "route6")
    <3>1. pc = "rule6" /\ pc' = "route6" /\ (ok' /\ Needs(6) => Policy(6) \in ipRules')
      BY <2>3, <1>4, <1>5 DEF AddRule
    <3> QED
      BY <3>1, <1>1, <1>3, <1>4, <1>5 DEF Installed
  <2>4. CASE AddRoute(6, "route6", "nft")
    <3>1. pc = "route6" /\ pc' = "nft" /\ (ok' /\ Needs(6) => Local(6) \in routes')
      BY <2>4, <1>4, <1>5 DEF AddRoute
    <3> QED
      BY <3>1, <1>1, <1>3, <1>4, <1>5 DEF Installed
  <2> QED
    BY <2>1, <2>2, <2>3, <2>4
<1> QED
  BY <1>1, <1>2, <1>6 DEF SetupPCs

\* Every step preserves the invariant.
LEMMA NextMark ==
    ASSUME NEW m, NEW p, SameMarking(m, p)
    PROVE  Typed /\ MarkInv(m, p) /\ [RouteNext]_routeVars => MarkInv(m, p)'
<1> SUFFICES ASSUME Typed, MarkInv(m, p), [RouteNext]_routeVars PROVE MarkInv(m, p)'
  OBVIOUS
<1>1. CASE Start
  <2> USE <1>1 DEF Start
  <2>1. boot'.mark = m /\ cfg'.port = p
    BY DEF SameMarking, Typed, RouteTypeOK
  <2>2. pc' = "rule4" \/ (pc' = "routed" /\ ~boot'.auto)
    OBVIOUS
  <2>3. SameRules(m, p)' /\ Installed'
    BY <2>2 DEF MarkInv, SameRules, Installed
  <2> QED
    BY <2>1, <2>2, <2>3 DEF MarkInv
<1>2. CASE Setup
  <2>1. CASE AddNft
    <3> USE <2>1 DEF AddNft, MarkInv
    <3>1. cfg = boot /\ cfg.port = p /\ Complete(boot) /\ boot.nft \in NftNames
          /\ nft[boot.nft] \in Seq(NftRule)
      BY DEF Typed, SetupPCs, Complete
    <3>2. pc' = "routed" /\ UNCHANGED <<boot, cfg, ipRules, routes>> /\ (ok' => ok)
      OBVIOUS
    <3> DEFINE u == nft[boot.nft] \o NftRules(boot)
    <3>3. /\ \A i \in 1 .. Len(u) :
                \/ i \in 1 .. Len(nft[boot.nft]) /\ u[i] = nft[boot.nft][i]
                \/ u[i].mark = boot.mark /\ u[i].port = boot.port
          /\ \A d \in CidrsOf(boot) : \E i \in 1 .. Len(u) : u[i].cidr = d
      BY <3>1, AppendSame
    <3>4. \/ nft' = [nft EXCEPT ![boot.nft] = u]
          \/ nft' = nft /\ ~ok'
      BY <3>1
    <3> HIDE DEF u
    <3>5. SameRules(m, p)'
      <4>1. \A i \in 1 .. Len(u) : u[i].mark = m /\ u[i].port = p
        BY <3>1, <3>3 DEF SameRules
      <4>2. \A x \in NftNames : nft'[x] = u \/ nft'[x] = nft[x]
        BY <3>1, <3>4 DEF Typed
      <4> QED
        BY <4>1, <4>2 DEF SameRules
    <3>6. ok' => \A c \in CidrsOf(boot) :
             \E i \in 1 .. Len(nft'[boot.nft]) : nft'[boot.nft][i].cidr = c
      BY <3>1, <3>3, <3>4 DEF Typed
    <3>7. Installed'
      BY <3>2, <3>6 DEF Installed, Needs, Policy, Local, CidrsOf
    <3> QED
      BY <3>1, <3>2, <3>5, <3>7
  <2>2. CASE Listen
    <3>1. SameRules(m, p)'
      BY <2>2 DEF Listen, kernel, MarkInv, SameRules
    <3>2. Installed'
      BY <2>2 DEF Listen, kernel, MarkInv, Installed, Needs, Policy, Local, CidrsOf
    <3> QED
      BY <2>2, <3>1, <3>2 DEF Listen, MarkInv, SetupPCs
  <2> QED
    BY <1>2, <2>1, <2>2, AddMark DEF Setup
<1>3. ASSUME NEW f \in Edits, EditFile(f) PROVE MarkInv(m, p)'
  BY <1>3, MarkKept DEF EditFile, MarkInv
<1>4. ASSUME NEW f \in Edits, SaveInWebUI(f) PROVE MarkInv(m, p)'
  <2>1. pc \notin SetupPCs \cup {"routed"}
    BY <1>4 DEF SaveInWebUI, Serving, Stopping, SetupPCs
  <2> QED
    BY <1>4, <2>1, MarkKept DEF SaveInWebUI
<1>5. CASE Reload
  <2>1. cfg'.port = p
    BY <1>5 DEF Reload, SameMarking, Typed, RouteTypeOK
  <2> QED
    BY <1>5, <2>1, MarkKept DEF Reload
<1>6. CASE Shutdown
  <2>1. SameRules(m, p)'
    BY <1>6 DEF Shutdown, kernel, MarkInv, SameRules
  <2>2. Installed'
    BY <1>6 DEF Shutdown, Installed
  <2> QED
    BY <1>6, <2>1, <2>2 DEF Shutdown, MarkInv, SetupPCs
<1>7. CASE PoolClosed
  BY <1>7, MarkKept DEF PoolClosed, Stop, SetupPCs
<1>8. CASE ForceExit
  BY <1>8, MarkKept DEF ForceExit, Stop, SetupPCs
<1>9. CASE Cleanup
  <2>1. /\ pc' \in Stopping \cup {"off"} /\ UNCHANGED <<boot, listen>>
        /\ pc' \notin SetupPCs \cup {"routed", "up"}
    BY <1>9 DEF Cleanup, DelRule, DelRoute, DelNft, Stop, Stopping, SetupPCs
  <2>2. \A x \in NftNames : nft'[x] = nft[x] \/ nft'[x] = <<>>
    BY <1>9 DEF Cleanup, DelRule, DelRoute, DelNft
  <2>3. SameRules(m, p)'
    BY <2>2 DEF MarkInv, SameRules
  <2>4. Installed'
    BY <2>1 DEF Installed, SetupPCs
  <2> QED
    BY <2>1, <2>3, <2>4 DEF MarkInv
<1>10. CASE Restart
  BY <1>10, MarkKept DEF Restart, Stop, SetupPCs
<1>11. CASE Crash
  BY <1>11, MarkKept DEF Crash, Stop, SetupPCs
<1>12. CASE UNCHANGED routeVars
  BY <1>12, MarkKept DEF routeVars, MarkInv
<1> QED
  BY <1>1, <1>2, <1>3, <1>4, <1>5, <1>6, <1>7, <1>8, <1>9, <1>10, <1>11, <1>12 DEF RouteNext

\* Initially there is no rule.
LEMMA InitMark == ASSUME NEW m, NEW p, SameMarking(m, p), RouteInit PROVE MarkInv(m, p)
<1> USE DEF RouteInit
<1>1. boot.mark = m
  BY DEF SameMarking
<1>2. SameRules(m, p)
  BY DEF SameRules
<1> QED
  BY <1>1, <1>2 DEF MarkInv, Installed, SetupPCs

\* What is installed intercepts every range that is written without host bits.
LEMMA MarkIntercepts ==
    ASSUME NEW m, NEW p, Cidrs \subseteq Aligned, Typed, MarkInv(m, p)
    PROVE  Intercepted
<1> SUFFICES ASSUME pc = "up", ok, boot.auto, NEW c \in CidrsOf(boot) PROVE Intercepts(c)
  BY DEF Intercepted
<1> DEFINE hits(n) == {i \in 1 .. Len(nft[n]) : nft[n][i].cidr = c /\ c \in Aligned}
<1>1. boot \in Config /\ boot.nft \in NftNames
  BY DEF Typed, Complete
<1>2. c \in Aligned /\ Fam[c] \in {4, 6}
  BY <1>1, CidrsTyped, CidrAssumption DEF Families
<1>3. hits(boot.nft) # {}
  BY <1>2 DEF MarkInv, Installed
<1>4. Policy(Fam[c]) \in ipRules /\ Local(Fam[c]) \in routes
  <2>1. CASE Fam[c] = 4
    BY <2>1 DEF MarkInv, Installed, Needs
  <2>2. CASE Fam[c] = 6
    BY <2>2 DEF MarkInv, Installed, Needs
  <2> QED
    BY <1>2, <2>1, <2>2
<1>5. /\ Policy(Fam[c]).fam = Fam[c] /\ Policy(Fam[c]).mark = m
      /\ [fam |-> Policy(Fam[c]).fam, table |-> Policy(Fam[c]).table] = Local(Fam[c])
  BY DEF Policy, Local, MarkInv
<1>6. ASSUME NEW n \in NftNames, NEW i \in hits(n)
      PROVE  nft[n][i].port = listen /\ nft[n][i].mark = m
  BY DEF MarkInv, SameRules
<1>7. ASSUME NEW n \in NftNames, NEW i \in hits(n)
      PROVE  /\ nft[n][i].port = listen
             /\ \E q \in ipRules : /\ q.fam = Fam[c] /\ q.mark = nft[n][i].mark
                                   /\ [fam |-> q.fam, table |-> q.table] \in routes
  BY <1>4, <1>5, <1>6
<1> QED
  BY <1>1, <1>3, <1>7 DEF Intercepts

\* Whatever earlier processes have left behind, packets to the ranges of the
\* FakeIP pool reach the listener of a start without netlink failures, as
\* long as mark and port stay the same and no range is written with host bits.
THEOREM PacketsReachListener ==
    ASSUME NEW m, NEW p, SameMarking(m, p), Cidrs \subseteq Aligned
    PROVE  RouteSpec => []Intercepted
<1>1. RouteInit => MarkInv(m, p)
  BY InitMark
<1>2. Typed /\ MarkInv(m, p) /\ [RouteNext]_routeVars => MarkInv(m, p)'
  BY NextMark
<1>3. Typed /\ MarkInv(m, p) => Intercepted
  BY MarkIntercepts
<1> QED
  BY InitTyped, NextTyped, <1>1, <1>2, <1>3, PTL DEF RouteSpec
=============================================================================
