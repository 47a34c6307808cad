------------------------------ MODULE Services ------------------------------
(***************************************************************************)
(* Five parts of the gateway that share no state: health checks, rule      *)
(* engine, AdBlock filter, statistics and UDP buffers.  Interleaving them  *)
(* would multiply their states and show nothing, so a behaviour is one of  *)
(* a single part, chosen at the start.                                     *)
(***************************************************************************)
EXTENDS HealthChecker, RuleEngine, AdBlock, Analytics, UDPBuffers

VARIABLE running  \* the part

allVars == <<running, vars, rVars, dVars, aVars, bVars>>

AllInit ==
    /\ running \in {"health", "rules", "adblock", "analytics", "buffers"}
    /\ Init /\ (running = "health" \/ net = [n \in Nodes |-> 1])
    /\ RInit /\ DInit /\ AInit /\ BInit
    /\ running = "adblock" \/ (~up /\ edition = CHOOSE e \in Editions : TRUE)

AllNext ==
    \/ running = "health" /\ Next
          /\ UNCHANGED <<running, rVars, dVars, aVars, bVars>>
    \/ running = "rules" /\ RNext
          /\ UNCHANGED <<running, vars, dVars, aVars, bVars>>
    \/ running = "adblock" /\ DNext
          /\ UNCHANGED <<running, vars, rVars, aVars, bVars>>
    \/ running = "analytics" /\ ANext
          /\ UNCHANGED <<running, vars, rVars, dVars, bVars>>
    \/ running = "buffers" /\ BNext
          /\ UNCHANGED <<running, vars, rVars, dVars, aVars>>

\* The fairness of HealthChecker and of AdBlock, for their own behaviours.
HealthFair ==
    \A g \in Groups :
        /\ WF_vars(running = "health" /\ StartRound(g))
        /\ WF_vars(running = "health" /\ UpdateGroupSelection(g))
        /\ \A n \in Nodes : WF_vars(running = "health" /\ ProbeDone(g, n))

BlockFair ==
    /\ SF_dVars(running = "adblock" /\ Refresh)
    /\ \A f \in Filters : WF_dVars(running = "adblock" /\ ReadEnds(f))
    /\ \A c \in Lookups : WF_dVars(running = "adblock" /\ Answer(c))

AllSpec == AllInit /\ [][AllNext]_allVars /\ HealthFair /\ BlockFair
-----------------------------------------------------------------------------
(* Properties: those of the parts, and *)

\* Every variable of every part keeps its type (for the rule engine: the trie
\* is a tree; for the statistics: no more hours than MaxHourlyBuckets).
PartsTyped ==
    /\ running = "health" => TypeOK
    /\ running = "rules" => RTypeOK
    /\ running = "adblock" => DTypeOK
    /\ running = "analytics" => ATypeOK
    /\ running = "buffers" => BTypeOK

\* HealthChecker: failover and fail-back settle on the right proxy.
GroupsConverge == Converges
=============================================================================
