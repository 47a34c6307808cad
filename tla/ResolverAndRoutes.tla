------------------------- MODULE ResolverAndRoutes --------------------------
(***************************************************************************)
(* The caching resolver and AutoRoute, which share no state: a behaviour   *)
(* is one of a single part, chosen at the start, as in Services.           *)
(***************************************************************************)
EXTENDS Resolver, AutoRoute

VARIABLE running  \* the part

pairVars == <<running, vars, routeVars>>

PairInit ==
    /\ running \in {"resolver", "routes"}
    /\ Init /\ RouteInit
    /\ running = "routes" \/ file = CHOOSE f \in Files : TRUE

PairNext ==
    \/ running = "resolver" /\ Next /\ UNCHANGED <<running, routeVars>>
    \/ running = "routes" /\ RouteNext /\ UNCHANGED <<running, vars>>

\* Queries end by their timeouts and runnable goroutines run; callers, the
\* cleaner, the WebUI and the clock need not do anything.
ResolverFair ==
    /\ \A k \in Calls : WF_vars(running = "resolver" /\ CallStep(k))
    /\ \A c \in Clients : WF_vars(running = "resolver" /\ \E k \in Calls : Join(c, k))
    /\ \A d \in Domains : WF_vars(running = "resolver" /\ \E k \in Calls : Refresh(d, k))

\* main and its shutdown goroutine keep running, and the timer fires.
RouteFair ==
    /\ WF_routeVars(running = "routes" /\ PoolClosed)
    /\ WF_routeVars(running = "routes" /\ Cleanup)
    /\ WF_routeVars(running = "routes" /\ ForceExit)

PairSpec == PairInit /\ [][PairNext]_pairVars /\ ResolverFair /\ RouteFair
=============================================================================
