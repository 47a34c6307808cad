------------------------ MODULE MCResolverAndRoutes -------------------------
(* A small instance of the resolver and of AutoRoute for TLC. *)
EXTENDS ResolverAndRoutes, MCResolver, MCAutoRoute
=============================================================================
