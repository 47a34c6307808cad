--------------------------- MODULE MCConfigReload ---------------------------
(* A small instance of hot reload for TLC. *)
EXTENDS ConfigReload

CONSTANTS v1, v2, s1

TwoVersions == {v1, v2}
AllJobs == {"sighup", "webui", "rules"}
OneSub == {s1}
=============================================================================
