------------------------ MODULE MCScenarioLifecycle ------------------------
(* ScenarioLifecycle on a handful of HTTP calls: the constants are in the cfg. *)
EXTENDS ScenarioLifecycle
=============================================================================
