----------------------- MODULE MCObservabilityScripts -----------------------
(* TLC instance of ObservabilityScripts: two cells, and no other cluster.   *)
EXTENDS ObservabilityScripts
=============================================================================
