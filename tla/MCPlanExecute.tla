--------------------------- MODULE MCPlanExecute ---------------------------
(* TLC instances of PlanExecute: every value is given in the .cfg files.   *)
EXTENDS PlanExecute
=============================================================================
