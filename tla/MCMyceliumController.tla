------------------------ MODULE MCMyceliumController ------------------------
(* TLC instances of MyceliumController.                                    *)
EXTENDS MyceliumController, TLC

CONSTANTS e1, a1

MCNamespaceOf == a1 :> e1

\* Both keys are created twice; or only the agent is; or only the ecosystem.
BothTwice      == e1 :> 2 @@ a1 :> 2
AgentTwice     == e1 :> 1 @@ a1 :> 2
EcosystemTwice == e1 :> 2 @@ a1 :> 0
=============================================================================
