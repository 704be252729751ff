---------------------------- MODULE MCAgentServer ----------------------------
(* TLC instances of AgentServer.                                           *)
EXTENDS AgentServer
=============================================================================
