--------------------------- MODULE MCDeepResearch ---------------------------
(* TLC instances of DeepResearch.                                          *)
EXTENDS DeepResearch

\* Programs pass a question, a message, both or nothing; AgentServer passes a
\* message.
AnyInput    == SUBSET {"question", "message"}
ServerInput == {{"message"}}
=============================================================================
