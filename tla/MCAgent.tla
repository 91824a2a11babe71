------------------------------ MODULE MCAgent ------------------------------
EXTENDS Agent

CONSTANTS read, low, high

MCTools == {read, low, high}
MCRisk == [t \in MCTools |-> CASE t = read -> "read"
                               [] t = low -> "low_write"
                               [] t = high -> "high_write"]

\* Background runs share nothing with the streams but the set of invocations:
\* the two are explored one at a time.
Unopened(S) == \A r \in S : agent[r].pc = "idle"
Apart == Unopened(Streams) \/ Unopened(Background)

MCAgentSpec == AgentInit /\ [][AgentNext /\ Apart']_agentVars /\ AgentFairness
=============================================================================
