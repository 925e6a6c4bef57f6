---------------------------- MODULE MCAgentStatus ----------------------------
EXTENDS AgentStatus

CONSTANTS p1, p2

MCPids == {p1, p2}

=============================================================================
