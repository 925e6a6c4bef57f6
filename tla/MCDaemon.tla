------------------------------ MODULE MCDaemon ------------------------------
(* Instances of Daemon for TLC. *)
EXTENDS Daemon

CONSTANTS p1, p2, r1, r2

MCPids == {p1, p2}
MCRpcThreads == {r1, r2}
\* Two of the five samplers Session creates, in their order in samplers_.
MCSamplerKinds == <<"CpuUsageDataSampler", "AgentStatusSampler">>
=============================================================================
