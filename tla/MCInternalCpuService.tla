------------------------ MODULE MCInternalCpuService ------------------------
(* Instances of InternalCpuService for TLC. *)
EXTENDS InternalCpuService

CONSTANTS p1, p2, t1, t2, t3

\* One handler thread per process: each app issues its trace calls from
\* one thread at a time.
MCPids == {p1, p2}
MCThreadsSerial == {t1, t2}
MCCallerSerial == [t \in MCThreadsSerial |-> IF t = t1 THEN p1 ELSE p2]

\* Concurrent trace calls from threads of one app process.
MCThreadsShared2 == {t1, t2}
MCThreadsShared3 == {t1, t2, t3}
MCCallerShared2 == [t \in MCThreadsShared2 |-> p1]
MCCallerShared3 == [t \in MCThreadsShared3 |-> p1]
=============================================================================
