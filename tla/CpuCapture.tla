----------------------------- MODULE CpuCapture -----------------------------
(***************************************************************************)
(* What the CPU trace capture state machine promises (spec section 4.4):   *)
(* per process it is Idle or Recording one capture; a start is granted     *)
(* only in Idle; an agent stop ends an API-initiated capture and files its *)
(* content under that capture's trace id; Studio may end any capture.     *)
(* Every transition is atomic.                                             *)
(***************************************************************************)
CONSTANTS Pids, Capture, INITIATED_BY_API, None

VARIABLES
  recording,  \* pid -> the capture in progress, or None
  stored      \* <<pid, trace_id>> keys of filed trace contents

Init ==
  /\ recording = [p \in Pids |-> None]
  /\ stored = {}

Begin(p) ==
  /\ recording[p] = None
  /\ recording' \in {[recording EXCEPT ![p] = c] : c \in Capture}
  /\ UNCHANGED stored

AgentEnd(p) ==
  /\ recording[p] # None
  /\ recording[p].initiation_type = INITIATED_BY_API
  /\ stored' = stored \cup {<<p, recording[p].trace_id>>}
  /\ recording' = [recording EXCEPT ![p] = None]

StudioEnd(p) ==
  /\ recording[p] # None
  /\ recording' = [recording EXCEPT ![p] = None]
  /\ UNCHANGED stored

Next == \E p \in Pids : Begin(p) \/ AgentEnd(p) \/ StudioEnd(p)

Spec == Init /\ [][Next]_<<recording, stored>>

=============================================================================
