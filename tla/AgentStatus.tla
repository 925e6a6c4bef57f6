----------------------------- MODULE AgentStatus -----------------------------
(***************************************************************************)
(* Agent heartbeat and status tracking in perfd: the heartbeat and status  *)
(* maps of Daemon (perfd/daemon.h), the status thread of GenericComponent  *)
(* (perfd/generic_component.h), which detaches an agent whose last         *)
(* heartbeat is older than kHeartbeatThresholdNs, and TryAttachAppAgent.   *)
(*                                                                         *)
(* The bodies of SetHeartBeatTimestamp, GetAgentStatus, TryAttachAppAgent  *)
(* and RunAgentStatusThread live in daemon.cc and generic_component.cc,    *)
(* which are not under src/; they follow the header comments and the      *)
(* specification (section 4.5).  Calls made by RPC threads are atomic      *)
(* steps.  The status thread is not an RPC: Daemon::mutex_ is private and  *)
(* guards command executions only (daemon.h 138-139), and the thread      *)
(* reaches the maps through the unlocked references of daemon.h 120-127,   *)
(* so its staleness check and its write of Detached are two steps.         *)
(*                                                                         *)
(* Time is the age of each heartbeat in clock ticks, saturated at          *)
(* Threshold + 1: "now - last_seen > threshold" only needs to know whether *)
(* the age exceeds Threshold.  The monitored processes are the             *)
(* environment: an app runs without an agent, with one, or has died.       *)
(***************************************************************************)
EXTENDS Naturals

CONSTANTS
  Pids,       \* monitored processes
  Threshold,  \* kHeartbeatThresholdNs, in clock ticks
  None

ASSUME Threshold \in Nat \ {0}

ATTACHED    == "ATTACHED"
DETACHED    == "DETACHED"
UNSPECIFIED == "UNSPECIFIED"
Ages        == 0 .. Threshold + 1

VARIABLES
  age,     \* heartbeat_timestamp_map_: pid -> ticks since its timestamp, or None
  status,  \* agent_status_map_: pid -> ATTACHED | DETACHED, or None
  proc,    \* environment: pid -> "app" | "agent" | "dead"
  todo,    \* status thread: the pids of its current pass not yet visited
  scan     \* status thread: the pid it found stale and is detaching, or None

vars == <<age, status, proc, todo, scan>>

TypeOK ==
  /\ age \in [Pids -> Ages \cup {None}]
  /\ status \in [Pids -> {ATTACHED, DETACHED, None}]
  /\ proc \in [Pids -> {"app", "agent", "dead"}]
  /\ todo \in SUBSET Pids
  /\ scan \in Pids \cup {None}

\* The maps start empty; an agent may already be loaded at startup.
Init ==
  /\ age = [p \in Pids |-> None]
  /\ status = [p \in Pids |-> None]
  /\ proc \in [Pids -> {"app", "agent"}]
  /\ todo = {}
  /\ scan = None

\* GetAgentStatus(pid): the recorded status, UNSPECIFIED for an unseen pid.
GetAgentStatus(p) == IF status[p] = None THEN UNSPECIFIED ELSE status[p]

\* Mutant: now and last_seen swapped in the subtraction, so the difference
\* is never above the threshold and every recorded heartbeat looks fresh.
CheckAppHeartBeatOperandsSwapped(p) == age[p] # None

\* CheckAppHeartBeat(pid): a heartbeat arrived within the threshold.
CheckAppHeartBeat(p) == age[p] # None /\ age[p] <= Threshold

\* IsAppAgentAlive(pid): an agent is attached to the app.
IsAppAgentAlive(p) == status[p] = ATTACHED

\* heartbeat_timestamp_map(): the pids the status thread iterates.
HeartbeatPids == {p \in Pids : age[p] # None}

\* A write through agent_status_map().
SetStatus(p, s) == status' = [status EXCEPT ![p] = s]

(***************************************************************************)
(* Operations.                                                             *)
(***************************************************************************)

\* SetHeartBeatTimestamp(pid, now): store the timestamp; a pid whose status
\* was Detached or unknown becomes Attached.
SetHeartBeatTimestamp(p) ==
  /\ age' = [age EXCEPT ![p] = 0]
  /\ SetStatus(p, ATTACHED)

\* The agent of a process sends a heartbeat.
Heartbeat(p) ==
  /\ proc[p] = "agent"
  /\ SetHeartBeatTimestamp(p)
  /\ UNCHANGED <<proc, todo, scan>>

\* Mutant: a failed attach stores the proto default UNSPECIFIED in the
\* status map instead of Detached.
TryAttachAppAgentStoresDefault(p) ==
  /\ ~IsAppAgentAlive(p)
  /\ \E ok \in IF proc[p] = "dead" THEN {FALSE} ELSE BOOLEAN :
       /\ proc' = [proc EXCEPT ![p] = IF ok THEN "agent" ELSE @]
       /\ SetStatus(p, IF ok THEN ATTACHED ELSE UNSPECIFIED)
  /\ UNCHANGED <<age, todo, scan>>

\* TryAttachAppAgent(pid, app, lib): true at once when an agent is
\* attached; otherwise the attach primitive runs, which can only succeed
\* on a live process, and its result is recorded as the status.
TryAttachAppAgent(p) ==
  /\ ~IsAppAgentAlive(p)
  /\ \E ok \in IF proc[p] = "dead" THEN {FALSE} ELSE BOOLEAN :
       /\ proc' = [proc EXCEPT ![p] = IF ok THEN "agent" ELSE @]
       /\ SetStatus(p, IF ok THEN ATTACHED ELSE DETACHED)
  /\ UNCHANGED <<age, todo, scan>>

\* RunAgentStatusThread starts a pass over heartbeat_timestamp_map().
ScanStart ==
  /\ todo = {} /\ scan = None
  /\ todo' = HeartbeatPids
  /\ UNCHANGED <<age, status, proc, scan>>

\* The pass visits a pid: an Attached pid without a heartbeat within the
\* threshold is picked for detaching; any other pid is passed over.
ScanVisit(p) ==
  /\ scan = None /\ p \in todo
  /\ todo' = todo \ {p}
  /\ scan' = IF ~CheckAppHeartBeat(p) /\ status[p] = ATTACHED THEN p ELSE None
  /\ UNCHANGED <<age, status, proc>>

\* The status thread writes Detached for the pid it picked and fires the
\* status-changed callbacks, whatever happened since its check.
ScanDetach ==
  /\ scan # None
  /\ SetStatus(scan, DETACHED)
  /\ scan' = None
  /\ UNCHANGED <<age, proc, todo>>

\* The clock advances: every stored heartbeat grows one tick older.
Tick ==
  /\ age' = [p \in Pids |-> IF age[p] = None \/ age[p] = Threshold + 1
                              THEN age[p] ELSE age[p] + 1]
  /\ UNCHANGED <<status, proc, todo, scan>>

\* A monitored process dies; its agent sends nothing more.
Die(p) ==
  /\ proc[p] # "dead"
  /\ proc' = [proc EXCEPT ![p] = "dead"]
  /\ UNCHANGED <<age, status, todo, scan>>

Next ==
  \/ Tick \/ ScanStart \/ ScanDetach
  \/ \E p \in Pids : Heartbeat(p) \/ TryAttachAppAgent(p) \/ ScanVisit(p) \/ Die(p)

\* The status thread: a loop that never exits.
StatusThread == ScanStart \/ ScanDetach \/ \E p \in Pids : ScanVisit(p)

\* Time always advances and the status thread loops forever.
Fairness ==
  WF_vars(Tick) /\ WF_vars(StatusThread)

Spec == Init /\ [][Next]_vars /\ Fairness

(***************************************************************************)
(* Properties.                                                             *)
(***************************************************************************)

\* The status map never reports Detached for a pid whose agent sent a
\* heartbeat within the threshold: a heartbeat re-attaches, and the status
\* thread detaches only silent agents.
DetachedOnlyWhenSilent ==
  \A p \in Pids : status[p] = DETACHED => ~CheckAppHeartBeat(p)

\* An agent that once sent heartbeats and whose process died is eventually
\* reported Detached by the status thread.
DeadHeartbeatingAgentDetached ==
  \A p \in Pids :
    (proc[p] = "dead" /\ status[p] = ATTACHED /\ age[p] # None)
      ~> status[p] = DETACHED

\* Every agent whose process died is eventually reported Detached, also
\* one that TryAttachAppAgent recorded as Attached before any heartbeat.
DeadAgentDetached ==
  \A p \in Pids : (proc[p] = "dead" /\ status[p] = ATTACHED) ~> status[p] = DETACHED

=============================================================================
