------------------------------- MODULE Daemon -------------------------------
(***************************************************************************)
(* Command dispatch, sessions and their samplers in perfd.                 *)
(*                                                                         *)
(*  - Daemon::Execute (perfd/daemon.h) runs each command under the single  *)
(*    daemon mutex; the legacy overload also runs a callback, `post`,      *)
(*    before the mutex is released.                                        *)
(*  - BeginSession (perfd/commands/begin_session.h) asks the sessions      *)
(*    manager for a new session; Session (perfd/sessions/session.cc)       *)
(*    creates one sampler per kind when the unified pipeline is on and     *)
(*    starts them; Session::End stops them one by one, each Stop blocking  *)
(*    until its sampler thread is quiescent, then sets end_timestamp.      *)
(*  - Each sampler runs on its own timer thread: one Sample()              *)
(*    (perfd/samplers/cpu_usage_sampler.cc) builds an event carrying the   *)
(*    session id and appends it to the event buffer, which has its own     *)
(*    lock and never takes the daemon mutex.                               *)
(*                                                                         *)
(* The sessions manager, the sampler timer and the event buffer are not    *)
(* under src/ and follow the specification (sections 4.1 to 4.3, 4.6).     *)
(* A session's id is its position in the manager's list.                   *)
(***************************************************************************)
EXTENDS Naturals, Sequences, FiniteSets

CONSTANTS
  Pids,            \* monitored processes
  RpcThreads,      \* threads calling Daemon::Execute
  SamplerKinds,    \* sequence: the samplers_ a Session creates, in order
  UnifiedPipeline, \* agent config unified_pipeline()
  MaxSessions,     \* bound on the sessions begun
  MaxEvents,       \* bound on the events in the buffer
  LegacyCallers,   \* whether BeginSession also comes through Execute(command, post)
  ReadFailures,    \* whether a sampler's read of the process can fail
  None

ASSUME UnifiedPipeline \in BOOLEAN /\ LegacyCallers \in BOOLEAN /\ ReadFailures \in BOOLEAN
ASSUME MaxSessions \in Nat \ {0} /\ MaxEvents \in Nat

SessionIds  == 1 .. MaxSessions
LegacyCalls == IF LegacyCallers THEN BOOLEAN ELSE {FALSE}
Kinds      == 1 .. Len(SamplerKinds)
\* Outcomes of SampleAProcess: whether the read of /proc succeeded.
ReadOutcomes == IF ReadFailures THEN BOOLEAN ELSE {TRUE}

VARIABLES
  mutex,      \* Daemon::mutex_: the thread holding it, or None
  pc,         \* RPC thread -> where it is in Execute
  cmd,        \* RPC thread -> the command it executes
  stopIdx,    \* RPC thread -> the sampler StopSamplers stops next
  produced,   \* RPC thread -> the pid's active session when ExecuteOn ended
  reply,      \* RPC thread -> the session its post callback read
  sessions,   \* SessionsManager: sequence of [pid, end_timestamp set?]
  timer,      \* session -> sampler -> "none" | "running" | "stopped"
  inflight,   \* session -> sampler -> TRUE while a Sample() is under way
  buffer,     \* EventBuffer: sequence of <<session_id, sampler, read ok>> events
  endPos,     \* history: Len(buffer) when a session's end_timestamp was set
  endOk       \* history: session -> times Session::End returned true

cmdVars     == <<pc, cmd, stopIdx, produced, reply>>
samplerVars == <<timer, inflight>>
vars == <<mutex, cmdVars, sessions, samplerVars, buffer, endPos, endOk>>

Commands ==
  [type : {"BEGIN_SESSION"}, pid : Pids, legacy : LegacyCalls]
    \cup [type : {"END_SESSION"}, session_id : 0 .. MaxSessions]

TypeOK ==
  /\ mutex \in RpcThreads \cup {None}
  /\ pc \in [RpcThreads -> {"idle", "execute", "stopping", "post"}]
  /\ cmd \in [RpcThreads -> Commands \cup {None}]
  /\ stopIdx \in [RpcThreads -> 1 .. Len(SamplerKinds) + 1]
  /\ produced \in [RpcThreads -> 0 .. MaxSessions]
  /\ reply \in [RpcThreads -> 0 .. MaxSessions]
  /\ sessions \in Seq([pid : Pids, active : BOOLEAN])
  /\ Len(sessions) <= MaxSessions
  /\ timer \in [SessionIds -> [Kinds -> {"none", "running", "stopped"}]]
  /\ inflight \in [SessionIds -> [Kinds -> BOOLEAN]]
  /\ buffer \in Seq(SessionIds \X Kinds \X BOOLEAN)
  /\ endPos \in [SessionIds -> 0 .. MaxEvents]
  /\ endOk \in [SessionIds -> Nat]

Init ==
  /\ mutex = None
  /\ pc = [t \in RpcThreads |-> "idle"]
  /\ cmd = [t \in RpcThreads |-> None]
  /\ stopIdx = [t \in RpcThreads |-> 1]
  /\ produced = [t \in RpcThreads |-> 0]
  /\ reply = [t \in RpcThreads |-> 0]
  /\ sessions = <<>>
  /\ timer = [s \in SessionIds |-> [k \in Kinds |-> "none"]]
  /\ inflight = [s \in SessionIds |-> [k \in Kinds |-> FALSE]]
  /\ buffer = <<>>
  /\ endPos = [s \in SessionIds |-> 0]
  /\ endOk = [s \in SessionIds |-> 0]

\* Session::IsActive: end_timestamp is still LLONG_MAX.
IsActive(s) == sessions[s].active

\* The active session of a process, or 0.
ActiveSessionOf(p) ==
  IF \E s \in DOMAIN sessions : sessions[s].pid = p /\ IsActive(s)
    THEN CHOOSE s \in DOMAIN sessions : sessions[s].pid = p /\ IsActive(s)
    ELSE 0

\* Sessions that may still be begun within MaxSessions, counting the
\* BeginSession commands already under way.
SessionsBudget ==
  MaxSessions - Len(sessions)
    - Cardinality({t \in RpcThreads : pc[t] = "execute" /\ cmd[t].type = "BEGIN_SESSION"})

Unlock(t) == mutex' = IF mutex = t THEN None ELSE mutex

(***************************************************************************)
(* Daemon::Execute.                                                        *)
(***************************************************************************)

\* A command arrives and Execute locks mutex_, then creates the command
\* through the factory registered for its type.  Begin commands are
\* offered while the bound on sessions allows one more.
Execute(t) ==
  /\ pc[t] = "idle"
  /\ mutex = None
  /\ \E c \in Commands :
       /\ c.type = "BEGIN_SESSION" => SessionsBudget > 0
       /\ cmd' = [cmd EXCEPT ![t] = c]
  /\ mutex' = t
  /\ pc' = [pc EXCEPT ![t] = "execute"]
  /\ reply' = [reply EXCEPT ![t] = 0]
  /\ UNCHANGED <<stopIdx, produced, sessions, samplerVars, buffer,
                 endPos, endOk>>

\* The legacy overload: post() runs before the lock_guard releases mutex_.
\* The legacy BeginSession call site reads the process's session in it.
Post(t) ==
  /\ pc[t] = "post"
  /\ reply' = [reply EXCEPT ![t] = ActiveSessionOf(cmd[t].pid)]
  /\ Unlock(t)
  /\ pc' = [pc EXCEPT ![t] = "idle"]
  /\ UNCHANGED <<cmd, stopIdx, produced, sessions, samplerVars, buffer,
                 endPos, endOk>>

\* Mutant: the legacy overload releasing mutex_ before it calls post().
FinishUnlockedPost(t) ==
  IF cmd[t].type = "BEGIN_SESSION" /\ cmd[t].legacy
    THEN /\ pc' = [pc EXCEPT ![t] = "post"]
         /\ Unlock(t)
    ELSE /\ pc' = [pc EXCEPT ![t] = "idle"]
         /\ Unlock(t)

\* Where a command goes once ExecuteOn has returned: to its post callback
\* with the lock still held, or out of Execute, releasing the lock.
Finish(t) ==
  IF cmd[t].type = "BEGIN_SESSION" /\ cmd[t].legacy
    THEN /\ pc' = [pc EXCEPT ![t] = "post"]
         /\ UNCHANGED mutex
    ELSE /\ pc' = [pc EXCEPT ![t] = "idle"]
         /\ Unlock(t)

(***************************************************************************)
(* BeginSession and the Session constructor.                               *)
(***************************************************************************)

\* Session::Session: the samplers_ vector, filled only when the agent
\* config has unified_pipeline(); StartSamplers starts each one's timer.
NewSamplers == [k \in Kinds |-> IF UnifiedPipeline THEN "running" ELSE "none"]

\* BeginSession::ExecuteOn -> SessionsManager::BeginSession: refused while
\* the process has an active session (I1); otherwise a Session is built,
\* its samplers are started and it is registered.
BeginSession(t) ==
  LET p == cmd[t].pid
      s == Len(sessions) + 1
  IN
  /\ pc[t] = "execute"
  /\ cmd[t].type = "BEGIN_SESSION"
  /\ IF ActiveSessionOf(p) # 0
       THEN /\ produced' = [produced EXCEPT ![t] = ActiveSessionOf(p)]
            /\ UNCHANGED <<sessions, timer>>
       ELSE /\ sessions' = Append(sessions, [pid |-> p, active |-> TRUE])
            /\ timer' = [timer EXCEPT ![s] = NewSamplers]
            /\ produced' = [produced EXCEPT ![t] = s]
  /\ Finish(t)
  /\ UNCHANGED <<cmd, stopIdx, reply, inflight, buffer, endPos, endOk>>

(***************************************************************************)
(* EndSession: Session::End, StopSamplers and Sampler::Stop.               *)
(***************************************************************************)

\* Mutant: End that checks only that the session exists, not that its
\* end_timestamp is still unset.
EndSessionSkipActiveCheck(t) ==
  LET s == cmd[t].session_id IN
  /\ pc[t] = "execute"
  /\ cmd[t].type = "END_SESSION"
  /\ IF s \in DOMAIN sessions
       THEN /\ pc' = [pc EXCEPT ![t] = "stopping"]
            /\ stopIdx' = [stopIdx EXCEPT ![t] = 1]
            /\ UNCHANGED mutex
       ELSE /\ pc' = [pc EXCEPT ![t] = "idle"]
            /\ Unlock(t)
            /\ UNCHANGED stopIdx
  /\ UNCHANGED <<cmd, produced, reply, sessions, samplerVars, buffer,
                 endPos, endOk>>

\* Session::End, first line: an unknown or already ended session makes
\* End return false; otherwise StopSamplers begins with the first sampler.
EndSession(t) ==
  LET s == cmd[t].session_id IN
  /\ pc[t] = "execute"
  /\ cmd[t].type = "END_SESSION"
  /\ IF s \in DOMAIN sessions /\ IsActive(s)
       THEN /\ pc' = [pc EXCEPT ![t] = "stopping"]
            /\ stopIdx' = [stopIdx EXCEPT ![t] = 1]
            /\ UNCHANGED mutex
       ELSE /\ pc' = [pc EXCEPT ![t] = "idle"]
            /\ Unlock(t)
            /\ UNCHANGED stopIdx
  /\ UNCHANGED <<cmd, produced, reply, sessions, samplerVars, buffer,
                 endPos, endOk>>

\* Mutant: a Stop that cancels the timer without joining the sample that
\* is under way.
StopSamplerNoJoin(t) ==
  LET s == cmd[t].session_id
      k == stopIdx[t]
  IN
  /\ pc[t] = "stopping"
  /\ k <= Len(SamplerKinds)
  /\ timer' = [timer EXCEPT ![s][k] = IF @ = "none" THEN "none" ELSE "stopped"]
  /\ stopIdx' = [stopIdx EXCEPT ![t] = k + 1]
  /\ UNCHANGED <<mutex, pc, cmd, produced, reply, sessions, inflight,
                 buffer, endPos, endOk>>

\* sampler->Stop() for the next sampler of the session: no further ticks,
\* and it returns only once no Sample() of that sampler is under way.
StopSampler(t) ==
  LET s == cmd[t].session_id
      k == stopIdx[t]
  IN
  /\ pc[t] = "stopping"
  /\ k <= Len(SamplerKinds)
  /\ ~inflight[s][k]
  /\ timer' = [timer EXCEPT ![s][k] = IF @ = "none" THEN "none" ELSE "stopped"]
  /\ stopIdx' = [stopIdx EXCEPT ![t] = k + 1]
  /\ UNCHANGED <<mutex, pc, cmd, produced, reply, sessions, inflight,
                 buffer, endPos, endOk>>

\* Session::End after StopSamplers: set end_timestamp and return true.
EndTimestamp(t) ==
  LET s == cmd[t].session_id IN
  /\ pc[t] = "stopping"
  /\ stopIdx[t] = Len(SamplerKinds) + 1
  /\ sessions' = [sessions EXCEPT ![s].active = FALSE]
  /\ endPos' = [endPos EXCEPT ![s] = Len(buffer)]
  /\ endOk' = [endOk EXCEPT ![s] = @ + 1]
  /\ Finish(t)
  /\ UNCHANGED <<cmd, stopIdx, produced, reply, samplerVars, buffer>>

(***************************************************************************)
(* Sampler threads.                                                        *)
(***************************************************************************)

\* The timer of a running sampler fires: Sample() reads the session id and
\* samples the process.  The bound on events stops new samples.
Tick(s, k) ==
  /\ timer[s][k] = "running"
  /\ ~inflight[s][k]
  /\ Len(buffer) + Cardinality({<<s2, k2>> \in SessionIds \X Kinds :
                                  inflight[s2][k2]}) < MaxEvents
  /\ inflight' = [inflight EXCEPT ![s][k] = TRUE]
  /\ UNCHANGED <<mutex, cmdVars, sessions, timer, buffer, endPos, endOk>>

\* Mutant: a Sample() that needs the daemon mutex, as a sampler calling a
\* Daemon method guarded by mutex_ would.
SampleUnderDaemonLock(s, k) ==
  /\ inflight[s][k]
  /\ mutex = None
  /\ \E ok \in ReadOutcomes : buffer' = Append(buffer, <<s, k, ok>>)
  /\ inflight' = [inflight EXCEPT ![s][k] = FALSE]
  /\ UNCHANGED <<mutex, cmdVars, sessions, timer, endPos, endOk>>

\* CpuUsageDataSampler::Sample: SampleAProcess fills the usage, and its
\* outcome is not looked at: buffer()->Add(event) follows either way.
Sample(s, k) ==
  /\ inflight[s][k]
  /\ \E ok \in ReadOutcomes : buffer' = Append(buffer, <<s, k, ok>>)
  /\ inflight' = [inflight EXCEPT ![s][k] = FALSE]
  /\ UNCHANGED <<mutex, cmdVars, sessions, timer, endPos, endOk>>

Next ==
  \/ \E t \in RpcThreads :
       \/ Execute(t) \/ BeginSession(t) \/ Post(t)
       \/ EndSession(t) \/ StopSampler(t) \/ EndTimestamp(t)
  \/ \E s \in SessionIds, k \in Kinds : Tick(s, k) \/ Sample(s, k)

Spec == Init /\ [][Next]_vars

\* The thread holding mutex_ keeps running ExecuteOn (it blocks only in a
\* sampler's Stop), and a sampler thread that began a Sample() finishes it:
\* spec 4.2 says Sample never blocks indefinitely.  Requests and timer
\* ticks are not obliged to happen.
Fairness ==
  /\ \A t \in RpcThreads :
       WF_vars(BeginSession(t) \/ EndSession(t) \/ StopSampler(t)
                 \/ EndTimestamp(t) \/ Post(t))
  /\ \A s \in SessionIds, k \in Kinds : WF_vars(Sample(s, k))

FairSpec == Spec /\ Fairness

(***************************************************************************)
(* Properties.                                                             *)
(***************************************************************************)

\* Once Session::End has set a session's end_timestamp, no event of that
\* session reaches the buffer: StopSamplers waited for every in-flight
\* Sample() of the session, so the session's stream is closed at its end.
NoEventAfterEnd ==
  \A i \in DOMAIN buffer :
    LET s == buffer[i][1] IN
      s \in DOMAIN sessions /\ ~IsActive(s) => i <= endPos[s]

\* EndSession ends a session once: any later EndSession of the same id,
\* even one racing the first, finds it inactive and returns false.
EndReturnsTrueOnce ==
  \A s \in SessionIds : endOk[s] <= 1

\* The legacy BeginSession's post callback sees the session the command
\* left active for the process, not one a later command produced.
PostSeesOwnSession ==
  \A t \in RpcThreads :
    pc[t] = "idle" /\ cmd[t] # None /\ cmd[t].type = "BEGIN_SESSION"
      /\ cmd[t].legacy => reply[t] = produced[t]

\* Spec 4.2: a failed read of the process degrades to "no event this
\* tick": every event a Sample() appends carries a successful read.
NoEventFromFailedRead ==
  \A i \in DOMAIN buffer : buffer[i][3]

\* Every Execute returns: EndSession holds mutex_ while each Stop waits for
\* the sampler's in-flight Sample(), so this holds only if no Sample()
\* ever waits for mutex_ itself.  It returns having released mutex_, so
\* the next command can run.
ExecuteReturns ==
  \A t \in RpcThreads : pc[t] # "idle" ~> (pc[t] = "idle" /\ mutex # t)

=============================================================================
