------------------------- MODULE InternalCpuService -------------------------
(***************************************************************************)
(* The CPU trace start/stop protocol of the internal (agent-facing)        *)
(* service: InternalCpuServiceImpl::SendTraceEvent                         *)
(* (src/profiler/native/perfd/cpu/internal_cpu_service.cc) together with   *)
(* the parts of the CPU cache it calls (GetOngoingCapture,                 *)
(* AddProfilingStart, AddProfilingStop, AddTraceContent).                  *)
(*                                                                         *)
(* SendTraceEvent runs on a gRPC handler thread and holds no lock of its   *)
(* own: every cache call is atomic (the cache locks inside each call) but  *)
(* the handler's check and its update are two separate calls.  Each       *)
(* handler thread is therefore a small program counter whose steps are     *)
(* the cache calls.  A thread belongs to one app process (CallerPid): the  *)
(* agent inside that process issues the requests from its own threads.    *)
(*                                                                         *)
(* The cache itself is not under src/; its operations are modelled from    *)
(* the specification (section 4.4).  Studio-initiated captures, started    *)
(* and stopped through the public CPU service, are the environment that    *)
(* makes the initiation-type check of a stop request matter.               *)
(***************************************************************************)
EXTENDS Naturals, FiniteSets

CONSTANTS
  Pids,        \* app processes that send trace events
  Threads,     \* handler threads, each serving requests of one process
  CallerPid,   \* Threads -> Pids: the process a thread's requests come from
  MaxTraceId,  \* bound on the trace ids the cache allocates
  StudioCaptures, \* whether Studio starts and stops captures too
  None         \* no ongoing capture

ASSUME CallerPid \in [Threads -> Pids]
ASSUME MaxTraceId \in Nat \ {0}
ASSUME StudioCaptures \in BOOLEAN

\* TraceInitiationType of a ProfilingApp.
INITIATED_BY_API == "INITIATED_BY_API"
INITIATED_BY_UI  == "INITIATED_BY_UI"

VARIABLES
  ongoing,      \* cache: pid -> the ongoing ProfilingApp, or None
  nextTraceId,  \* cache: the next trace id AddProfilingStart hands out
  contents,     \* cache: keys <<pid, trace_id>> of stored trace contents
  pc,           \* handler thread -> where it is in SendTraceEvent
  reqId,        \* handler thread -> trace id carried by its stop request
  granted,      \* history: <<pid, trace_id>> answered start_operation_allowed
  stopped       \* history: every capture AddProfilingStop (or Studio) ended

cache   == <<ongoing, nextTraceId, contents>>
threads == <<pc, reqId>>
history == <<granted, stopped>>
vars    == <<cache, threads, history>>

\* Trace ids a stop request may carry: any the cache may have allocated,
\* and 0, the proto default of an agent that never got one.
RequestIds == 0 .. MaxTraceId

Capture == [trace_id : 1 .. MaxTraceId + Cardinality(Threads),
            initiation_type : {INITIATED_BY_API, INITIATED_BY_UI}]

TypeOK ==
  /\ ongoing \in [Pids -> Capture \cup {None}]
  /\ nextTraceId \in 1 .. MaxTraceId + Cardinality(Threads) + 1
  /\ contents \subseteq Pids \X RequestIds
  /\ pc \in [Threads -> {"idle", "start", "start_add", "stop",
                         "stop_stop", "stop_content"}]
  /\ reqId \in [Threads -> RequestIds]

Init ==
  /\ ongoing = [p \in Pids |-> None]
  /\ nextTraceId = 1
  /\ contents = {}
  /\ pc = [t \in Threads |-> "idle"]
  /\ reqId = [t \in Threads |-> 0]
  /\ granted = {}
  /\ stopped = {}

(***************************************************************************)
(* The CPU cache (spec section 4.4).  Each call is one atomic step.        *)
(***************************************************************************)

\* Mutant: an allocator that hands out the id before incrementing from 0,
\* so the first trace gets id 0, the value of an unset proto field.
AddProfilingStartPostIncrement(p, initiation) ==
  /\ ongoing' = [ongoing EXCEPT ![p] = [trace_id |-> nextTraceId - 1,
                                         initiation_type |-> initiation]]
  /\ nextTraceId' = nextTraceId + 1

\* AddProfilingStart(pid, capture): records the capture as the ongoing one
\* of pid with a freshly allocated trace id, and returns the id.
AddProfilingStart(p, initiation) ==
  /\ ongoing' = [ongoing EXCEPT ![p] = [trace_id |-> nextTraceId,
                                         initiation_type |-> initiation]]
  /\ nextTraceId' = nextTraceId + 1

\* AddProfilingStop(pid): ends the ongoing capture of pid, whichever it is
\* now, and clears the slot; a no-op when nothing is ongoing.
AddProfilingStop(p, by, id) ==
  IF ongoing[p] = None
    THEN UNCHANGED <<ongoing, stopped>>
    ELSE /\ stopped' = stopped \cup
                {[pid |-> p, trace_id |-> ongoing[p].trace_id,
                  initiation_type |-> ongoing[p].initiation_type,
                  by |-> by, request_id |-> id]}
         /\ ongoing' = [ongoing EXCEPT ![p] = None]

\* AddTraceContent(pid, trace_id, content): stores content under the key.
AddTraceContent(p, id) == contents' = contents \cup {<<p, id>>}

(***************************************************************************)
(* SendTraceEvent.                                                         *)
(***************************************************************************)

\* A request reaches a handler thread.  Start requests are offered only
\* while trace ids remain, which bounds the model.
ReceiveStart(t) ==
  /\ pc[t] = "idle"
  /\ nextTraceId <= MaxTraceId
  /\ pc' = [pc EXCEPT ![t] = "start"]
  /\ UNCHANGED <<cache, reqId, history>>

ReceiveStop(t) ==
  /\ pc[t] = "idle"
  /\ \E id \in RequestIds :
       /\ pc' = [pc EXCEPT ![t] = "stop"]
       /\ reqId' = [reqId EXCEPT ![t] = id]
  /\ UNCHANGED <<cache, history>>

\* Mutant: the start path without its ongoing-capture check.
StartCheckNoGuard(t) ==
  /\ pc[t] = "start"
  /\ pc' = [pc EXCEPT ![t] = "start_add"]
  /\ UNCHANGED <<cache, reqId, history>>

\* has_start(): GetOngoingCapture(pid); a capture in progress makes the
\* handler answer start_operation_allowed = false and return.
StartCheck(t) ==
  /\ pc[t] = "start"
  /\ pc' = [pc EXCEPT ![t] = IF ongoing[CallerPid[t]] # None
                                THEN "idle" ELSE "start_add"]
  /\ UNCHANGED <<cache, reqId, history>>

\* The handler builds an API-initiated ProfilingApp, registers it with
\* AddProfilingStart and answers allowed = true with the new trace id.
StartAdd(t) ==
  LET p == CallerPid[t] IN
  /\ pc[t] = "start_add"
  /\ AddProfilingStart(p, INITIATED_BY_API)
  /\ granted' = granted \cup {<<p, nextTraceId>>}
  /\ pc' = [pc EXCEPT ![t] = "idle"]
  /\ UNCHANGED <<contents, reqId, stopped>>

\* Mutant: a stop that forgets to compare the trace ids.
StopValidNoIdCheck(o, id) ==
  /\ o # None
  /\ o.initiation_type = INITIATED_BY_API

\* Mutant: a stop that forgets the initiation type.
StopValidNoInitiationCheck(o, id) ==
  /\ o # None
  /\ o.trace_id = id

\* The three checks of a stop request, in the code's order.
StopValid(o, id) ==
  /\ o # None
  /\ o.initiation_type = INITIATED_BY_API
  /\ o.trace_id = id

\* has_stop(): GetOngoingCapture(pid) and the checks on it.  A failed check
\* is only logged; the handler returns OK either way.
StopCheck(t) ==
  /\ pc[t] = "stop"
  /\ pc' = [pc EXCEPT ![t] = IF StopValid(ongoing[CallerPid[t]], reqId[t])
                                THEN "stop_stop" ELSE "idle"]
  /\ UNCHANGED <<cache, reqId, history>>

\* cache_.AddProfilingStop(pid) after a successful validation.
StopStop(t) ==
  /\ pc[t] = "stop_stop"
  /\ AddProfilingStop(CallerPid[t], "agent", reqId[t])
  /\ pc' = [pc EXCEPT ![t] = "stop_content"]
  /\ UNCHANGED <<nextTraceId, contents, reqId, granted>>

\* cache_.AddTraceContent(pid, request trace_id, content).
StopContent(t) ==
  /\ pc[t] = "stop_content"
  /\ AddTraceContent(CallerPid[t], reqId[t])
  /\ pc' = [pc EXCEPT ![t] = "idle"]
  /\ UNCHANGED <<ongoing, nextTraceId, reqId, history>>

(***************************************************************************)
(* Studio-initiated captures (public CPU service; not under src/).         *)
(***************************************************************************)

StudioStart(p) ==
  /\ StudioCaptures
  /\ ongoing[p] = None
  /\ nextTraceId <= MaxTraceId
  /\ AddProfilingStart(p, INITIATED_BY_UI)
  /\ UNCHANGED <<contents, threads, history>>

StudioStop(p) ==
  /\ ongoing[p] # None
  /\ ongoing[p].initiation_type = INITIATED_BY_UI
  /\ AddProfilingStop(p, "studio", 0)
  /\ UNCHANGED <<nextTraceId, contents, threads, granted>>

Next ==
  \/ \E t \in Threads :
       \/ ReceiveStart(t) \/ StartCheck(t) \/ StartAdd(t)
       \/ ReceiveStop(t) \/ StopCheck(t) \/ StopStop(t) \/ StopContent(t)
  \/ \E p \in Pids : StudioStart(p) \/ StudioStop(p)

Spec == Init /\ [][Next]_vars

(***************************************************************************)
(* Properties.                                                             *)
(***************************************************************************)

\* Invariant I2 as the agent sees it: a trace the handler answered with
\* start_operation_allowed = true stays the ongoing capture of its process
\* until a stop ends it.  A capture silently replaced by a second start
\* can never be stopped (its id no longer matches) and its content is lost.
GrantedCaptureNotLost ==
  \A g \in granted :
    \/ ongoing[g[1]] # None /\ ongoing[g[1]].trace_id = g[2]
    \/ \E s \in stopped : <<s.pid, s.trace_id>> = g

\* A stop request from the agent ends only the capture it names: an
\* API-initiated capture whose trace id equals the request's, so a stale
\* or mistaken Debug.stopMethodTracing() never ends a Studio trace or a
\* newer API trace, and the content is filed under the ended capture.
StopEndsOwnCapture ==
  \A s \in stopped :
    s.by = "agent" =>
      /\ s.initiation_type = INITIATED_BY_API
      /\ s.trace_id = s.request_id

\* The contents filed so far, counting a stop whose AddTraceContent call
\* is still to come: the abstract machine files content with the stop.
StoredContents ==
  contents \cup {<<CallerPid[t], reqId[t]>> : t \in {u \in Threads : pc[u] = "stop_content"}}

Abstract == INSTANCE CpuCapture WITH recording <- ongoing, stored <- StoredContents

\* The handler implements the atomic capture state machine of section 4.4:
\* every step of SendTraceEvent and of Studio is a step of CpuCapture or
\* leaves its state alone.  A start that replaces a capture, or a stop
\* that files content under another id than the capture it ended, is not.
CaptureRefinement == Abstract!Spec

=============================================================================
