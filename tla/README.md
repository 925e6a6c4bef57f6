# TLA+ models of the perfd profiling daemon

This directory holds TLA+ models of the on-device profiling daemon (perfd) under
`src/profiler/native/perfd/`, and of the deploy installer workspace under
`src/deploy/installer/`. TLC checks each model. `PROJECT.json` lists the
components, the runs, the mutants, the map from definitions to source lines,
the findings and the hazards.

## 1. Inventory

### Components and their state

| Component | Source | State | Operations |
|---|---|---|---|
| CPU trace capture protocol | `perfd/cpu/internal_cpu_service.cc`, `perfd/cpu/profiling_app.h` | none of its own; it works on the CPU cache | `SendTraceEvent` with a `start` or a `stop` request |
| CPU cache (not under src/) | spec 4.4 | per pid: the ongoing `ProfilingApp` (trace id, initiation type, end = -1); the trace-id allocator; trace contents keyed by (pid, trace id) | `GetOngoingCapture`, `AddProfilingStart`, `AddProfilingStop`, `AddTraceContent` (each one locks internally) |
| Command dispatch | `perfd/daemon.h`, `perfd/commands/begin_session.h` | `mutex_`; the factory map `commands_` | `Execute(command)` and `Execute(command, post)` |
| Session | `perfd/sessions/session.cc` | `info_` (id, device, pid, start, `end_timestamp` = LLONG_MAX while active); `samplers_` | constructor, `IsActive`, `StartSamplers`, `StopSamplers`, `End` |
| SessionsManager (not under src/) | spec 4.3 | the list of sessions | `BeginSession` (refused while the pid has an active session), `EndSession`, lookup |
| Samplers | `perfd/samplers/cpu_usage_sampler.cc`, spec 4.2 | a timer thread per sampler | `Start`, `Stop` (blocks until the sampler is quiescent), `Sample` (append one event) |
| EventBuffer (not under src/) | `perfd/daemon.h` 94-101, spec 4.1 | events in append order; the reader's position; the interrupt flag | `Add` (modelled in Daemon), `WriteEventsTo`, `InterruptWriteEvents` (not modelled) |
| Agent heartbeat and status | `perfd/daemon.h` 103-127 and 158-166, `perfd/generic_component.h` | `heartbeat_timestamp_map_`, `agent_status_map_`, `agent_attachable_map_`; the status callbacks | `SetHeartBeatTimestamp`, `RunAgentStatusThread`, `TryAttachAppAgent`, `GetAgentStatus` |
| Server wiring | `perfd/daemon.h`, `perfd/generic_component.h` | components, gRPC builder | `RegisterComponent`, `RunServer`, `GetEventGroups` |
| Installer workspace | `deploy/installer/workspace.cc` | base directory (tmp_ not modelled); the fd table; the output pipe | constructor (`mkdir`, closing fds 1 and 2, opening `/dev/null` twice), `RetrieveBase`, `SendResponse` |

### How the components interact

- Desktop RPCs reach `Daemon::Execute`. Execute takes `mutex_`, builds the
  command through its factory and calls `ExecuteOn`. `BeginSession` goes
  through the SessionsManager to `Session`, whose constructor creates the
  samplers and whose `StartSamplers` starts their timers. Ending a session
  calls `Session::End`, which stops every sampler and then sets
  `end_timestamp`. The whole of `End` runs inside the critical section.
- Sampler timer threads call `Sample()`. It reads the session id and the
  process counters, then calls `buffer()->Add(event)`. Samplers never take
  the daemon mutex; the buffer has its own lock.
- The agent inside an app calls `SendTraceEvent` on the internal service.
  The handler runs on a gRPC thread and does **not** go through `Execute`. Each
  cache call is atomic, but the handler's check and its update are separate
  calls. Studio can start and stop captures of the same process through the
  public CPU service.
- Heartbeats from the agent update the heartbeat map. A status thread
  scans that map and invokes the status-changed callbacks. It takes no
  lock: `Daemon::mutex_` is private and guards command executions only, and
  the maps are reached through the unlocked references of `daemon.h`
  120-127.

### What is hard

- **Check-then-act across cache calls** in `SendTraceEvent`, for both start
  and stop, against other handler threads and against Studio.
- **Stopping samplers under the daemon mutex** while their threads are in the
  middle of a sample. `Stop` must wait for an in-flight `Sample()`; if it does
  not, an event of the ended session lands in the buffer after the end. If a
  sample ever needed the mutex, `End` would deadlock.
- **Atomicity of Execute**: two `END_SESSION` commands for one session, and the
  legacy `post` callback that must see the result of its own command.
- **Unlocked shared maps** for heartbeats and agent status: the status
  thread's staleness check and its Detached write race heartbeats.
- **Blocking stream and interrupt** on the event buffer.
- **Path and descriptor edge cases** in the installer: the `dirname` loop
  of `RetrieveBase` on relative paths, and lowest-free fd allocation when the
  process is launched with a standard fd closed.

### What makes each component correct

- CPU trace capture: a granted trace stays ongoing until it is stopped (I2). An
  agent stop ends only the API-initiated capture whose trace id it carries, and
  files the content under that id. Together these mean the handler implements
  the atomic Idle/Recording machine of spec 4.4.
- Sessions and samplers: no event of a session is appended after its end.
  `End` succeeds once per session. At most one session per pid is active (I1).
- Command dispatch: commands are mutually exclusive (I4). `post` sees the state
  its own command produced.
- Agent status: a pid whose heartbeat is older than 500 ms becomes Detached.
  A pid whose agent has just sent a heartbeat is not Detached.
- Workspace: `RetrieveBase` terminates and returns the nearest `.studio`
  ancestor. Responses reach the saved stdout, and fds 1 and 2 point at
  `/dev/null`.

## 2. Plan

In order of importance:

1. **InternalCpuService** and its abstract spec **CpuCapture**: done (section 3).
2. **Daemon**: Execute with its mutex and `post`, BeginSession and EndSession,
   Session and its samplers, and appends to the buffer. Done (section 3).
   It includes a liveness property: every Execute returns under weak fairness
   of sampler threads.
3. **AgentStatus**: done (section 3), with liveness to Detached.
4. **Workspace**: done (section 3): RetrieveBase as a RECURSIVE operator
   against a reference definition, the fd table of the constructor.
5. **EventBuffer** reader: not modelled (section 5). daemon.h 96-101 only
   forwards to code that is not under src/.
6. **SessionId**: `device_id ^ (start_timestamp << 1)`; see section 5.

## 3. Modules and runs

### InternalCpuService (CPU trace protocol)

State:
- `ongoing`, `nextTraceId` and `contents` model the cache.
- `pc` and `reqId` model each handler thread.
- `granted` and `stopped` are history variables: traces answered
  `allowed = true`, and captures ended.

`CallerPid` maps each handler thread to the app process whose requests it
serves.

Actions follow the handler's cache calls, in order:
- `ReceiveStart` or `ReceiveStop`: the request arrives.
- `StartCheck` (line 38): `GetOngoingCapture`, then the early return with
  allowed = false.
- `StartAdd` (lines 45-61): `AddProfilingStart` and the allowed = true answer.
- `StopCheck` and `StopValid` (lines 63-74): the three checks in the code's
  order. A failure is only logged.
- `StopStop` (line 75): `AddProfilingStop`.
- `StopContent` (line 76): `AddTraceContent`.
- `StudioStart` and `StudioStop`: the environment (switch `StudioCaptures`).

`CpuCapture` is the atomic per-pid Idle/Recording machine. `CaptureRefinement`
instantiates it with `recording <- ongoing` and `stored <- contents`, where
`stored` also counts a stop whose `AddTraceContent` call is still to come.

| Run | Bounds | Result |
|---|---|---|
| `cpu_trace_serial` | 2 pids, one thread each, trace ids up to 3, Studio on | pass: TypeOK, GrantedCaptureNotLost, StopEndsOwnCapture |
| `cpu_trace_refinement` | as above, Studio off | pass: CaptureRefinement |
| `cpu_start_race` | two threads of one app | **violation** of GrantedCaptureNotLost |
| `cpu_stop_race` | two threads of one app | **violation** of StopEndsOwnCapture |

With one handler thread per app process, the protocol is correct: starts are
rejected while a capture is ongoing, and a stop with a stale id or aimed at a
Studio trace changes nothing. With two agent threads in one app, or with
Studio starting a capture at the same time, the check and the update are no
longer atomic. Then:

- A second start is granted, and the first trace is lost (7 states).
- A validated stop ends a capture that replaced the one it checked.
- An agent start overwrites a Studio trace. This has the same cause as the
  first case. The project has no run for it: set `StudioCaptures = TRUE` in
  `MCInternalCpuService_refine.cfg` and TLC reports CaptureRefinement
  violated.

See "findings" in PROJECT.json. Three trace ids are enough for a capture to
be granted, replaced and stopped. Stop requests carry any id in 0..3: 0 is
what an agent that never got an id sends.

### Daemon (command dispatch, sessions, samplers)

State:
- `mutex`: `Daemon::mutex_`.
- Per RPC thread: `pc`, `cmd` and `stopIdx` (the StopSamplers loop index).
- `produced` and `reply`: the pid's session after ExecuteOn, and the session
  `post` read.
- `sessions`: the manager's list. A session's id is its index.
- `timer` and `inflight`: the state of each sampler thread.
- `buffer`: a sequence of `<<session, sampler>>` events.
- History variables: `endPos` (the buffer length when `end_timestamp` was
  set) and `endOk` (how many times End returned true).

Actions:
- `Execute`: lock, then build the command.
- `BeginSession`: the manager's check, the Session constructor with its
  samplers (when `unified_pipeline`), `StartSamplers`, and registration. This
  is one step because all of it runs under the mutex.
- `EndSession`: IsActive, or return false.
- `StopSampler`: one `Stop()` per sampler, in the order of `samplers_`. It is
  enabled only when no Sample of that sampler is in flight, which is how the
  blocking join is modelled.
- `EndTimestamp`: set `end_timestamp`.
- `Post`: the legacy callback, then unlock.
- `Tick` and `Sample`: the sampler thread reads the session id. It then
  reads the process (`SampleAProcess`, which fails when the constant
  ReadFailures allows it) and `Add`s the event whatever the outcome.

| Run | Bounds | Result |
|---|---|---|
| `daemon_sessions` | 2 RPC threads, 2 pids, 2 samplers per session, 2 sessions, 3 events, legacy BeginSession callers; FairSpec; reads succeed | pass: NoEventAfterEnd, EndReturnsTrueOnce, PostSeesOwnSession, ExecuteReturns |
| `daemon_failed_read` | as above, reads may fail; Spec | violation: NoEventFromFailedRead |

`daemon_sessions` turns deadlock checking off because ExecuteReturns
covers it. ExecuteReturns says that every Execute returns and releases
`mutex_`. An idle thread can always Execute an END_SESSION while `mutex_`
is free. So a state with no successor has either an Execute that never
returns or a `mutex_` that is never released, and ExecuteReturns reports
both.

The violation: spec 4.2 says a failed read of the process degrades to "no
event this tick". `CpuUsageDataSampler::Sample` (`cpu_usage_sampler.cc`
lines 33-34) ignores what `SampleAProcess` reports and appends the event on
the next line. TLC finds it in four steps: Execute takes a BeginSession, the
session begins, its sampler ticks, and the sample appends an event whose
read failed. This is a divergence
between spec and code (see "findings").

I1 (one active session per pid) is not checked as a separate property. The
manager's check and the registration are one step under the mutex, so I1
would only restate that guard.

Two RPC threads and two sessions are enough for the interesting cases:
- two ENDs of one session can race;
- a BeginSession can slip in between a legacy Begin and its post;
- a sampler can be mid-sample when End stops it.

Three events let a sampler of each session sample while End runs.

### AgentStatus (heartbeats, agent status, the status thread)

The bodies are in `daemon.cc` and `generic_component.cc`, which are not
under src/. They follow the header comments (`daemon.h` 109-136) and spec
4.5. A heartbeat, an attach and a status query are RPCs, each one atomic
step. The status thread is not an RPC and takes no lock (`daemon.h`
120-127 and 138-139), so its check of a pid and its write of Detached are
two steps, and heartbeats interleave between them.

State:
- `age`: `heartbeat_timestamp_map_`, as ticks since the stored timestamp.
  The age stops growing at `Threshold + 1`, since "now - last_seen >
  kHeartbeatThresholdNs" only asks whether it exceeds `Threshold`.
- `status`: `agent_status_map_`. `None` means the pid has no entry, which
  `GetAgentStatus` reports as UNSPECIFIED.
- `proc`: the environment. Each process runs without an agent, runs with
  one, or is dead.
- `todo` and `scan`: the status thread's current pass, the pids of the
  heartbeat map it has not visited yet, and the pid it found stale and is
  about to detach.

Actions:
- `Heartbeat` / `SetHeartBeatTimestamp`: stores the timestamp. A pid that
  was Detached or unknown becomes Attached.
- `ScanStart`: the status thread starts a pass over the heartbeat map.
- `ScanVisit(p)`: the pass visits a pid. A stale pid that is Attached is
  picked; any other is passed over.
- `ScanDetach`: the picked pid is written Detached, whatever happened since.
- `TryAttachAppAgent`: returns at once if an agent is attached. Otherwise
  the attach primitive succeeds or fails (it can only succeed on a live
  process), and the result is recorded as the status.
- `Tick` (the clock) and `Die` (a process exits).

The status-changed callbacks are not modelled. They fire on each status
transition, so "one call per transition" follows from the status write.

| Run | Bounds | Result |
|---|---|---|
| `agent_status` | 2 pids, threshold 2 ticks | pass: TypeOK, DeadHeartbeatingAgentDetached |
| `agent_attach_no_heartbeat` | as above | **violation** of DeadAgentDetached |
| `agent_stale_detach` | as above | **violation** of DetachedOnlyWhenSilent |

Two pids let one process heartbeat while the status thread visits the
other. A threshold of 2 ticks separates three cases: a fresh heartbeat, an
age still within the threshold, and a stale one.

The violations:
- TryAttachAppAgent records Attached for a pid that has no heartbeat entry
  yet. If its process dies before the first heartbeat, the status thread
  never visits it, and it stays Attached forever. This is a gap in spec 4.5
  (see "findings").
- The status thread finds a pid stale. The agent's heartbeat then arrives
  and re-attaches it. The thread's pending write leaves the pid Detached
  while its heartbeat is fresh, until the next heartbeat. Spec 5 says the
  maps are mutated only under the daemon mutex; the code does not do that
  (see "findings").

### Workspace (installer bootstrap)

The model covers `deploy/installer/workspace.cc`:
- A path is a record: whether it is absolute, and its components.
- `Dirname` and `Basename` do what glibc does: "/x" gives "/", while "x",
  "." and "" give ".".
- `BaseLoop` is the RetrieveBase loop, written as a RECURSIVE operator. The
  loop is deterministic, so a cursor that `dirname` leaves unchanged, and
  that is not "/", repeats forever; the operator returns `Hang` for it.
- `NearestStudioAncestor` is the reference definition taken from the
  comment at lines 46-47.
- `Construct` applies the constructor's descriptor calls, in the code's
  order, to a table of fds 0..4. `open` and `dup` take the lowest free
  number.
- `SendResponse` writes to whatever file `output_pipe_`'s number refers to.

| Run | Bounds | Result |
|---|---|---|
| `workspace` | absolute paths of 1-4 components over {.studio, bin, data}; fds 0-2 open at launch | pass: BaseIsNearestStudioFolder, ResponseReachesStdout, WorkspaceConstructed |
| `workspace_relative_path` | also relative paths | **violation** of WorkspaceConstructed |
| `workspace_stderr_closed` | launched with fd 0 or fd 2 closed | **violation** of ResponseReachesStdout |

The path bounds cover these cases:
- `.studio` as the last component, which is not a base;
- `.studio` at several depths, where the nearest one wins;
- `.studio` just below the root;
- no `.studio` at all.

The two violations are code bugs:
- A relative path with no `.studio` ancestor makes the loop spin on ".".
- When fd 2 is closed at launch, `dup(1)` returns 2 and `close(STDERR)`
  closes the response pipe. The response then goes to /dev/null.

Launching with fd 0 closed is harmless: the dup gets 0.

The constructor goes on with base "/" when no `.studio` folder exists. This
is recorded as a hazard, not a run. BaseIsNearestStudioFolder pins down that
"/" is what it gets.

### Mutants

Every property of a passing run is broken by a plausible bug in the code it
talks about (PROJECT.json "mutants"):

| Mutant | Breaks |
|---|---|
| the start check dropped | GrantedCaptureNotLost |
| the initiation-type check dropped | StopEndsOwnCapture |
| the trace-id check dropped | CaptureRefinement |
| trace ids post-incremented from 0 | TypeOK |
| Stop that does not join an in-flight Sample | NoEventAfterEnd |
| End that checks only that the session exists, not IsActive | EndReturnsTrueOnce |
| `post` run after the lock is released | PostSeesOwnSession |
| a Sample that takes the daemon mutex | ExecuteReturns |
| a failed attach stored as UNSPECIFIED | TypeOK (AgentStatus) |
| `now` and `last_seen` swapped in the staleness test | DeadHeartbeatingAgentDetached |
| the loop tests the basename before moving up | BaseIsNearestStudioFolder |
| stdout duplicated after it was closed | ResponseReachesStdout |
| dirname("/x") answering "." | WorkspaceConstructed |

## 4. Fairness

`Daemon!FairSpec` assumes weak fairness of two things:
- The steps of an RPC thread inside Execute (BeginSession, EndSession,
  StopSampler, EndTimestamp, Post). The thread holding `mutex_` is running
  code, and it waits only in `Stop`.
- `Sample(s, k)`, finishing a sample already started. Spec 4.2 says Sample
  never blocks indefinitely.

New requests (`Execute` taking the lock) and timer ticks are not fair. Nothing
obliges a client to send a command or a timer to fire within the model.

`AgentStatus!Spec` assumes weak fairness of two things:
- `Tick`: time passes.
- `StatusThread` (ScanStart, ScanVisit, ScanDetach): the status thread is
  a dedicated thread looping forever. Each pass visits every pid of the
  map, so weak fairness of the whole loop reaches every stale pid.

Heartbeats, attaches and process deaths are not fair.
Users, Studio and agents are never assumed to act.

`Workspace!Spec` has weak fairness of its single sequential thread. The
installer is one process running its constructor and then SendResponse.
Its runs set CHECK_DEADLOCK FALSE because the process really stops once it
has answered.

## 5. Not modelled

- What the samplers read from /proc, event payloads, logging and the
  `std::cout` traces in SendTraceEvent: data and formatting that no property
  distinguishes.
- `GetEventGroups`, a read-only snapshot query over the buffer (`daemon.h`
  75-76) whose body is in daemon.cc.
- Trace file handling of the cache and the file cache.
- The session id formula (`session.cc:31`). Sessions are identified by
  their index. The formula cannot collide for two starts of one device:
  start timestamps are nanoseconds since boot and stay far below 2^62,
  where the shift would lose a bit. Collisions across devices are a risk
  the spec documents (section 9).
- The streaming side of the buffer: `WriteEventsTo` and
  `InterruptWriteEvents` (`daemon.h` 96-101) only forward to
  `event_buffer.cc`, which is not under src/. Its reader, lock and
  condition variable have no code here to be modelled from. A cancel that
  arrives before the reader enters WriteEventsTo, and is lost, is listed as
  a hazard.
- The retention policy of the buffer, which the spec leaves to callers.
- `ConfigureStartupAgent` and `agent_attachable_map_`. Their bodies are in
  daemon.cc, and the spec gives no behaviour for either.
- Workspace: event conversion and protobuf serialization in SendResponse
  (only where the bytes go matters), and `tmp_` with its `mkdir` (the path is
  never read again and the result of `mkdir` is ignored). Also the log line after a failed search, which prints `path`
  after `dirname` has cut its buffer in place.
- The unlocked `push_back` in `AddAgentStatusChangedCallback`
  (`generic_component.h` 46), which races the status thread's walk of the
  list. This is a data race on `std::list`, and its outcome is undefined
  behaviour in the list's links. The callbacks are not modelled, so the
  race is listed as a hazard with no property.
- The server wiring: `RegisterComponent`, `GetComponents`, `RunServer` and
  the component's `GetPublicService`/`GetInternalService` (`daemon.h`
  50-65, `generic_component.h` 37-43). Their bodies are in daemon.cc, and
  the comments only say that one thread registers and then runs the server
  until another shuts it down. A model of that sequence holds by its shape.
