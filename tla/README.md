# ThreadHaul: formal specifications

TLA+ models of the ThreadHaul service (`src/src`), the TLC runs that check them
on small instances, and TLAPS proofs of what matters most for every instance.
Source references are `File.cpp:line` below `src/src/` unless they say otherwise.

- [1. The system](#1-the-system)
- [2. Modules](#2-modules)
- [3. How state and actions correspond to the code](#3-how-state-and-actions-correspond-to-the-code)
- [4. Runs, properties and bounds](#4-runs-properties-and-bounds)
- [5. Fairness](#5-fairness)
- [6. Proofs](#6-proofs)
- [7. Divergences found](#7-divergences-found)
- [8. What is not modelled](#8-what-is-not-modelled)
- [9. What a next step would be](#9-what-a-next-step-would-be)

## 1. The system

ThreadHaul is a Windows service that watches the CPU and memory use of
*critical* processes and, when they are under pressure, slows *batch* processes
down: first by priority class, then by suspending their threads. When the
pressure falls it gives them everything back.

### Components

| Component | State it keeps | Operations | What makes it correct |
|---|---|---|---|
| Actuator state machine (`actuator/StateMachine`, `ThreadControl`, `PriorityControl`) | state, hold, three consecutive-sample counters, a process handle | `Update`, `ForceState`, `ReleaseManualHold`, `ForceRecoverForShutdown`, `SetConfig` | counts are exact; the machine and the process agree; a paused process comes back |
| Actuator manager (`actuator/ActuatorManager`) | the table PID → machine, the protected names | `AddBatchProcess`, `UpdateAll`, `ForceState`, `RemoveBatchProcess`, `SetProtectedProcessNames`, recover-all | nothing suspended without a machine that will restore it; protected names never touched |
| Daemon core (`service/Daemon.cpp`) | `cfg_`, the recorded attributes of config.json, `adhoc_`, the tracked critical processes | `Initialize`, `Poll`, `CheckConfigReload`/`ApplyConfig`, `SetRole`, `HandleCommand`, shutdown in `Run` | manual actions are held; edits apply within a poll; a stop restores everybody |
| Service threads (`ControlPipe`, `HttpServer`, `Coordination`, `Daemon::Run`) | one mutex, a stop flag and a thread each, the stop event, `dashboardDirty_` | start, stop and join; a request in each thread | one thread in the Actuator at a time; every request answered; a stop ends |
| Auto-protect (`service/AutoProtect`, `telemetry/AutoProtectPolicy.h`) | level and counters, lowered processes with their original class, exemptions | `Tick`, `Configure`, `Exempt`, `RestoreAll` | each process gets its own class back; only ordinary applications, at most `max_processes` |
| Configuration (`config/Config`) | - | `ParseConfig`, `SetProcessRole` | an invalid file never replaces a valid configuration |
| Coordination protocol (`service/Coordination`, `controller/main.cpp`) | session, outbox, back-off; controller: agents, bias, lockout | connect, authenticate, status, command, bias, rebalance | a lost controller leaves no bias; commands reach the agent once |
| Secure channel (`common/SecureChannel`) | keys, sequence numbers, receive buffer | handshake, send, receive | frames in order, both ends authenticated, no connection given up without a reason |
| Dashboard (`service/Dashboard`, `SessionGuard.h`, `src/web/dashboard/app.js`) | the key with its two dates, recent failures, lockout; the page: its key, whether it was rejected | issue a key, check it, sign out; open a link, call, give up | only a live key is let through; wrong keys are slowed down; a sign-out ends the session |
| Telemetry (`telemetry/*`) | previous CPU samples, cached identities, window of pressures, streaks | sample, identify, adapt, announce | pressure is that of the pinned program; the hysteresis band survives; events and actions agree |
| Log (`logging/*`) | current file, hash of the last line | append, rotate, verify | an untouched log verifies |
| Command line (`service/main.cpp`) | - | commands over the pipe, direct action when no service answers | - |

### How they interact

The main loop takes `mutex_` for each poll (`Daemon.cpp:326`): it looks at the
attributes of config.json, reloads, takes a process snapshot, discovers batch
processes, samples the critical ones and hands one pressure value to every state
machine, then lets auto-protect look at the whole system. The control pipe's
thread, the dashboard's thread and the coordination client's thread call
`HandleCommand`, `SetRole` and the status functions under the same mutex. A
reload, in whichever thread it runs, stops and replaces the coordination client;
the main loop, and only it, stops and replaces the dashboard. The operating
system, the administrator's editor and the controller take no mutex at all.

### What is hard about it

- **Interleaving with processes.** A PID read from a snapshot is opened later;
  processes exit and PIDs are reused. Machines may exist without a handle.
- **Partial failure.** A transition is several Win32 calls and the machine takes
  its new state whatever they answer.
- **Holds, reloads and roles.** The same process can be configured, added ad hoc,
  held, protected and dropped in every order.
- **Threads and joins.** Every thread is ended by a flag and a join, one of them
  from inside the mutex.
- **Read, then record.** The file's content and its attributes are read at
  different moments, in different orders at start-up and at a reload.
- **Streaks.** Three consecutive-sample counters in every machine and three more in
  the tracker that announces them, reset by different things, none by a reload.
- **Frames in pieces.** Several threads write to one socket, and what they write
  arrives cut and glued in any way, until the connection breaks.
- **Keys that die.** A key ends by idleness, by age, by a sign-out or with the
  service, while calls that carry it are on their way.

`PROJECT.json` lists each of these hazards at its line, with the property that
would catch it or the reason none does.

## 2. Modules

| Module | What it is |
|---|---|
| `Machine` | the per-process state machine and the Win32 calls as pure operators on records; no variables |
| `GradedResponse` | **abstract specification**: what a batch process is promised, stated over windows of recent samples, without counters |
| `StateMachine` | one machine with its process and all its callers; shown to implement `GradedResponse` |
| `Daemon` | the service core: a table of machines, roles, commands, polls, reloads, `SetRole`, start-up and shutdown, over processes that come and go |
| `ServiceThreads` | the four threads, the mutex, the stop flags and joins |
| `AutoProtect` | levels, lowered processes, exemptions, reloads, and the Actuator beside them |
| `Coordination` | agents, connections, the controller's threads, its table of agents, and the cluster bias |
| `LogChain` | the hash chain of the log across rotation, restarts and failed calls, beside a `verify-log` |
| `Telemetry` | one critical name: snapshot, identity filter and its cache, open instances, and what the poll feeds the state machines |
| `LeastSquares` | the line `AdaptiveThresholds` fits through the last samples, in whole numbers; no variables |
| `Detection` | from pressure to action: adaptive thresholds, cluster bias, dead band, threshold tracker and the machine it announces |
| `Sessions` | the dashboard's session guard, the threads that ask it, and the browser pages |
| `OrderedChannel` | **abstract specification**: two ends that share a secret hear what the other said, in its order |
| `Channel` | the secure channel, from the handshake down to the pieces on the socket; shown to implement `OrderedChannel` |
| `MCStateMachine`, `MCDaemon`, `MCServiceThreads`, `MCAutoProtect`, `MCCoordination`, `MCLogChain`, `MCTelemetry`, `MCDetection`, `MCSessions`, `MCChannel` | the small instances |
| `StateMachine_proofs`, `Daemon_proofs`, `Telemetry_proofs`, `Detection_proofs`, `Sessions_proofs`, `Channel_proofs`, `Coordination_proofs` | the theorems about the module each is named after |
| `Service_proofs` | the theorems about `ServiceThreads`, `AutoProtect` and `LogChain`, each in a section of its own |

`Machine` is the shared part: `StateMachine` runs one machine with every answer
the Win32 calls can give, `Daemon` a table of them with calls that succeed. The
critical sections that `Daemon` takes as known to exclude each other are the ones
`ServiceThreads` shows to do so (`OneThreadInside`, proved); what `ServiceThreads` only
enters and leaves is `Daemon`'s subject. `Telemetry` says when the pressure that
`Daemon` takes as given is a real one, is zero, or is missing (`PollActs` against
`PollSkips`). `Detection` uses `Machine`'s counters and actions for one process and says
where the thresholds come from that `StateMachine` and `Daemon` take as configurations.
`Channel` is the ordered, authenticated channel that `Coordination` assumes between an
agent and the controller.

`Service_proofs` extends three modules at once, so `AutoProtect` and `LogChain` carry
their name in what every specification has: `ProtectInit`, `ProtectNext`, `ProtectSpec`,
`ProtectTypeOK`; `LogInit`, `LogNext`, `LogSpec`, `LogTypeOK`.

Each module also holds the *mutants* of its operators (marked as such): plausible
bugs, one for each property, under which TLC finds that property violated. They
are never part of a specification.

## 3. How state and actions correspond to the code

**`Machine`.** A machine record is `state_`, `manualHold_` and the three
counters. `Count`, `Due` and `MoveTo` are the three parts of `Update()`
(`StateMachine.cpp:31-71`); `Actuate` is the calls `TransitionTo()` makes
(lines 73-110). A process is one thread's suspend count and a priority class.
Threads do not influence each other except through "all succeeded", so one thread
(`reached`) and an independent verdict on the whole set (`complete`) stand for
any number. Counters saturate at `CounterCap`, at or above every sample count a
configuration may ask for; no comparison can tell.

**`StateMachine`.** Actions are the callers: `Sample` (`UpdateAll`), `Command`
(a manual verb, always with a hold), `ReleaseManualHold`,
`ForceRecoverForShutdown` (a reload's drop or the shutdown), `SetConfig` and
`ProcessExits`. `recent` and `since` are history variables: the verdicts on the
last samples and the number of samples since the last transition.

**`Daemon`.** `mutex_` makes a poll or a command one critical section. A section
is cut only where it reads the outside world, because processes and the editor do
not take the mutex: a poll is `PollBegins` (attributes recorded), `PollLoads`
(file read, `ApplyConfig`, snapshot), then `PollActs` or, when no critical
process has a sample yet, `PollSkips`; a command is `CommandBegins` (snapshot) and
`CommandActs`; `SetRole` is read, write, record, load. Start-up is `Load`, then
`RecordAttributes`: the opposite order. `ApplyConfig` is the whole of its effect
on the Actuator: settings, protection, the drop loop and each recovery. A machine
holds a handle when its process still ran at the time it was created; an open
handle keeps Windows from reusing the PID, so `ProcessStarts` excludes it, and a
machine without a handle never sees an exit. Critical processes have PIDs of
their own: they only contribute the pressure, which is any value in `Pressures`.

**`ServiceThreads`.** One program counter per thread. `stopping` is the set of
raised `stopping_` flags, `edits` the sections of the file that differ from the
configuration in force. `Reload` is what `ApplyConfig` does to the other threads:
the dashboard is only marked dirty, the coordination client is told to stop,
joined (a step of its own, inside the mutex) and replaced. A blocking call is an
action that stays disabled until it returns; `WaitForSingleObject`, `select`, the
back-off and a `recv` of the dashboard time out, so they are always enabled. Calls
without a time-out end with a step of somebody outside, which nothing makes them take:
`ReadFile` of the pipe (`PipeClientWrites`), its `WriteFile` and `FlushFileBuffers`
(`PipeClientReads`), the dashboard's `SendAll` (`BrowserReads`) and the coordination
client's `send` (`ControllerReads`).

**`AutoProtect`.** `Tick` is one call per poll: the level from the load
(`AutoProtectState::Update`), then `RestoreAll` at the normal level, or
prune-escalate-select above it. Which applications are heaviest is a free choice
(`chosen`), and so is which calls Windows refuses (`refused`). `Configure` is the
reload with `Exempt` for every lowered process whose name is now listed.
`due` is a history variable: the class a process would have had without
auto-protect.

**`Coordination`.** A connection is a pair of a server and a number; the
controller has a thread and an `Agent` for each one it has not given up. `serve`
is where `ServeAgent` is: after a heartbeat, and once more after its loop, the
thread goes through `Rebalance`, which is cut at every point where another
thread may run: the copy of the table (`Snapshot`, the only part under
`g_mutex`), the computation (`Compute`), the comparison and assignment of
`biasSent` (`Mark`), the send (`Tell`). `down[c]` are the messages on their way
to an agent; `Send` and `Receive` are the authenticated, ordered channel. An
agent's `SessionEnds` stands for every way a session ends. `overlapped` is a
history variable: two threads have rebalanced at once. `Leave` belongs to a
thread whose loop has ended; its `Agent` object lives on while another thread's
copy of the table refers to it.

**`LogChain`.** A line is its number and whether it continues its predecessor's
hash; the hash itself is never computed. `WriteLine` is cut at its Windows calls, each of
which may fail: `LastLineHash`, which then finds nothing, the opening, the deletion and
each rename of `Rotate`, the reopening, the write, which may be cut short. `Restart` may
come between any two of them; it is a new logger, after a restart or a reload, and the
settings it finds may ask for another number of rotated files (`kept`). The other
setting, `MaxFileLines`, stays. `verify-log` holds one file at a time open, from the
oldest to the newest, and so makes renames fail; it may fail to open one. `harm` records
what really happened to the chain, so that a broken chain can be compared with its cause.

**`Detection`.** `Sample` is the second half of `Poll()`, `Daemon.cpp:433-471`: the
window, the thresholds wanted, the dead band, the tracker, `UpdateAll` and the
tracker's reset when an action was taken, on the modelled process or on any other. Percentages are counted in units of which
`Scale` make one percent. The trend is a constant operator of the window: `Detection`
relies on two facts about it only, that it is not negative and that a flat window has
none (`DetectionAssumption`), and TLC is given `LeastSquares!RisingTrend`, the fit of
`AdaptiveThresholds::Fit` with its denominator kept apart. `Reload` is what
`ApplyConfig` does to the thresholds, `ReceiveBias` the controller's message, and
`Becomes` whatever changes the machine without the tracker: a manual command, its
release, a process that is given up and found again. `announced` and `undisturbed` are
history variables.

**`Sessions`.** Keys are numbered in the order they are issued. `Check` has
`SessionGuard::Check`'s four ways out; `failures_` is the end of the history of wrong
keys (`bad` from `front` on), which is what lets a property compare the deque with
everything that was ever presented. The HTTP thread handles one request at a time, but
a sign-out checks and revokes under two locks with the pipe's thread
(`CurrentOrNewKey`) free to run between them: `revoking`. A page has its own calls and
its sign-out in flight at once; `Answered` and `SignedOut` are what `api()` and the
click handler make of the answer. A page that is `"stopped"` has dropped its key and goes
on showing what it showed; one that is `"rejected"` shows why. `HandleOther` is any client of the API, with any key
there ever was or none; `Restart` a new service with a new guard.

**`Channel`.** A frame is one unit of length and as many of body as its size says; a
thread writes it in pieces (`Write`), `Recv` brings any number of units up to `Chunk`.
`taken` to `arrived` is `rxBuffer_`. Proofs and seals are symbolic: a frame carries the
secret, the direction it is written in and the number it was sealed with. `Begin` to
the last `Write` is `SendFrame`, under `sendMutex_` (`Free`) for messages and without it
for the handshake, whose thread is then the only one. A `SendFails` of an agent ends its
session; the controller ignores it. The writer refuses a frame above `kMaxFrame`, so the
reader's test of the length (`SecureChannel.cpp:176`) never fails between the two.

**`Telemetry`.** A poll reads the operating system call by call, each a step of its
own: the snapshot, for each process in it the filter's `StartTime` (`ReadStart`) and,
when the cache has no verdict, its path (`ReadPath`), then the exits of the instances,
the opening of new ones, the sample. Processes start, exit and hand on their PIDs in
between; a PID is free only when the process has ended and no handle is open to
it. Each call may fail: the snapshot is then empty, the start time 0, the path no match,
and an instance without times gives no sample. The snapshot is the name's part of it.
`denied` processes cannot be opened. `unjudged` is a history variable, the PIDs whose
process the filter has not looked at; an instance carries whether it was one of them
(`checked`), which is what the filter can be held to. CPU values are left out: `fed`
says whether the state machines get a pressure, zero or nothing.

## 4. Runs, properties and bounds

| Run | Instance | Checks |
|---|---|---|
| `state_machine` | one process; two configurations that differ in both thresholds and sample counts; pressures 0..4, one per band; all 8 answers of the calls; suspend count up to 2 | `Agreement`, `CountersAreStreaks`, the refinement `KeepsPromise`, and `Relieved` (liveness) |
| `daemon` | one PID, two names (one essential, one that takes every role), four configurations and an invalid file; processes also start and exit between a snapshot and its use | `NothingLeftBehind`, `TableAgreement`, `OnlyMistaken`, `OperatorWins`, and `PendingEditApplies` (liveness) |
| `threads` | the whole of `ServiceThreads`: it is finite | `LocalCommandsAreOver`, and the liveness properties `NoOtherHang` and `RequestsAnswered` |
| `auto_protect` | two PIDs, three sections (one that escalates, one that does not and allows one process, one switched off), loads one per band | `ExactlyRestored`, and `EventuallyRestored` (liveness) |
| `coordination` | two servers, one of which has two connections, so that it returns while its old one is still served; two controller threads; up to `QueueCap` messages on their way | `Agreement`, `EntriesAreTheirThreads` |
| `log_chain` | files that are full with one line, up to two rotated files, four lines; every call that opens, reads, deletes, renames or writes may fail, every moment may be the last before a restart | `ChainContinues`, `NoFalseAlarm` |
| `telemetry` | two PIDs, three processes of four kinds (the pinned program, another of its name, one that cannot be opened, one of another name), reloads; every call of a poll may fail | `ZeroMeansNobody`, `NoImpostor`, `MismatchOnce` |
| `sessions` | one tab with a call and a sign-out, beside other clients; two keys, three wrong keys in one run of the service, limits of one and two ticks, a clock of four | `BadTriesAreSpaced`, `SignOutEnds`, and the action property `AnsweredAsPromised` |
| `channel` | an agent's session and two threads of the controller, two secrets and a short one, frames of 1 to 3 units against a limit of 2, pieces of up to 2, two messages each way | `MutuallyAuthenticated`, `BrokenForAReason`, and the refinement `InOrder` |
| `detection` | quarters of a percent; a configuration with room for adaptation and one without, which differ in all lengths; adaptation on and off with windows of 3 and 2; biases of nothing, less than the dead band, and more than the room | `BandSurvives`, and the action properties `EventsLineUp`, `AdaptationFades` |

Every run also checks its module's type invariant. The other two runs, `threads_reload` and
`daemon_late_command`, each exhibit one disagreement (section 7).

What the properties say, beside the comments in the modules:

- `CountersAreStreaks` relates each counter to the history of samples: it reaches
  *k* when and only when the last *k* samples since the last transition all got
  the verdict, each judged by the thresholds in force when it was taken.
- `KeepsPromise`: the machine, with counters that are reset here and saturate
  there, is a refinement of a policy that looks at a window of samples. A process
  is suspended only after it was throttled and stayed critical for the whole
  count *while* throttled.
- `Agreement` and `TableAgreement` are about the process and not the machine: one
  pending suspension at most, also after two commands, a failed call that missed
  this thread, or a reload in between.
- `NothingLeftBehind`: whichever way a process ends up without a machine, nothing
  of ours is left on it.
- `OnlyMistaken`: an essential or protected process is reached only through a PID
  it took over from a managed one between a snapshot and its use. It is the exact
  extent of the weakness: `AddBatchProcess` opens a PID and does not ask again
  whose it is.
- `OperatorWins`: a held process moves only by another command, or by leaving the
  operator's reach.
- `NoOtherHang`: a service that is not asked to stop polls for ever, and one that is asked
  ends, unless it hangs in one of four named ways. It is a statement about all fair
  behaviours in which clients, browsers and the controller do as they like. Without any of
  the four disjuncts TLC finds it violated; the run `threads_reload` shows one of them, and
  section 7 describes the others.
- `RequestsAnswered`: no thread that waits for somebody outside does so inside `mutex_`,
  but for the join of a reload; a client that does not read keeps nobody else waiting for
  the mutex.
- `ExactlyRestored`: an application auto-protect let go has the class it would
  have had if auto-protect had never touched it.
- `Agreement` of `Coordination`: while rebalances do not overlap, `biasSent` is
  what the agent has, or will have once it has read what is on its way, through
  any number of reconnects. When they overlap it need not be: see section 7.
- `EntriesAreTheirThreads`: the late clean-up of a dead connection removes nobody
  else from the table.
- `ChainContinues`: a break of the chain has one of five causes, each a failure, a
  restart or a reload at a bad moment, and each enough by itself; `NoFalseAlarm`: `verify-log` reports no break that
  is not in the files, unless a rotation overtakes it.
- `ZeroMeansNobody`: zero pressure, which lets suspended processes go, is never
  the artefact of a first sample or of a restart. It may be one of a call that fails:
  the property names the two that do it (section 7).
- `NoImpostor`: a pinned name has no other instances than the pinned program,
  however PIDs are handed on between the filter's two reads and the opening, unless the
  process is exchanged after its path was read, or has a verdict for a start time that
  could not be read: two windows that the code has.
- `MismatchOnce`: a mismatch is reported once per process, but for the three exceptions
  its comment names (section 7).
- `BadTriesAreSpaced` is about the wrong keys that were really looked at, not about
  the deque: of any eleven in a row the first and the last are more than the window or
  at least a lockout apart, whatever expired, was popped or was cleared in between.
- `SignOutEnds`: a page that has dropped its key, by a sign-out or a rejection, leaves a
  dead key behind, unless all it was ever told is that the API is locked, or nothing;
  the page drops its key in these cases too (section 7).
- `AnsweredAsPromised` relates each verdict to what the documentation promises of a key,
  computed from when it was issued and used and not from the guard's variables.
- `MutuallyAuthenticated`: nobody is ready beside an end with another secret.
- `InOrder`: every step of the channel is a step of `OrderedChannel` or changes nothing
  of it. `BrokenForAReason`: the receiver gives up on a connection that is whole only
  when the other end failed to send something, or for a frame too near the limit
  (section 7).
- `BandSurvives`, `AdaptationFades`: trend, bias, dead band and reloads never close the
  hysteresis band and leave nothing behind but what the dead band allows.
- `EventsLineUp`: the comment of `ThresholdTracker::Reset` (`ThresholdTracker.h:41-43`),
  as a property of two sets of counters that are fed and reset in different places. It
  holds for a process that is alone, or since it was the last to be acted on; an operator,
  a reload of the lengths or an action on another process ends that (section 7).

**Why the bounds are enough.** Machines do not interact, so one process per
configuration change covers the machine; the second PID matters in
`AutoProtect`, where processes compete for slots. A configuration acts only
through which side of a threshold a pressure lies on, so one value per band is
every value. `CounterCap` is the largest sample count of the instance. Two
configurations that disagree in every field are enough for a reload in the middle
of a streak, and the four of `daemon` give the one name every role (managed,
protected, critical, and listed together with an essential name). A
suspend count of 2 in `state_machine` (3 in `Daemon`) lets a second suspension
happen; the properties say it does not. `ServiceThreads` has no bound: counters
are absent and edits are a set. In `Coordination` one server that returns is
enough for two threads of one host, and the second for somebody else to be
rebalanced; `QueueCap` is the number of messages the unread channel of an agent
can hold before its controller thread is made to wait. In `LogChain` two rotated files
give every position in a chain of renames, four lines are one more than fit, and a file
gets a second line when it could not be renamed. In `Telemetry` three processes over two PIDs hand on
each of them. In `Sessions` the limits are small enough for the clock to pass each of
them, three wrong keys fit in a window and reach across a lockout of two, and the second
key is the one that replaces the first under a sign-out. In `Channel` a frame of the
largest legal size and the first unit of the next one overfill the buffer, a frame above
the limit is refused, and the second message of a direction is the one that can come out
of order. In `Detection` the windows are the shortest that have a trend; what the trend
is beyond that is left to the proofs, which take any.

`coordination` uses the symmetry between the two connections of one server, which differ
in their number only (`MCSymmetry`); it checks no liveness property. The largest
runs are `telemetry` with 4.6 million distinct states and `coordination` with 2.4 million.

`CHECK_DEADLOCK FALSE` stands in the `ServiceThreads` runs because the service
really stops there, normally after `main = "done"`; that it stops nowhere else
is `NoOtherHang`'s business.

## 5. Fairness

- `StateMachine`: the poll loop samples for ever (`Daemon::Run`, the loop at
  `Daemon.cpp:322`). Nothing else is fair: no operator has to act.
- `Daemon`: a critical section that began ends, and polls keep beginning. A poll
  is due whenever its interval has passed, but commands may hold the mutex at that
  very moment, so `PollBegins` has strong fairness: the main loop sleeps outside
  the mutex and Windows wakes the waiters of an SRW lock. Edits, commands,
  processes, stop: not fair.
- `ServiceThreads`: every thread runs (weak fairness), a thread that waits for a
  mutex which is released again and again gets it (strong), and a thread that is
  called back over and over looks at its flag in between (strong; both loops test
  the flag on every turn). What those outside do is not fair: a client of the pipe may
  stay connected and silent, it, a browser or the controller may never read what they are
  sent. `NoOtherHang` names what follows from that.
- `AutoProtect`: the poll loop ticks for ever.
- `Coordination`, `LogChain`, `Telemetry`, `Sessions`, `Channel`, `Detection`: only
  safety is stated. Connections need not be made and need not last, pages need not call,
  and `Detection` has no step that must come: its promise about fading is made for the
  very poll that sees a flat window.

## 6. Proofs

Each theorem holds for every value of the module's constants that satisfies its
assumption.

`StateMachine_proofs`, under `MachineAssumption` and `AnswersAssumption`:

| Theorem | Says | Argument |
|---|---|---|
| `TypeCorrect` | `Spec => []TypeOK` | inductive; one step per action |
| `CountersExact` | `Spec => []CountersAreStreaks` | inductive relative to `TypeOK`; lemma `StreakStep` is the one step of one counter against the shifted window |
| `HysteresisHolds` | `Spec => []Hysteresis` | inductive; uses `recover < throttle <= escalate` of `MachineAssumption`, and works across a reload because a sample is judged by one configuration |
| `AgreementHolds` | `Spec => []Agreement` | inductive; a transition whose verdict is "succeeded" brings the process to the new state from any state that agreed |
| `Implements` | `Spec => KeepsPromise` | refinement: lemma `WindowIsCounter` turns "the last k samples" into "the counter is at least k" by `CountersExact`; then one step per action |

The assumptions are the ones `ParseConfig` and `AdaptiveThresholds::Adjust`
enforce: the recover threshold lies below the throttle threshold, which does not
exceed the escalate threshold, and sample counts are positive. `CountersAreStreaks`
is the invariant that the refinement needs: without it nothing ties the counters
to the samples the abstract specification speaks of.

`Service_proofs`, the threads, under `ThreadsAssumption`:

| Theorem | Says | Argument |
|---|---|---|
| `TypeCorrect` | `Spec => []TypeOK` | inductive; one step per action |
| `OneThread` | `Spec => []OneThreadInside` | inductive relative to `TypeOK`: every way into a critical section asks for a free `mutex_`, and every way out frees it |
| `LocalCommandsOver` | `Spec => []LocalCommandsAreOver` | from `Stopped`, which adds that the dashboard's thread has already ended while the pipe's is being stopped |
| `ThreadsJoined` | `Spec => []StoppedByAJoiner` | lemma `JoinerInductive`, relative to `OneThreadInside` and `Stopped`: the main loop and the dashboard both join the coordination thread, and only the mutex keeps them apart |

`Telemetry_proofs`, under `TelemetryAssumption`:

| Theorem | Says | Argument |
|---|---|---|
| `TypeCorrect`, `OnlyThePinned`, `ZeroIsNobody` | `Spec => []TypeOK`, `[]NoImpostor`, `[]ZeroMeansNobody` | from the inductive invariant `IInv`, one lemma per action |
| `RestartsKnown` | `Spec => []RestartKnown` | inductive relative to `TypeOK` |
| `ReportedOnce` | `Spec => []MismatchOnce` | from `Once`: a start time names one process (`Unique`), what was reported under its own start time and may be looked at again is in the cache with it (`Remembered`), and a path is read only when the cache has no verdict (`Undecided`) |

`IInv` is needed because the verdict of the filter is used three times after it was
made: by the cache, by the open that follows, and by the sample after that. `Past`
(nothing refers to a process that has not started), `Verified` (a cached match is
right about the process whose start time it carries), `Passed` (what the filter let
through is the pinned program or a process it has not judged), `InSnapshot` and
`AllOpened` (what ran before the poll looked was listed, and is an instance unless it
was turned down) carry the fact from one step of a poll to the next, while processes
come and go between them and calls fail.

`Service_proofs`, auto-protect, under `AutoProtectAssumption`:

| Theorem | Says | Argument |
|---|---|---|
| `ProtectTypeCorrect` | `ProtectSpec => []ProtectTypeOK` | inductive; lemma `TickedEntry` says what a tick makes of one entry |
| `NobodyWhenCalm` | `ProtectSpec => []CalmMeansNobody` | inductive relative to `ProtectTypeOK` |
| `RestoredExactly`, `OrdinaryOnly` | `~Overlap => ` `ProtectSpec => []ExactlyRestored`, `[]OnlyOrdinary` | from `Ordinary`: the two together with the fact that the Actuator holds none of the lowered processes |

The last two assume `~Overlap`, that no command or reload gives the Actuator a process
auto-protect has lowered; what happens otherwise is a remark in section 7.

`Service_proofs`, the log, under `LogChainAssumption`:

| Theorem | Says | Argument |
|---|---|---|
| `LogInvariant` | `LogSpec => []LogInv` | the inductive invariant; one lemma per part, one step per action |
| `LogTypeCorrect` | `LogSpec => []LogTypeOK` | from `LogTyped` and `Untorn` |
| `ChainAlwaysContinues` | `LogSpec => []ChainContinues` | from `Unharmed`; lemma `NearestOlder` finds the next file with lines (a least number, by well-foundedness) |
| `VerifyTellsTheTruth` | `LogSpec => []NoFalseAlarm` | from `Following` |

`ChainContinues` is not inductive: nothing in it says what `lastHash_` is, or that a file
which is moved in the middle of a rotation lands on a free place. `Sound(F, h)` says of
the files at any moment, also between two renames, that each is intact by itself, that it
begins where the next one behind it that has lines ends, and that the newest line has hash
`h`; a file may go only when there is none behind it. `DropSound`, `MoveSound`,
`WriteSound` and `ContinuedSound` show what deleting the oldest file, a rename, an
appended line and a start make of it, and `Unharmed` is
`Sound(files, last)` while nothing has gone wrong. `Vacated` is about the middle of a
rotation: the place of the last rename is free or its file could not be moved, so that
only the oldest file is ever overwritten unnoticed by `harm`. `Untorn` says that every line is whole
and the size is counted right. `Following` ties `verify-log` to the files that change under
it: unless one was renamed, every rotated file with lines that is newer than the one just
read is still to be read, so the hash it expects is the one the next file was chained to.

`Detection_proofs`, under `DetectionAssumption` and `MachineAssumption`:

| Theorem | Says | Argument |
|---|---|---|
| `TypeCorrect`, `BandAlwaysSurvives` | `Spec => []TypeOK`, `[]BandSurvives` | from `IInv`; lemma `AdjustKeepsTheBand` bounds the offset of any window and bias |
| `EventsAlwaysLineUp` | `Spec => EventsLineUp` | from `InStep`, one lemma per action; a poll that acts on another process only ends what `InStep` says |
| `AdaptationAlwaysFades` | `Spec => AdaptationFades` | from `IInv`: without bias and trend the offset is 0, and the dead band does the rest |

`IInv` is `TypeOK`, the band of the thresholds in force in terms of `base` (`Banded`), and
`InStep`: while undisturbed, tracker and machine count alike, and a streak of the required
length has been announced. Without it nothing ties the
two sets of counters to each other; with it the fact that the tracker compares with `=`
and the machine with `>=` is harmless.

`Sessions_proofs`, under `SessionsAssumption`:

| Theorem | Says | Argument |
|---|---|---|
| `TypeCorrect` | `Spec => []TypeOK` | from `IInv` |
| `BadTriesSpaced` | `Spec => []BadTriesAreSpaced` | from `TriesInv`: what the deque has forgotten is too old or behind a lockout, and what it holds is too little for one; lemma `FailureStep` is the pop loop |
| `SignOutAlwaysEnds` | `Spec => []SignOutEnds` | from `PageInv`: an answer that turns a page down with 401, or confirms its sign-out, is given when the key is dead, and by `DeadStay` the key stays so while the answer travels and after |
| `AnsweredAlwaysAsPromised` | `Spec => AnsweredAsPromised` | from `KeyInv` (the guard's dates are the history's, and no key but the one in force lives) and `TriesInv` (a lockout has its reasons) |

`Channel_proofs`, under `ChannelAssumption`:

| Theorem | Says | Argument |
|---|---|---|
| `TypeCorrect` | `Spec => []TypeOK` | from `IInv` |
| `AuthenticatedMutually` | `Spec => []MutuallyAuthenticated` | from `Honest` and `Shared`: a proof under a secret was written by a holder of it, and the server writes its own after it is ready |
| `HeardInOrder` | `Spec => InOrder` | refinement: lemma `OpensNext` shows that a frame which opens is the message after the last one heard; then one step per action |
| `BrokenOnlyForAReason` | `Spec => []BrokenForAReason` | from `Explained`, on top of `IInv` |

`IInv` is `Types`, `Counts` (numbers are the lengths of the histories), `Writers` (one
thread of a side writes at a time), `Honest` (every frame written or being written was
made with its side's secret and, when sealed, is the message of its number) and `Shared`
(who is past the handshake shares the secret). `Honest` is needed because a frame is
judged long after it was made and only by what it carries.

That a connection breaks only for a reason takes the framing itself. `Explained` adds to
`IInv` that counters start at zero (`Early`), the reason for each side that has broken
(`Reason`), and `Flow`: while no frame of a side was dropped, its stream is one frame after
the other (`Pieces`), their places among the frames of that side, handshake included, go
up by one (`Numbered`, `Rank`), the last one is unfinished only while a thread is writing
it (`Unfinished`), and what is written next has the next place (`Finished`, `Writing`);
and the reader stands at the beginning of the frame whose place it expects (`ReaderAt`).
Lemma `Continues` is the one about sequences, what a piece more makes of a stream; it is
stated for any two of them and cited for each side.

`Coordination_proofs`, under `CoordinationAssumption`:

| Theorem | Says | Argument |
|---|---|---|
| `TypeCorrect` | `Spec => []TypeOK` | from `IInv` |
| `AgreementHolds` | `Spec => []Agreement` | from `Remembered` |
| `EntriesAlwaysTheirThreads` | `Spec => EntriesAreTheirThreads` | from `Table`: one step per action; an entry is the agent of a thread that still serves, so the thread that leaves takes only its own along |

`IInv` is `Types`; `Ends` (an agent's connection is its own host's, and a bias lasts no
longer than a session); `Table` (the table holds each host's agent, never one whose thread
is past its loop); `Handshakes` (an agent that is not registered yet has been told
nothing and is in nobody's copy of the table); `Rounds` (a thread tells somebody only
while it rebalances, and one of its copy); and `Remembered`. `Agreement` by itself is not
inductive: while no two threads have rebalanced at once, `Remembered` also says that there
is only one that does, that what it is telling is what it has marked, and that each other
mark is what the agent has been told (`Told`, the last message on its way or else
its bias).

`Daemon_proofs`, under `DaemonAssumption` and `MachineAssumption`:

| Theorem | Says | Argument |
|---|---|---|
| `TypeCorrect`, `TableAgrees` | `Spec => []TypeOK`, `[]TableAgreement` | from `IInv`, with or without the controller |
| `NothingIsLeftBehind`, `OnlyByMistake`, `AllRestoredAtExit` | `~Coordinated => ` `Spec => []NothingLeftBehind`, `[]OnlyMistaken`, `[]RestoredAtExit` | from `IInv`; with the controller the first and the last fail, by the late command of section 7 |
| `OperatorAlwaysWins` | `Spec => OperatorWins` | `StepRespects`: one step per action, with `UpdateMachine` (a held machine counts and does not move) and `DiscoveredKnown` (a discovery keeps the machine that is there) |

`IInv` is `TypeOK`, `Looked` (every process is settled: suspended once at most, and as its
machine says if it has one; no machine has a protected name; nothing is left behind) and
`Phases` (a critical section needs a running service, a starting or stopped one has no
machines, and after `RecoverAll()` all are normal). Two things make it stronger than the
properties. `Agrees` also speaks of machines without a handle, whose process the service
has not touched or not seen: without it the reload that drops such a machine could leave
behind a suspension. And the names in the table are kept apart from the names of the
processes, which may have changed hands since. A section drives many PIDs at
once, so the argument goes PID by PID: `Handles(p)` lists the four things a section may do
to one (keep it, move its machine, let it go, erase it after its exit), `OneStep` and
`AllStep` show that these preserve `IInv`, and `SectionEnds` and `ApplyStep` apply that
to each handler.

Some properties are stated and proved but not checked by a run of their own, each a
step of an argument or a safeguard for every value of the constants: `Hysteresis`,
`OneThreadInside`, `StoppedByAJoiner`, `CalmMeansNobody`, `OnlyOrdinary`,
`RestartKnown`. The inductive invariants were checked with TLC on the small instances
before they were proved.

Only model-checked: the liveness properties `Relieved`, `PendingEditApplies`,
`NoOtherHang`, `RequestsAnswered` and `EventuallyRestored`; fairness and `ENABLED` are
outside the prover's reach. Every invariant, action property and refinement that a
passing run checks is a theorem. `LeastSquares` sums by a
recursive function, so what it computes is left to TLC; the proofs need only that a trend
is a natural number and zero for a flat window, and TLC evaluates both for every window
of the instance.

## 7. Divergences found

Each is a run that TLC ends with a counterexample; `PROJECT.json` quotes the text
it disagrees with.

| Run | What happens |
|---|---|
| `threads_reload` | A reload that changes the `coordination` section joins the client's thread inside `mutex_` while that thread waits for `mutex_` in a callback: polling, commands and the shutdown stop for good. |
| `daemon_late_command` | A controller command that arrives after the restore and before the client is stopped leaves a process suspended or throttled when the service ends. |

Met while modelling, and kept as remarks:

- The other hangs `NoOtherHang` names. `LostWakeUp`: `ControlPipeServer::Stop`
  raises its flag and connects once (`ControlPipe.cpp:45`); when both fall between
  the thread's check (line 64) and its next instance, the connection fails, the
  thread listens, and the join waits before anything has been restored. `SilentClient`:
  a client that is connected to the pipe and does not write (line 78) or does not read
  (lines 81-83) keeps the pipe's thread, a browser that does not read a long answer keeps
  the dashboard's (`HttpServer.cpp:31-38`: only `SO_RCVTIMEO` is set), and the join waits
  for it, again before anything has been restored; a reload of the dashboard's section
  stops the polling in the same way. `SilentController`: a controller that does not read
  keeps the coordination thread in `send()`, for a reload's join inside `mutex_` as well as
  for the last join.
- A connection that registers with the controller late takes the place of a newer one of
  the same host in the table (`controller/main.cpp:161`); when it then ends, the host is in
  no rebalance although its other connection lives. `EntriesAreTheirThreads` allows it.
- An edit between the load and the recording of the attributes at start-up
  (`Daemon.cpp:142`) counts as seen. `PendingEditApplies` is stated for the
  running service.
- When the first line after a rotation was not written, the next start finds an
  empty log behind rotated files and begins a new chain (`JsonLinesLogger.cpp:166`);
  so does one that cannot open a log that has lines (`LogChain.cpp:24`). A reload that
  lowers `max_rotated_files` leaves files behind that no rotation touches
  (`JsonLinesLogger.cpp:193`), and the first file deleted in front of them is a break.
  The repository's README.md:348 says that the chain continues across rotated files
  and restarts. `ChainContinues` names each of these causes.
- `verify-log` starts at the 99th rotated file (`service/main.cpp:352`), and
  `max_rotated_files` may be 100.
- A poll whose snapshot fails (`ProcessMonitor.cpp:27-29`), or that cannot read the times
  of any instance (line 115), has no samples, so `Daemon.cpp:430` does not skip it and the
  machines are fed zero: five such polls restore everybody. `ZeroMeansNobody` names both.
- A failed snapshot also empties the filter's cache (`ProcessIdentity.cpp:143`), and the
  start time and the path are read through two handles (lines 129 and 133): in both cases
  a mismatch may be reported again, although README.md:363 says once per process.
  `MismatchOnce` names them.
- Instances are checked against a pin when they appear: a pin that a reload adds
  does not reach one that is already held (`ProcessMonitor.cpp:81`).
- Overlapping rebalances of two controller threads: marks and messages go out in
  opposite orders (`controller/main.cpp:128`), and a bias stays with an agent of a calm
  cluster although the repository's README.md:413 says that it is cleared.
- A heartbeat handled while a newly registered agent has not sent its first one:
  `lastHeartbeat` is null, `value()` throws (`controller/main.cpp:122`), and the
  controller ends. It is the step `Crash` of `Coordination`.
- An operator throttles a process auto-protect has lowered; auto-protect later restores
  the original class under the hold (`AutoProtect.cpp:187`), which README.md:289 rules
  out. The constant `Overlap` of `AutoProtect` lets the Actuator in.
- A page drops its key whatever became of its sign-out (`app.js:46-49`): turned down with
  429, lost, or never sent because an earlier call was rejected. The key then lives on
  until it expires, while README.md:248 says that it ends with the click.
- The sign-out's handler never gets to its message: `history` at `app.js:50` is the array
  of `app.js:192`, so `replaceState` throws and `showAuth` at `app.js:51` is not reached.
  The page stays on the data it last showed, without a word, and sends nothing more.
- A frame within 8191 bytes of `kMaxFrame` that is followed by another one overfills
  `rxBuffer_` (`SecureChannel.cpp:197`) and ends the session, although it is legal.
- A message above `kMaxFrame` uses up a sequence number before it is refused
  (`SecureChannel.cpp:297`); every later message of that side is then taken for tampered
  with.
- Events taken out of the outbox are lost when sending one of them fails
  (`Coordination.cpp:150-158`); README.md:410 says that every state change is forwarded.
- The controller's lockout counts from the first failure and not from the last
  (`controller/main.cpp:108`).
- A residue of less than half a percent may stay on the thresholds after the trend and
  the bias have gone: the dead band of `Daemon.cpp:440`. `AdaptationFades` says so.
- After a manual command, a new machine, a reload with other lengths or an action on
  another batch process (`Daemon.cpp:469-471` resets the one tracker for all), the tracker
  and a machine count apart until that machine itself acts: an action may come without its
  event, or an event without its action, against the comment of `ThresholdTracker.h:41-43`.
  Two batch processes, one found a sample after the other, are enough. `EventsLineUp` is
  stated for undisturbed streaks.

## 8. What is not modelled

- Texts, formats, the event log, alerts, the web page, installation and the
  self-check: output only.
- The values of CPU and memory samples; pressure is one number in a band.
- Failing Win32 calls in `Daemon`: the code reports such a failure and never tries again;
  `StateMachine` is where the answers are free.
- Failing restores in `AutoProtect`: `SetPriorityClass` at `AutoProtect.cpp:187` is taken
  to succeed on the handle it had succeeded on before. The code ignores its result, logs
  `restored` in any case and forgets the process, so `ExactlyRestored` and
  `EventuallyRestored` say what the code does when Windows does not refuse.
- The safety classification of executables (`ProcessSafety.cpp`) is a table of
  names: `Essential` stands for it.
- The arithmetic on Windows' CPU times (`CpuMath.cpp`): doubles, one expression each.
- In `LogChain` another log path, another file size, a `GetFileSizeEx` that fails and
  lets the log outgrow its limit, and a line above the 64 KiB `LastLineHash` reads.
- The dashboard's other API calls and its files: each reads a status or makes a call that
  `Daemon` has as an action; parsing of HTTP and JSON.
- The command line's direct action without a service: one call on an Actuator of its
  own, which two models of one Actuator cannot relate to the service's.
- In `Coordination` the outbox of events, the texts of commands, the back-off, the
  controller's lockout and its console.
- The cryptography under `Channel`: SHA-256, HMAC and AES-GCM are taken as perfect, and
  the nonces of the handshake as fresh.
- In `Channel` anybody who alters, injects or replays bytes on the connection: a peer with
  a wrong secret is the only stranger. The four bytes of a frame's length are one unit,
  which is never cut.
- A socket's handle that the controller has closed (`controller/main.cpp:194`) while
  another of its threads is about to send to it, and that Windows has given to a new
  connection. `Channel` takes such a `send()` to fail; in `Coordination` the foreign frame
  does not open and ends a session, which `SessionEnds` may do at any time.
- The time the controller's `send()` may block in `Channel`: its sockets have no send
  time-out either, so an agent that stops reading holds the thread that sends to it. (The
  service's own blocking calls are steps of `ServiceThreads`.)
- DPAPI secrets and access-control lists.
- A crash of the service. Nothing is persisted, so a suspended process stays
  suspended; there is no recovery code to model.

## 9. What a next step would be

1. The outbox, the commands and the back-off of `Coordination`, over `OrderedChannel`.
2. The direct action of the command line (`service/main.cpp:148-187`) as a second actor
   beside `Daemon`.
