-------------------------------- MODULE Daemon --------------------------------
(***************************************************************************)
(* The service core: the table of state machines, the roles in the         *)
(* configuration, manual commands with their ad hoc processes and holds,   *)
(* the poll with hot reload, and start-up and shutdown, over an operating  *)
(* system whose processes come and go and reuse each other's PIDs.         *)
(*                                                                         *)
(* mutex_ makes a poll or a command one critical section, so the steps of  *)
(* one never interleave with the other; but the processes, and the editor  *)
(* of config.json, do not take mutex_.  A critical section is therefore    *)
(* cut where it reads the outside world: at the file's attributes, at the  *)
(* file, and at the process snapshot.  Win32 calls succeed here;           *)
(* StateMachine.tla is where they fail.                                    *)
(***************************************************************************)
EXTENDS Machine

CONSTANTS
  Pids,         \* process identifiers
  Names,        \* executable names
  Essential,    \* kAlwaysProtected, and the service's own executable
  Settings,     \* the valid contents of config.json
  Broken,       \* content that LoadAndVerify rejects
  NoName,       \* the name of a PID nothing runs under
  NoEntry,      \* a PID the actuator has no machine for
  ChurnInside,  \* processes also start and exit between a snapshot and its use
  Coordinated   \* coordination.enabled: the controller may send commands

(* ParseConfig(): what it rejects with a ConfigError is not in Settings.    *)
ParseConfig(s) == s.machine \in Configs /\ s.critical \cap s.batch = {}

ASSUME DaemonAssumption ==
  /\ Essential \subseteq Names
  /\ Settings \subseteq [critical : SUBSET Names, batch : SUBSET Names,
                         protected : SUBSET Names, machine : Configs]
  /\ Settings # {} /\ Broken \notin Settings
  /\ \A s \in Settings : ParseConfig(s)
  /\ NoName \notin Names
  /\ NoEntry \notin [machine : Machines, name : Names, handle : BOOLEAN]
  /\ ChurnInside \in BOOLEAN /\ Coordinated \in BOOLEAN

VARIABLES
  name,      \* name[p]: what runs under PID p
  target,    \* target[p]: its suspend count and priority class
  table,     \* machines_: table[p] is a machine with its name and handle
  adhoc,     \* adhoc_: PIDs added by a manual command
  settings,  \* cfg_: the configuration in force
  file,      \* the content of config.json
  edited,    \* its attributes differ from those last recorded
  phase,     \* of the service's life
  lock,      \* how far the critical section under mutex_ has got
  pending,   \* the section's own variables: reload found, verb
  snapshot,  \* the process snapshot it took: the name under each PID
  rewrite    \* the content SetRole() is about to write

os     == <<name, target>>
config == <<settings, file, edited>>
locals == <<pending, snapshot, rewrite>>
vars   == <<os, table, adhoc, config, phase, lock, locals>>

Works == [reached |-> TRUE, complete |-> TRUE, priority |-> TRUE]

Verbs == {"throttle", "suspend", "resume", "release"}

Entries == [machine : Machines, name : Names, handle : BOOLEAN]

Fresh == [suspended |-> 0, priority |-> "normal"]

EmptySnapshot == [p \in Pids |-> NoName]

Init ==
  /\ name = EmptySnapshot
  /\ target = [p \in Pids |-> Fresh]
  /\ table = [p \in Pids |-> NoEntry]
  /\ adhoc = {}
  /\ settings \in Settings
  /\ file \in Settings
  /\ edited = FALSE
  /\ phase = "starting"
  /\ lock = "free"
  /\ pending = "none"
  /\ snapshot = EmptySnapshot
  /\ rewrite = Broken

Running(p)  == name[p] # NoName
Managed(p)  == table[p] # NoEntry

(* HasExited(): an exit is only seen through a handle. *)
HasExited(p, e) == e.handle /\ ~Running(p)

(* IsProtected(): the built-in list and the configured one. *)
Protects(s, n) == n \in Essential \cup s.protected

(* AddBatchProcess() for a process the caller saw under PID p as n: the    *)
(* machine gets a handle to whatever now runs there, and none when nothing *)
(* does.                                                                   *)
NewEntry(p, n) == [machine |-> NewMachine, name |-> n, handle |-> Running(p)]

(* Mutant: the calls are made again when the state stays. *)
MovedAgain(p, e, m) ==
  IF ~Running(p) THEN target[p]
  ELSE Actuate(target[p], e.machine.state, m.state, Works)

(* The process under p after entry e's machine has become m. *)
Moved(p, e, m) ==
  IF m.state = e.machine.state \/ ~Running(p) THEN target[p]
  ELSE Actuate(target[p], e.machine.state, m.state, Works)

-----------------------------------------------------------------------------
(* The outside world.                                                      *)

Undisturbed == lock = "free" \/ ChurnInside

(* An open handle keeps Windows from giving the PID to another process.    *)
ProcessStarts(p, n) ==
  /\ Undisturbed
  /\ ~Running(p)
  /\ Managed(p) => ~table[p].handle
  /\ name' = [name EXCEPT ![p] = n]
  /\ target' = [target EXCEPT ![p] = Fresh]
  /\ UNCHANGED <<table, adhoc, config, phase, lock, locals>>

ProcessExits(p) ==
  /\ Undisturbed
  /\ Running(p)
  /\ name' = [name EXCEPT ![p] = NoName]
  /\ target' = [target EXCEPT ![p] = Fresh]
  /\ UNCHANGED <<table, adhoc, config, phase, lock, locals>>

EditFile(content) ==
  /\ content # file
  /\ phase # "stopped"
  /\ file' = content
  /\ edited' = TRUE
  /\ UNCHANGED <<os, table, adhoc, settings, phase, lock, locals>>

-----------------------------------------------------------------------------
LoadAndVerify(content) == content \in Settings

(* Initialize(): the file is loaded first and its attributes are recorded  *)
(* afterwards.                                                             *)

Load ==
  /\ phase = "starting"
  /\ LoadAndVerify(file)
  /\ settings' = file
  /\ phase' = "loaded"
  /\ UNCHANGED <<os, table, adhoc, file, edited, lock, locals>>

RecordAttributes ==
  /\ phase = "loaded"
  /\ edited' = FALSE
  /\ phase' = "running"
  /\ UNCHANGED <<os, table, adhoc, settings, file, lock, locals>>

-----------------------------------------------------------------------------
(* The poll.  CheckConfigReload() records the attributes first and loads   *)
(* the file afterwards.                                                    *)

PollBegins ==
  /\ phase = "running" /\ lock = "free"
  /\ lock' = "reload"
  /\ pending' = IF edited THEN "reload" ELSE "none"
  /\ edited' = FALSE
  /\ UNCHANGED <<os, table, adhoc, settings, file, phase, snapshot, rewrite>>

(* Mutant: a name's new protection is overlooked. *)
DroppedUnlisted(s) ==
  {p \in Pids : Managed(p) /\ table[p].name \notin s.batch /\ p \notin adhoc}

(* SetProtectedProcessNames() and the loop over batch processes whose name *)
(* was removed: both recover the process and forget its machine.           *)
Dropped(s) ==
  {p \in Pids : /\ Managed(p)
                /\ \/ Protects(s, table[p].name)
                   \/ table[p].name \notin s.batch /\ p \notin adhoc}

(* Mutant: a dropped process is forgotten as it is. *)
ApplyConfigForgetting(s) ==
  /\ settings' = s
  /\ table' = [p \in Pids |-> IF p \in Dropped(s) THEN NoEntry ELSE table[p]]
  /\ UNCHANGED target

ApplyConfig(s) ==
  /\ settings' = s
  /\ table' = [p \in Pids |-> IF p \in Dropped(s) THEN NoEntry ELSE table[p]]
  /\ target' = [p \in Pids |-> IF p \in Dropped(s)
                               THEN Moved(p, table[p], ForceRecover(table[p].machine))
                               ELSE target[p]]

(* Mutant: the attributes are recorded once more after the file is loaded. *)
PollLoadsThenRecords ==
  /\ lock = "reload"
  /\ IF pending = "reload" /\ LoadAndVerify(file)
     THEN ApplyConfig(file) ELSE UNCHANGED <<settings, table, target>>
  /\ edited' = FALSE
  /\ snapshot' = name
  /\ pending' = "none"
  /\ lock' = "poll"
  /\ UNCHANGED <<name, adhoc, file, phase, rewrite>>

(* An invalid file leaves the last good configuration in force. *)
PollLoads ==
  /\ lock = "reload"
  /\ IF pending = "reload" /\ LoadAndVerify(file)
     THEN ApplyConfig(file) ELSE UNCHANGED <<settings, table, target>>
  /\ snapshot' = name
  /\ pending' = "none"
  /\ lock' = "poll"
  /\ UNCHANGED <<name, adhoc, file, edited, phase, rewrite>>

(* DiscoverBatchProcesses(): the table with every batch process of the     *)
(* snapshot in it.                                                         *)
Discovered ==
  [p \in Pids |->
     IF ~Managed(p) /\ snapshot[p] \in settings.batch /\ ~Protects(settings, snapshot[p])
     THEN NewEntry(p, snapshot[p]) ELSE table[p]]

Unlock ==
  /\ lock' = "free"
  /\ pending' = "none"
  /\ snapshot' = EmptySnapshot
  /\ rewrite' = Broken

(* UpdateAll(): a machine whose process is seen to have exited is erased,  *)
(* every other one gets the sample.  Ad hoc marks without a machine go.    *)
(* Critical processes run under PIDs of their own, besides Pids; without   *)
(* any there is no pressure.                                               *)
PollActs(x) ==
  LET found      == Discovered
      stays(p)   == found[p] # NoEntry /\ ~HasExited(p, found[p])
      updated(p) == Update(found[p].machine, x, settings.machine)
  IN  /\ lock = "poll"
      /\ x > 0 => settings.critical # {}
      /\ table' = [p \in Pids |-> IF stays(p) THEN [found[p] EXCEPT !.machine = updated(p)]
                                  ELSE NoEntry]
      /\ target' = [p \in Pids |-> IF stays(p) THEN Moved(p, found[p], updated(p)) ELSE target[p]]
      /\ adhoc' = {p \in adhoc : stays(p)}
      /\ Unlock
      /\ UNCHANGED <<name, config, phase>>

(* No critical instance has a valid sample yet: the poll ends after the    *)
(* discovery.                                                              *)
PollSkips ==
  /\ lock = "poll"
  /\ settings.critical # {}
  /\ table' = Discovered
  /\ Unlock
  /\ UNCHANGED <<os, adhoc, config, phase>>

-----------------------------------------------------------------------------
(* HandleCommand(): the pipe and the dashboard until the shutdown begins,  *)
(* the controller until its client is stopped at the very end.             *)

CommandBegins(verb, targets) ==
  /\ lock = "free"
  /\ phase = "running" \/ (phase = "restored" /\ Coordinated)
  /\ targets # {} /\ \A p \in targets : Running(p)
  /\ lock' = "command"
  /\ pending' = verb
  /\ snapshot' = [p \in Pids |-> IF p \in targets THEN name[p] ELSE NoName]
  /\ UNCHANGED <<os, table, adhoc, config, phase, rewrite>>

FindByName(n) == {p \in Pids : name[p] = n}

(* A command names one PID or every process of one name. *)
CommandTargets == {{p} : p \in Pids} \cup {FindByName(n) : n \in Names}

Accepted(p) == snapshot[p] # NoName /\ snapshot[p] \notin settings.critical

(* throttle and suspend take a process that is not managed, unless it is   *)
(* protected; a machine that exists is used without asking again.          *)
ForceTo(new) ==
  LET takes(p) == Accepted(p) /\ (Managed(p) \/ ~Protects(settings, snapshot[p]))
      entry(p) == IF Managed(p) THEN table[p] ELSE NewEntry(p, snapshot[p])
      forced(p) == ForceState(entry(p).machine, new, TRUE)
  IN  /\ table' = [p \in Pids |-> IF takes(p) THEN [entry(p) EXCEPT !.machine = forced(p)]
                                  ELSE table[p]]
      /\ target' = [p \in Pids |-> IF takes(p) THEN Moved(p, entry(p), forced(p)) ELSE target[p]]
      /\ adhoc' = adhoc \cup {p \in Pids : takes(p) /\ ~Managed(p)}

Resume ==
  LET takes(p) == Accepted(p) /\ Managed(p)
      forced(p) == ForceState(table[p].machine, "normal", TRUE)
  IN  /\ table' = [p \in Pids |-> IF takes(p) THEN [table[p] EXCEPT !.machine = forced(p)]
                                  ELSE table[p]]
      /\ target' = [p \in Pids |-> IF takes(p) THEN Moved(p, table[p], forced(p)) ELSE target[p]]
      /\ UNCHANGED adhoc

Release ==
  LET takes(p)  == Accepted(p) /\ Managed(p)
      leaves(p) == takes(p) /\ p \in adhoc /\ table[p].machine.state = "normal"
  IN  /\ table' = [p \in Pids |-> IF leaves(p) THEN NoEntry
                                  ELSE IF takes(p) THEN [table[p] EXCEPT !.machine.hold = FALSE]
                                  ELSE table[p]]
      /\ adhoc' = {p \in adhoc : ~leaves(p)}
      /\ UNCHANGED target

CommandActs ==
  /\ lock = "command"
  /\ \/ pending = "throttle" /\ ForceTo("throttled")
     \/ pending = "suspend" /\ ForceTo("suspended")
     \/ pending = "resume" /\ Resume
     \/ pending = "release" /\ Release
  /\ Unlock
  /\ UNCHANGED <<name, config, phase>>

-----------------------------------------------------------------------------
(* SetRole(), from the dashboard: it reads the file, writes it back with   *)
(* one name moved to another list, and reloads at once.  An editor may     *)
(* save the file between any two of these.                                 *)

RoleLists == {"critical", "batch", "protected", "none"}

WithRole(s, n, role) ==
  [s EXCEPT !.critical  = IF role = "critical" THEN @ \cup {n} ELSE @ \ {n},
            !.batch     = IF role = "batch" THEN @ \cup {n} ELSE @ \ {n},
            !.protected = IF role = "protected" THEN @ \cup {n} ELSE @ \ {n}]

(* The bound: only rewritten contents in Settings are followed. *)
RoleReads(n, role) ==
  /\ lock = "free" /\ phase = "running"
  /\ role \in {"critical", "batch"} => n \notin Essential
  /\ LoadAndVerify(file)
  /\ WithRole(file, n, role) \in Settings
  /\ rewrite' = WithRole(file, n, role)
  /\ lock' = "role"
  /\ UNCHANGED <<os, table, adhoc, config, phase, pending, snapshot>>

RoleWrites ==
  /\ lock = "role"
  /\ file' = rewrite
  /\ edited' = TRUE
  /\ lock' = "written"
  /\ UNCHANGED <<os, table, adhoc, settings, phase, locals>>

RoleChecks ==
  /\ lock = "written"
  /\ edited' = FALSE
  /\ lock' = "recorded"
  /\ UNCHANGED <<os, table, adhoc, settings, file, phase, locals>>

RoleLoads ==
  /\ lock = "recorded"
  /\ IF LoadAndVerify(file)
     THEN ApplyConfig(file) ELSE UNCHANGED <<settings, table, target>>
  /\ Unlock
  /\ UNCHANGED <<name, adhoc, file, edited, phase>>

-----------------------------------------------------------------------------
(* Run() after the stop event: the dashboard and the pipe are stopped, the *)
(* processes restored, and only then the controller's client.              *)

Shutdown ==
  /\ phase = "running" /\ lock = "free"
  /\ phase' = "restored"
  /\ table' = [p \in Pids |-> IF Managed(p)
                              THEN [table[p] EXCEPT !.machine = ForceRecover(@)]
                              ELSE NoEntry]
  /\ target' = [p \in Pids |-> IF Managed(p)
                               THEN Moved(p, table[p], ForceRecover(table[p].machine))
                               ELSE target[p]]
  /\ UNCHANGED <<name, adhoc, config, lock, locals>>

(* The process ends; its handles close with it. *)
Exit ==
  /\ phase = "restored" /\ lock = "free"
  /\ phase' = "stopped"
  /\ table' = [p \in Pids |-> NoEntry]
  /\ adhoc' = {}
  /\ UNCHANGED <<os, config, lock, locals>>

Poll == PollBegins \/ PollLoads \/ (\E x \in Pressures : PollActs(x)) \/ PollSkips

SetRole ==
  \/ \E n \in Names, role \in RoleLists : RoleReads(n, role)
  \/ RoleWrites \/ RoleChecks \/ RoleLoads

Next ==
  \/ \E p \in Pids, n \in Names : ProcessStarts(p, n)
  \/ \E p \in Pids : ProcessExits(p)
  \/ \E content \in Settings \cup {Broken} : EditFile(content)
  \/ Load
  \/ RecordAttributes
  \/ Poll
  \/ \E verb \in Verbs, targets \in CommandTargets : CommandBegins(verb, targets)
  \/ CommandActs
  \/ SetRole
  \/ Shutdown
  \/ Exit

Spec == Init /\ [][Next]_vars

(* A critical section runs to its end, and the loop polls again and again  *)
(* as long as the service runs; a command may hold mutex_ whenever the     *)
(* next poll is due, so the poll needs strong fairness.                    *)
Fairness ==
  /\ WF_vars(Load) /\ WF_vars(RecordAttributes)
  /\ SF_vars(PollBegins)
  /\ WF_vars(PollLoads)
  /\ WF_vars((\E x \in Pressures : PollActs(x)) \/ PollSkips)
  /\ WF_vars(CommandActs)
  /\ WF_vars(RoleWrites \/ RoleChecks \/ RoleLoads)

FairSpec == Spec /\ Fairness

-----------------------------------------------------------------------------
(* Every variable stays in its range. *)
TypeOK ==
  /\ name \in [Pids -> Names \cup {NoName}]
  /\ target \in [Pids -> Targets]
  /\ table \in [Pids -> Entries \cup {NoEntry}]
  /\ adhoc \subseteq Pids
  /\ settings \in Settings
  /\ file \in Settings \cup {Broken}
  /\ edited \in BOOLEAN
  /\ phase \in {"starting", "loaded", "running", "restored", "stopped"}
  /\ lock \in {"free", "reload", "poll", "command", "role", "written", "recorded"}
  /\ pending \in Verbs \cup {"none", "reload"}
  /\ snapshot \in [Pids -> Names \cup {NoName}]
  /\ rewrite \in Settings \cup {Broken}

(* Nothing is left behind: a process no machine looks after, whether it    *)
(* was dropped by a reload, released, given a protected name's PID or      *)
(* never managed, runs unsuspended and above idle, and so does every       *)
(* process once the service has stopped (README.md:65, Daemon.h:47-48).    *)
NothingLeftBehind ==
  \A p \in Pids : Running(p) /\ ~Managed(p) => Untouched(target[p])

(* A machine with a handle and its process agree on the state, and no      *)
(* thread is ever suspended twice, across commands, reloads and restarts.  *)
TableAgreement ==
  \A p \in Pids :
    /\ target[p].suspended <= 1
    /\ Running(p) /\ Managed(p) /\ table[p].handle =>
         /\ table[p].machine.state = "suspended" <=> target[p].suspended = 1
         /\ table[p].machine.state = "throttled" => target[p].priority = "idle"
         /\ table[p].machine.state = "normal" => Untouched(target[p])

(* Essential and protected processes are never managed (README.md:131)     *)
(* under their own name: not by a reload that protects a managed name, a   *)
(* discovery or a command.  Processes come and go between a snapshot and   *)
(* its use, so one can be reached under the name of the process it has     *)
(* replaced before, or after, AddBatchProcess() opened the PID.            *)
OnlyMistaken ==
  \A p \in Pids : Protects(settings, name[p]) /\ ~Untouched(target[p]) =>
    Managed(p) /\ table[p].name # name[p]

(* The automatic logic never fights an operator: a held machine and its    *)
(* process change only by the next command, or by leaving the operator's   *)
(* reach through a reload, the shutdown or the process's exit              *)
(* (README.md:289).                                                        *)
OperatorWins ==
  [][\A p \in Pids :
       (Managed(p) /\ table[p].machine.hold /\ lock # "command") =>
         \/ Managed(p)' /\ UNCHANGED <<target[p], table[p].machine.state, table[p].machine.hold>>
         \/ ~Managed(p)' /\ (table[p].name \notin settings'.batch
                             \/ Protects(settings', table[p].name))
         \/ phase' # phase
         \/ ~Running(p) \/ ~Running(p)']_vars

(* An edit of the file that the running service has not yet seen is the    *)
(* configuration in force sooner or later, unless it is invalid, edited    *)
(* again or the service stops (README.md:295).                             *)
PendingEditApplies ==
  \A s \in Settings :
    (phase = "running" /\ edited /\ file = s)
      ~> (settings = s \/ file # s \/ phase # "running")

(* When Run() returns, every process has been restored (Daemon.h:47-48).   *)
RestoredAtExit ==
  phase = "stopped" => \A p \in Pids : Running(p) => Untouched(target[p])
=============================================================================
