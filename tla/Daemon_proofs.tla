---------------------------- MODULE Daemon_proofs -----------------------------
(***************************************************************************)
(* Proofs about the service core, for any processes, names, roles and      *)
(* configurations.                                                         *)
(***************************************************************************)
EXTENDS Daemon, TLAPS

-----------------------------------------------------------------------------
(* Machines and processes.                                                 *)

LEMMA CountMachine ==
  ASSUME NEW m \in Machines, NEW x, NEW c
  PROVE  /\ Count(m, x, c) \in Machines
         /\ Count(m, x, c).state = m.state /\ Count(m, x, c).hold = m.hold
<1>1. /\ Streak(m.high, x >= c.throttle) \in 0 .. CounterCap
      /\ Streak(m.critical, x >= c.escalate) \in 0 .. CounterCap
      /\ Streak(m.low, x < c.recover) \in 0 .. CounterCap
  BY MachineAssumption DEF Streak, Machines
<1> QED
  BY <1>1 DEF Count, Machines

LEMMA MoveToMachine ==
  ASSUME NEW m \in Machines, NEW new \in States
  PROVE  MoveTo(m, new) \in Machines /\ MoveTo(m, new).state = new
BY MachineAssumption DEF MoveTo, Machines

(* Update() leaves a held machine where it is. *)
LEMMA UpdateMachine ==
  ASSUME NEW m \in Machines, NEW x, NEW c
  PROVE  /\ Update(m, x, c) \in Machines
         /\ m.hold => Update(m, x, c).state = m.state /\ Update(m, x, c).hold = m.hold
<1> DEFINE counted == Count(m, x, c)
           due == Due(counted, c)
<1>1. counted \in Machines /\ counted.state = m.state /\ counted.hold = m.hold
  BY CountMachine
<1>2. due \in States /\ (m.hold => due = m.state)
  <2> HIDE DEF counted
  <2> QED
    BY <1>1 DEF Due, Machines, States
<1>3. MoveTo(counted, due) \in Machines
  BY <1>1, <1>2, MoveToMachine
<1>4. Update(m, x, c) = IF due = m.state THEN counted ELSE MoveTo(counted, due)
  BY DEF Update
<1> HIDE DEF counted, due
<1> QED
  BY <1>1, <1>2, <1>3, <1>4

LEMMA ForceStateMachine ==
  ASSUME NEW m \in Machines, NEW new \in States, NEW hold \in BOOLEAN
  PROVE  ForceState(m, new, hold) \in Machines /\ ForceState(m, new, hold).state = new
<1>1. [m EXCEPT !.hold = hold] \in Machines /\ [m EXCEPT !.hold = hold].state = m.state
  BY DEF Machines
<1> QED
  BY <1>1, MoveToMachine DEF ForceState

LEMMA ForceRecoverMachine ==
  ASSUME NEW m \in Machines
  PROVE  ForceRecover(m) \in Machines /\ ForceRecover(m).state = "normal"
BY ForceStateMachine DEF ForceRecover, States

-----------------------------------------------------------------------------
(* The inductive invariant.                                                *)

(* What a machine's state says of its process: one suspension at most, and *)
(* none but a suspended machine's; a machine without a handle may have a   *)
(* process that it has not touched yet.                                    *)
Agrees(e, t) ==
  /\ e.machine.state # "suspended" => t.suspended = 0
  /\ e.machine.state = "normal" => t.priority # "idle"
  /\ e.handle /\ e.machine.state = "suspended" => t.suspended = 1
  /\ e.handle /\ e.machine.state = "throttled" => t.priority = "idle"

(* The process under p, whose target is t, and what the service knows of   *)
(* it, e.                                                                  *)
Settled(p, e, t) ==
  /\ t \in Targets /\ t.suspended <= 1
  /\ ~Running(p) => t = Fresh
  /\ Running(p) /\ e # NoEntry => Agrees(e, t)

(* Every process is settled; none is managed under a protected name, and   *)
(* none is left behind unless the controller's command came too late.      *)
Looked ==
  /\ \A p \in Pids : Settled(p, table[p], target[p])
  /\ ~(Coordinated /\ phase = "stopped") => NothingLeftBehind
  /\ \A p \in Pids : Managed(p) => ~Protects(settings, table[p].name)

(* Where the service is in its life. *)
Phases ==
  /\ lock # "free" => phase = "running" \/ (phase = "restored" /\ Coordinated)
  /\ phase \in {"starting", "stopped"} => \A p \in Pids : ~Managed(p)
  /\ phase = "restored" /\ ~Coordinated =>
       \A p \in Pids : Managed(p) => table[p].machine.state = "normal"

IInv == TypeOK /\ Looked /\ Phases

(* The calls of one transition, on a process that agreed. *)
LEMMA MovedSettles ==
  ASSUME NEW p \in Pids, target[p] \in Targets, target[p].suspended <= 1,
         ~Running(p) => target[p] = Fresh,
         NEW e \in Entries, NEW m \in Machines, Running(p) => Agrees(e, target[p])
  PROVE  Settled(p, [e EXCEPT !.machine = m], Moved(p, e, m))
<1> DEFINE t == target[p]
           new == [e EXCEPT !.machine = m]
<1>1. new.machine = m /\ new.handle = e.handle /\ m.state \in States /\ e.machine.state \in States
  BY DEF Entries, Machines
<1>2. CASE ~Running(p)
  BY <1>2 DEF Settled, Moved
<1>3. CASE Running(p) /\ m.state = e.machine.state
  BY <1>1, <1>3 DEF Settled, Moved, Agrees
<1>4. CASE Running(p) /\ m.state # e.machine.state
  <2> DEFINE u == Actuate(t, e.machine.state, m.state, Works)
  <2>1. Moved(p, e, m) = u
    BY <1>4 DEF Moved
  <2>2. t.suspended \in {0, 1} /\ t.priority \in {"high", "normal", "idle"}
    BY DEF Targets
  <2>3. /\ u.suspended = IF m.state = "suspended" THEN t.suspended + 1
                         ELSE IF e.machine.state = "suspended" THEN 0 ELSE t.suspended
        /\ u.priority = IF m.state = "suspended" THEN t.priority
                        ELSE IF m.state = "throttled" THEN "idle" ELSE "normal"
        /\ u = [suspended |-> u.suspended, priority |-> u.priority]
    <3>1. t.suspended < MaxSuspendCount \/ (m.state = "suspended" => t.suspended # 0)
      BY <2>2, MachineAssumption
    <3>2. m.state = "suspended" => t.suspended = 0
      BY <1>4 DEF Agrees
    <3> QED
      BY <2>2, <3>1, <3>2, MachineAssumption DEF Actuate, Works, SuspendThread, ResumeThread
  <2>4. u \in Targets /\ u.suspended <= 1
    BY <2>2, <2>3, <1>4, MachineAssumption DEF Agrees, Targets
  <2>5. Agrees(new, u)
    <3> HIDE DEF u, new
    <3> QED
      BY <2>2, <2>3, <1>1, <1>4 DEF Agrees, States
  <2> QED
    BY <1>4, <2>1, <2>4, <2>5 DEF Settled
<1> QED
  BY <1>2, <1>3, <1>4

(* A new machine is right about a process nobody has touched. *)
LEMMA NewEntrySettles ==
  ASSUME NEW p \in Pids, NEW n \in Names,
         Settled(p, NoEntry, target[p]), Running(p) => Untouched(target[p])
  PROVE  /\ NewEntry(p, n) \in Entries /\ NewEntry(p, n) # NoEntry
         /\ NewEntry(p, n).name = n
         /\ Running(p) => Agrees(NewEntry(p, n), target[p])
<1>1. NewMachine \in Machines /\ NewMachine.state = "normal"
  BY MachineAssumption DEF NewMachine, Machines, States
<1>2. NewEntry(p, n) \in Entries
  BY <1>1 DEF NewEntry, Entries, Running
<1>3. NewEntry(p, n) # NoEntry
  BY <1>2, DaemonAssumption DEF Entries
<1>4. /\ NewEntry(p, n).machine = NewMachine /\ NewEntry(p, n).name = n
      /\ NewEntry(p, n).handle = Running(p)
  BY DEF NewEntry
<1>5. Running(p) => target[p].suspended = 0 /\ target[p].priority # "idle"
  BY DEF Untouched
<1> QED
  BY <1>1, <1>2, <1>3, <1>4, <1>5 DEF Agrees

-----------------------------------------------------------------------------
(* What a step of the service may do to the machine and the process of one *)
(* PID.                                                                    *)

Keeps(p) == table'[p] = table[p] /\ target'[p] = target[p]

(* A machine of the table, or a new one for an unprotected name. *)
Known(p, e) ==
  \/ Managed(p) /\ e = table[p]
  \/ ~Managed(p) /\ \E n \in Names : ~Protects(settings, n) /\ e = NewEntry(p, n)

Moves(p) ==
  \E e \in Entries, m \in Machines :
    /\ Known(p, e)
    /\ table'[p] = [e EXCEPT !.machine = m]
    /\ target'[p] = Moved(p, e, m)

LetsGo(p) ==
  /\ Managed(p) /\ table'[p] = NoEntry
  /\ \E m \in Machines : m.state = "normal" /\ target'[p] = Moved(p, table[p], m)

Erases(p) == table'[p] = NoEntry /\ ~Running(p) /\ target'[p] = target[p]

Handles(p) == Keeps(p) \/ Moves(p) \/ LetsGo(p) \/ Erases(p)

(* Such a step leaves the process settled, and behind nothing. *)
LEMMA OneStep ==
  ASSUME TypeOK, NothingLeftBehind, NEW p \in Pids, Settled(p, table[p], target[p]),
         Managed(p) => ~Protects(settings, table[p].name),
         name' = name, Handles(p)
  PROVE  /\ table'[p] \in Entries \cup {NoEntry}
         /\ Settled(p, table[p], target[p])'
         /\ Running(p)' /\ ~Managed(p)' => Untouched(target'[p])
         /\ Managed(p)' => ~Protects(settings, table'[p].name)
<1>1. Running(p)' <=> Running(p)
  BY DEF Running
<1>2. table[p] \in Entries \cup {NoEntry} /\ (Managed(p) => table[p] \in Entries)
  BY DEF TypeOK, Managed
<1>3. CASE Keeps(p)
  BY <1>1, <1>2, <1>3 DEF Keeps, Settled, NothingLeftBehind, Managed
<1>4. CASE Moves(p)
  <2>1. PICK e \in Entries, m \in Machines :
          /\ Known(p, e)
          /\ table'[p] = [e EXCEPT !.machine = m]
          /\ target'[p] = Moved(p, e, m)
    BY <1>4 DEF Moves
  <2>2. ~Managed(p) => Settled(p, NoEntry, target[p]) /\ (Running(p) => Untouched(target[p]))
    BY DEF Managed, NothingLeftBehind, Settled
  <2>3. (Running(p) => Agrees(e, target[p])) /\ ~Protects(settings, e.name)
    <3>1. CASE Managed(p) /\ e = table[p]
      BY <3>1 DEF Settled, Managed
    <3>2. ASSUME ~Managed(p), NEW n \in Names, ~Protects(settings, n), e = NewEntry(p, n)
          PROVE  (Running(p) => Agrees(e, target[p])) /\ ~Protects(settings, e.name)
      BY <2>2, <3>2, NewEntrySettles
    <3> QED
      BY <2>1, <3>1, <3>2 DEF Known
  <2>4. Settled(p, table'[p], target'[p])
    BY <2>1, <2>3, MovedSettles DEF Settled
  <2>5. table'[p] \in Entries /\ table'[p].name = e.name /\ table'[p] # NoEntry
    BY <2>1, DaemonAssumption DEF Entries
  <2> QED
    BY <1>1, <2>3, <2>4, <2>5 DEF Settled, Managed
<1>5. CASE LetsGo(p)
  <2>1. PICK m \in Machines : m.state = "normal" /\ target'[p] = Moved(p, table[p], m)
    BY <1>5 DEF LetsGo
  <2>2. Managed(p) /\ table'[p] = NoEntry
    BY <1>5 DEF LetsGo
  <2> DEFINE e == [table[p] EXCEPT !.machine = m]
  <2>3. Settled(p, e, target'[p]) /\ e.machine = m /\ e # NoEntry
    BY <2>1, <2>2, <1>2, MovedSettles, DaemonAssumption DEF Settled, Managed, Entries
  <2>4. Settled(p, NoEntry, target'[p]) /\ (Running(p) => Untouched(target'[p]))
    <3> HIDE DEF e
    <3> QED
      BY <2>1, <2>3 DEF Settled, Agrees, Untouched
  <2> QED
    BY <1>1, <2>2, <2>4 DEF Settled, Managed
<1>6. CASE Erases(p)
  BY <1>1, <1>6 DEF Erases, Settled, Managed
<1> QED
  BY <1>3, <1>4, <1>5, <1>6 DEF Handles

(* And so does a step that makes such steps for every PID. *)
LEMMA AllStep ==
  ASSUME TypeOK, Looked, ~(Coordinated /\ phase = "stopped"), name' = name,
         table' = [p \in Pids |-> table'[p]], target' = [p \in Pids |-> target'[p]],
         \A p \in Pids : Handles(p)
  PROVE  /\ table' \in [Pids -> Entries \cup {NoEntry}] /\ target' \in [Pids -> Targets]
         /\ (\A p \in Pids : Settled(p, table[p], target[p]))'
         /\ NothingLeftBehind'
         /\ \A p \in Pids : Managed(p)' => ~Protects(settings, table'[p].name)
<1>1. ASSUME NEW p \in Pids
      PROVE  /\ table'[p] \in Entries \cup {NoEntry}
             /\ Settled(p, table[p], target[p])'
             /\ Running(p)' /\ ~Managed(p)' => Untouched(target'[p])
             /\ Managed(p)' => ~Protects(settings, table'[p].name)
  BY OneStep DEF Looked
<1>2. ASSUME NEW p \in Pids PROVE target'[p] \in Targets
  BY <1>1 DEF Settled
<1> QED
  BY <1>1, <1>2 DEF NothingLeftBehind

-----------------------------------------------------------------------------
(* The steps of the outside world, and those that leave machines and       *)
(* processes alone.                                                        *)

LEMMA StartsStep ==
  ASSUME IInv, NEW p \in Pids, NEW n \in Names, ProcessStarts(p, n)
  PROVE  IInv'
<1>1. /\ ~Running(p) /\ (Managed(p) => ~table[p].handle)
      /\ name' = [name EXCEPT ![p] = n] /\ target' = [target EXCEPT ![p] = Fresh]
      /\ UNCHANGED <<table, adhoc, settings, file, edited, phase, lock, pending, snapshot, rewrite>>
  BY DEF ProcessStarts, config, locals
<1>2. Fresh \in Targets /\ Fresh.suspended = 0 /\ Fresh.priority = "normal"
  BY MachineAssumption DEF Fresh, Targets
<1>3. TypeOK'
  BY <1>1, <1>2 DEF IInv, TypeOK
<1>4. ASSUME NEW q \in Pids
      PROVE  /\ Settled(q, table[q], target[q])'
             /\ ~(Coordinated /\ phase = "stopped") =>
                  (Running(q)' /\ ~Managed(q)' => Untouched(target'[q]))
             /\ Managed(q)' => ~Protects(settings', table'[q].name)
  <2>1. CASE q = p
    <3>1. target'[q] = Fresh
      BY <1>1, <2>1 DEF IInv, TypeOK
    <3>2. Managed(q) => Agrees(table[q], Fresh)
      <4>1. Managed(q) => table[q].handle = FALSE
        BY <1>1, <2>1 DEF IInv, TypeOK, Managed, Entries
      <4> QED
        BY <1>2, <4>1 DEF Agrees
    <3> QED
      BY <1>1, <1>2, <3>1, <3>2 DEF Settled, Managed, Untouched, IInv, Looked
  <2>2. CASE q # p
    <3>1. name'[q] = name[q] /\ target'[q] = target[q]
      BY <1>1, <2>2 DEF IInv, TypeOK
    <3> QED
      BY <1>1, <3>1 DEF Settled, Managed, Running, IInv, Looked, NothingLeftBehind
  <2> QED
    BY <2>1, <2>2
<1>5. Looked'
  BY <1>1, <1>4 DEF Looked, NothingLeftBehind
<1>6. Phases'
  BY <1>1 DEF IInv, Phases, Managed
<1> QED
  BY <1>3, <1>5, <1>6 DEF IInv

LEMMA ExitsStep ==
  ASSUME IInv, NEW p \in Pids, ProcessExits(p)
  PROVE  IInv'
<1>1. /\ name' = [name EXCEPT ![p] = NoName] /\ target' = [target EXCEPT ![p] = Fresh]
      /\ UNCHANGED <<table, adhoc, settings, file, edited, phase, lock, pending, snapshot, rewrite>>
  BY DEF ProcessExits, config, locals
<1>2. Fresh \in Targets /\ Fresh.suspended = 0
  BY MachineAssumption DEF Fresh, Targets
<1>3. TypeOK'
  BY <1>1, <1>2 DEF IInv, TypeOK
<1>4. ASSUME NEW q \in Pids
      PROVE  /\ Settled(q, table[q], target[q])'
             /\ ~(Coordinated /\ phase = "stopped") =>
                  (Running(q)' /\ ~Managed(q)' => Untouched(target'[q]))
             /\ Managed(q)' => ~Protects(settings', table'[q].name)
  <2>1. CASE q = p
    <3>1. target'[q] = Fresh /\ name'[q] = NoName
      BY <1>1, <2>1 DEF IInv, TypeOK
    <3> QED
      BY <1>1, <1>2, <3>1 DEF Settled, Managed, Running, IInv, Looked
  <2>2. CASE q # p
    <3>1. name'[q] = name[q] /\ target'[q] = target[q]
      BY <1>1, <2>2 DEF IInv, TypeOK
    <3> QED
      BY <1>1, <3>1 DEF Settled, Managed, Running, IInv, Looked, NothingLeftBehind
  <2> QED
    BY <2>1, <2>2
<1>5. Looked'
  BY <1>1, <1>4 DEF Looked, NothingLeftBehind
<1>6. Phases'
  BY <1>1 DEF IInv, Phases, Managed
<1> QED
  BY <1>3, <1>5, <1>6 DEF IInv

LEMMA QuietStep ==
  ASSUME Looked, UNCHANGED <<name, target, table>>,
         phase = "stopped" => phase' = "stopped",
         settings' = settings \/ \A p \in Pids : ~Managed(p)
  PROVE  Looked'
BY DEF Looked, Settled, Running, Managed, NothingLeftBehind

(* Loading, recording, and the beginnings of the critical sections. *)
LEMMA BeginningsStep ==
  ASSUME IInv,
         \/ \E content \in Settings \cup {Broken} : EditFile(content)
         \/ Load \/ RecordAttributes \/ PollBegins
         \/ \E verb \in Verbs, targets \in CommandTargets : CommandBegins(verb, targets)
         \/ \E n \in Names, role \in RoleLists : RoleReads(n, role)
         \/ RoleWrites \/ RoleChecks
  PROVE  IInv'
<1>1. CASE \E content \in Settings \cup {Broken} : EditFile(content)
  <2>1. UNCHANGED <<os, table, adhoc, settings, phase, lock, locals>>
    BY <1>1 DEF EditFile
  <2>2. TypeOK'
    BY <1>1, <2>1 DEF EditFile, os, locals, IInv, TypeOK
  <2>3. Looked' /\ Phases'
    BY <2>1, QuietStep DEF os, IInv, Phases, Managed
  <2> QED
    BY <2>2, <2>3 DEF IInv
<1>2. CASE Load
  <2>1. /\ phase = "starting" /\ phase' = "loaded" /\ settings' = file /\ file \in Settings
        /\ UNCHANGED <<os, table, adhoc, file, edited, lock, locals>>
    BY <1>2 DEF Load, LoadAndVerify
  <2>2. TypeOK'
    BY <2>1 DEF os, locals, IInv, TypeOK
  <2>3. \A p \in Pids : ~Managed(p)
    BY <2>1 DEF IInv, Phases
  <2>4. Looked' /\ Phases'
    BY <2>1, <2>3, QuietStep DEF os, IInv, Phases, Managed
  <2> QED
    BY <2>2, <2>4 DEF IInv
<1>3. CASE RecordAttributes
  <2>1. /\ phase = "loaded" /\ phase' = "running" /\ edited' = FALSE
        /\ UNCHANGED <<os, table, adhoc, settings, file, lock, locals>>
    BY <1>3 DEF RecordAttributes
  <2>2. TypeOK'
    BY <2>1 DEF os, locals, IInv, TypeOK
  <2>3. Looked' /\ Phases'
    BY <2>1, QuietStep DEF os, IInv, Phases, Managed
  <2> QED
    BY <2>2, <2>3 DEF IInv
<1>4. CASE PollBegins
  <2>1. /\ phase = "running" /\ lock' = "reload" /\ pending' \in {"reload", "none"}
        /\ edited' = FALSE
        /\ UNCHANGED <<os, table, adhoc, settings, file, phase, snapshot, rewrite>>
    BY <1>4 DEF PollBegins
  <2>2. TypeOK'
    BY <2>1 DEF os, IInv, TypeOK
  <2>3. Looked' /\ Phases'
    BY <2>1, QuietStep DEF os, IInv, Phases, Managed
  <2> QED
    BY <2>2, <2>3 DEF IInv
<1>5. ASSUME NEW verb \in Verbs, NEW targets \in CommandTargets, CommandBegins(verb, targets)
      PROVE  IInv'
  <2>1. /\ phase = "running" \/ (phase = "restored" /\ Coordinated)
        /\ lock' = "command" /\ pending' = verb
        /\ snapshot' = [p \in Pids |-> IF p \in targets THEN name[p] ELSE NoName]
        /\ UNCHANGED <<os, table, adhoc, config, phase, rewrite>>
    BY <1>5 DEF CommandBegins
  <2>2. TypeOK'
    BY <2>1 DEF os, config, IInv, TypeOK
  <2>3. Looked' /\ Phases'
    BY <2>1, QuietStep DEF os, config, IInv, Phases, Managed
  <2> QED
    BY <2>2, <2>3 DEF IInv
<1>6. ASSUME NEW n \in Names, NEW role \in RoleLists, RoleReads(n, role)
      PROVE  IInv'
  <2>1. /\ phase = "running" /\ rewrite' \in Settings /\ lock' = "role"
        /\ UNCHANGED <<os, table, adhoc, config, phase, pending, snapshot>>
    BY <1>6 DEF RoleReads
  <2>2. TypeOK'
    BY <2>1 DEF os, config, IInv, TypeOK
  <2>3. Looked' /\ Phases'
    BY <2>1, QuietStep DEF os, config, IInv, Phases, Managed
  <2> QED
    BY <2>2, <2>3 DEF IInv
<1>7. CASE RoleWrites
  <2>1. /\ lock = "role" /\ file' = rewrite /\ edited' = TRUE /\ lock' = "written"
        /\ UNCHANGED <<os, table, adhoc, settings, phase, locals>>
    BY <1>7 DEF RoleWrites
  <2>2. TypeOK'
    BY <2>1 DEF os, locals, IInv, TypeOK
  <2>3. Looked' /\ Phases'
    BY <2>1, QuietStep DEF os, IInv, Phases, Managed
  <2> QED
    BY <2>2, <2>3 DEF IInv
<1>8. CASE RoleChecks
  <2>1. /\ lock = "written" /\ edited' = FALSE /\ lock' = "recorded"
        /\ UNCHANGED <<os, table, adhoc, settings, file, phase, locals>>
    BY <1>8 DEF RoleChecks
  <2>2. TypeOK'
    BY <2>1 DEF os, locals, IInv, TypeOK
  <2>3. Looked' /\ Phases'
    BY <2>1, QuietStep DEF os, IInv, Phases, Managed
  <2> QED
    BY <2>2, <2>3 DEF IInv
<1> QED
  BY <1>1, <1>2, <1>3, <1>4, <1>5, <1>6, <1>7, <1>8

-----------------------------------------------------------------------------
(* The steps that drive machines and processes.                            *)

LEMMA RolesOf ==
  ASSUME NEW s \in Settings
  PROVE  s.batch \subseteq Names /\ s.protected \subseteq Names
BY DaemonAssumption

(* A reload, in a critical section. *)
LEMMA ApplyStep ==
  ASSUME IInv, lock # "free", UNCHANGED <<name, phase>>,
         (file \in Settings /\ ApplyConfig(file)) \/ UNCHANGED <<settings, table, target>>
  PROVE  /\ settings' \in Settings
         /\ table' \in [Pids -> Entries \cup {NoEntry}] /\ target' \in [Pids -> Targets]
         /\ Looked'
<1>1. phase = "running" \/ (phase = "restored" /\ Coordinated)
  BY DEF IInv, Phases
<1>2. CASE UNCHANGED <<settings, table, target>>
  BY <1>1, <1>2, QuietStep DEF IInv, TypeOK
<1>3. CASE file \in Settings /\ ApplyConfig(file)
  <2>1. /\ settings' = file
        /\ table' = [p \in Pids |-> IF p \in Dropped(file) THEN NoEntry ELSE table[p]]
        /\ target' = [p \in Pids |-> IF p \in Dropped(file)
                                     THEN Moved(p, table[p], ForceRecover(table[p].machine))
                                     ELSE target[p]]
    BY <1>3 DEF ApplyConfig
  <2>2. ASSUME NEW p \in Pids PROVE Handles(p)
    <3>1. CASE p \notin Dropped(file)
      BY <2>1, <3>1 DEF Handles, Keeps
    <3>2. CASE p \in Dropped(file)
      <4>1. Managed(p) /\ table[p] \in Entries
        BY <3>2 DEF Dropped, Managed, IInv, TypeOK
      <4>2. ForceRecover(table[p].machine) \in Machines
            /\ ForceRecover(table[p].machine).state = "normal"
        BY <4>1, ForceRecoverMachine DEF Entries
      <4> QED
        BY <2>1, <3>2, <4>1, <4>2 DEF Handles, LetsGo
    <3> QED
      BY <3>1, <3>2
  <2>3. /\ table' = [p \in Pids |-> table'[p]] /\ target' = [p \in Pids |-> target'[p]]
    BY <2>1
  <2>4. /\ table' \in [Pids -> Entries \cup {NoEntry}] /\ target' \in [Pids -> Targets]
        /\ (\A p \in Pids : Settled(p, table[p], target[p]))'
        /\ NothingLeftBehind'
    BY <1>1, <2>2, <2>3, AllStep DEF IInv
  <2>5. ASSUME NEW p \in Pids, Managed(p)'
        PROVE  ~Protects(settings', table'[p].name)
    <3>1. p \notin Dropped(file) /\ table'[p] = table[p] /\ Managed(p)
      BY <2>1, <2>5 DEF Managed
    <3> QED
      BY <2>1, <3>1 DEF Dropped
  <2> QED
    BY <1>3, <2>1, <2>4, <2>5 DEF Looked
<1> QED
  BY <1>2, <1>3

LEMMA LoadsStep ==
  ASSUME IInv, PollLoads \/ RoleLoads
  PROVE  IInv'
<1>1. CASE PollLoads
  <2>1. /\ lock = "reload"
        /\ (file \in Settings /\ ApplyConfig(file)) \/ UNCHANGED <<settings, table, target>>
        /\ snapshot' = name /\ pending' = "none" /\ lock' = "poll"
        /\ UNCHANGED <<name, adhoc, file, edited, phase, rewrite>>
    BY <1>1 DEF PollLoads, LoadAndVerify
  <2>2. /\ settings' \in Settings
        /\ table' \in [Pids -> Entries \cup {NoEntry}] /\ target' \in [Pids -> Targets]
        /\ Looked'
    BY <2>1, ApplyStep
  <2>3. TypeOK'
    BY <2>1, <2>2 DEF IInv, TypeOK
  <2>4. Phases'
    BY <2>1 DEF IInv, Phases
  <2> QED
    BY <2>2, <2>3, <2>4 DEF IInv
<1>2. CASE RoleLoads
  <2>1. /\ lock = "recorded"
        /\ (file \in Settings /\ ApplyConfig(file)) \/ UNCHANGED <<settings, table, target>>
        /\ snapshot' = EmptySnapshot /\ pending' = "none" /\ lock' = "free" /\ rewrite' = Broken
        /\ UNCHANGED <<name, adhoc, file, edited, phase>>
    BY <1>2 DEF RoleLoads, LoadAndVerify, Unlock
  <2>2. /\ settings' \in Settings
        /\ table' \in [Pids -> Entries \cup {NoEntry}] /\ target' \in [Pids -> Targets]
        /\ Looked'
    BY <2>1, ApplyStep
  <2>3. TypeOK'
    BY <2>1, <2>2 DEF IInv, TypeOK, EmptySnapshot
  <2>4. Phases'
    BY <2>1 DEF IInv, Phases
  <2> QED
    BY <2>2, <2>3, <2>4 DEF IInv
<1> QED
  BY <1>1, <1>2

(* A step of a section that ends it, PID by PID. *)
LEMMA SectionEnds ==
  ASSUME IInv, lock # "free", Unlock, UNCHANGED <<name, config, phase>>, adhoc' \subseteq Pids,
         table' = [p \in Pids |-> table'[p]], target' = [p \in Pids |-> target'[p]],
         \A p \in Pids : Handles(p)
  PROVE  IInv'
<1>1. phase = "running" \/ (phase = "restored" /\ Coordinated)
  BY DEF IInv, Phases
<1>2. /\ table' \in [Pids -> Entries \cup {NoEntry}] /\ target' \in [Pids -> Targets]
      /\ (\A p \in Pids : Settled(p, table[p], target[p]))'
      /\ NothingLeftBehind'
      /\ \A p \in Pids : Managed(p)' => ~Protects(settings, table'[p].name)
  BY <1>1, AllStep DEF IInv
<1>3. TypeOK'
  BY <1>2 DEF IInv, TypeOK, Unlock, config, EmptySnapshot
<1>4. Looked'
  BY <1>2 DEF Looked, config
<1>5. Phases'
  BY <1>1 DEF Unlock, Phases
<1> QED
  BY <1>3, <1>4, <1>5 DEF IInv

(* What the discovery finds under p. *)
LEMMA DiscoveredKnown ==
  ASSUME IInv, lock = "poll", NEW p \in Pids
  PROVE  /\ Discovered[p] \in Entries \cup {NoEntry}
         /\ Discovered[p] # NoEntry => Discovered[p] \in Entries /\ Known(p, Discovered[p])
         /\ Discovered[p] = NoEntry => ~Managed(p)
         /\ Managed(p) => Discovered[p] = table[p]
<1>1. table[p] \in Entries \cup {NoEntry} /\ settings \in Settings
  BY DEF IInv, TypeOK
<1>2. NothingLeftBehind
  BY DEF IInv, Looked, Phases
<1>3. CASE Managed(p)
  BY <1>1, <1>3 DEF Discovered, Known, Managed
<1>4. CASE ~Managed(p) /\ snapshot[p] \in settings.batch /\ ~Protects(settings, snapshot[p])
  <2>1. snapshot[p] \in Names
    BY <1>1, <1>4, RolesOf
  <2>2. Settled(p, NoEntry, target[p]) /\ (Running(p) => Untouched(target[p]))
    BY <1>2, <1>4 DEF IInv, Looked, Managed, NothingLeftBehind
  <2>3. Discovered[p] = NewEntry(p, snapshot[p])
    BY <1>4 DEF Discovered
  <2>4. NewEntry(p, snapshot[p]) \in Entries /\ NewEntry(p, snapshot[p]) # NoEntry
    BY <2>1, <2>2, NewEntrySettles
  <2> QED
    BY <1>4, <2>1, <2>3, <2>4 DEF Known
<1>5. CASE ~Managed(p) /\ ~(snapshot[p] \in settings.batch /\ ~Protects(settings, snapshot[p]))
  BY <1>1, <1>5 DEF Discovered, Managed
<1> QED
  BY <1>3, <1>4, <1>5

(* UpdateAll(): every machine of the table and every one discovered. *)
LEMMA PollActsStep ==
  ASSUME IInv, NEW x, PollActs(x)
  PROVE  IInv'
<1> DEFINE stays(p)   == Discovered[p] # NoEntry /\ ~HasExited(p, Discovered[p])
           updated(p) == Update(Discovered[p].machine, x, settings.machine)
<1>1. /\ lock = "poll" /\ Unlock /\ UNCHANGED <<name, config, phase>>
      /\ table' = [p \in Pids |-> IF stays(p) THEN [Discovered[p] EXCEPT !.machine = updated(p)]
                                  ELSE NoEntry]
      /\ target' = [p \in Pids |-> IF stays(p) THEN Moved(p, Discovered[p], updated(p))
                                   ELSE target[p]]
      /\ adhoc' \subseteq Pids
  BY DEF PollActs, IInv, TypeOK
<1>2. ASSUME NEW p \in Pids PROVE Handles(p)
  <2>1. /\ table'[p] = IF stays(p) THEN [Discovered[p] EXCEPT !.machine = updated(p)] ELSE NoEntry
        /\ target'[p] = IF stays(p) THEN Moved(p, Discovered[p], updated(p)) ELSE target[p]
    BY <1>1
  <2>2. /\ Discovered[p] # NoEntry => Discovered[p] \in Entries /\ Known(p, Discovered[p])
        /\ Discovered[p] = NoEntry => ~Managed(p)
    BY <1>1, DiscoveredKnown
  <2>3. CASE Discovered[p] = NoEntry
    BY <2>1, <2>2, <2>3 DEF Handles, Keeps, Managed
  <2>4. CASE Discovered[p] # NoEntry /\ HasExited(p, Discovered[p])
    BY <2>1, <2>4 DEF Handles, Erases, HasExited
  <2>5. CASE stays(p)
    <3>1. updated(p) \in Machines
      BY <2>2, <2>5, UpdateMachine DEF Entries
    <3> QED
      BY <2>1, <2>2, <2>5, <3>1 DEF Handles, Moves
  <2> QED
    BY <2>3, <2>4, <2>5
<1> QED
  BY <1>1, <1>2, SectionEnds

(* The early return of PollOnce(): new machines, and nothing done to them. *)
LEMMA PollSkipsStep ==
  ASSUME IInv, PollSkips
  PROVE  IInv'
<1>1. /\ lock = "poll" /\ Unlock /\ UNCHANGED <<name, target, adhoc, config, phase>>
      /\ table' = Discovered
  BY DEF PollSkips, os
<1>2. /\ Discovered = [p \in Pids |-> Discovered[p]] /\ target = [p \in Pids |-> target[p]]
      /\ adhoc \subseteq Pids
  BY DEF Discovered, IInv, TypeOK
<1>3. ASSUME NEW p \in Pids PROVE Handles(p)
  <2>1. table'[p] = Discovered[p] /\ target'[p] = target[p]
    BY <1>1
  <2>2. /\ Discovered[p] # NoEntry => Discovered[p] \in Entries /\ Known(p, Discovered[p])
        /\ Discovered[p] = NoEntry => ~Managed(p)
    BY <1>1, DiscoveredKnown
  <2>3. CASE Discovered[p] = NoEntry
    BY <2>1, <2>2, <2>3 DEF Handles, Keeps, Managed
  <2>4. CASE Discovered[p] # NoEntry
    <3> DEFINE e == Discovered[p]
    <3>1. /\ e.machine \in Machines /\ e = [e EXCEPT !.machine = e.machine]
          /\ Moved(p, e, e.machine) = target[p]
      BY <2>2, <2>4 DEF Entries, Moved
    <3> QED
      BY <2>1, <2>2, <2>4, <3>1 DEF Handles, Moves
  <2> QED
    BY <2>3, <2>4
<1> QED
  BY <1>1, <1>2, <1>3, SectionEnds

(* HandleCommand(): a machine that is not there is made for an unprotected *)
(* name only.                                                              *)
LEMMA CommandActsStep ==
  ASSUME IInv, CommandActs
  PROVE  IInv'
<1>1. /\ lock = "command" /\ Unlock /\ UNCHANGED <<name, config, phase>>
      /\ \/ \E new \in {"throttled", "suspended"} : ForceTo(new)
         \/ Resume \/ Release
  BY DEF CommandActs
<1>2. ASSUME NEW p \in Pids
      PROVE  /\ Managed(p) => table[p] \in Entries /\ Known(p, table[p])
             /\ target[p] \in Targets
             /\ snapshot[p] \in Names \cup {NoName}
  BY DEF IInv, TypeOK, Managed, Known
<1>3. target = [p \in Pids |-> target[p]] /\ adhoc \subseteq Pids
  BY DEF IInv, TypeOK
<1>4. ASSUME NEW new \in {"throttled", "suspended"}, ForceTo(new)
      PROVE  IInv'
  <2> DEFINE takes(p) == Accepted(p) /\ (Managed(p) \/ ~Protects(settings, snapshot[p]))
             entry(p) == IF Managed(p) THEN table[p] ELSE NewEntry(p, snapshot[p])
             forced(p) == ForceState(entry(p).machine, new, TRUE)
  <2>1. /\ table' = [p \in Pids |-> IF takes(p) THEN [entry(p) EXCEPT !.machine = forced(p)]
                                    ELSE table[p]]
        /\ target' = [p \in Pids |-> IF takes(p) THEN Moved(p, entry(p), forced(p))
                                     ELSE target[p]]
        /\ adhoc' \subseteq Pids
    BY <1>3, <1>4 DEF ForceTo
  <2>2. NothingLeftBehind
    BY <1>1 DEF IInv, Looked, Phases
  <2>3. ASSUME NEW p \in Pids PROVE Handles(p)
    <3>1. CASE ~takes(p)
      BY <2>1, <3>1 DEF Handles, Keeps
    <3>2. CASE takes(p)
      <4>1. entry(p) \in Entries /\ Known(p, entry(p))
        <5>1. CASE Managed(p)
          BY <1>2, <5>1
        <5>2. CASE ~Managed(p)
          <6>1. snapshot[p] \in Names /\ ~Protects(settings, snapshot[p])
            BY <1>2, <3>2, <5>2 DEF Accepted
          <6>2. Settled(p, NoEntry, target[p]) /\ (Running(p) => Untouched(target[p]))
            BY <2>2, <5>2 DEF IInv, Looked, Managed, NothingLeftBehind
          <6>3. NewEntry(p, snapshot[p]) \in Entries
            BY <6>1, <6>2, NewEntrySettles
          <6> QED
            BY <5>2, <6>1, <6>3 DEF Known
        <5> QED
          BY <5>1, <5>2
      <4>2. forced(p) \in Machines
        BY <4>1, ForceStateMachine DEF Entries, States
      <4>3. table'[p] = [entry(p) EXCEPT !.machine = forced(p)]
            /\ target'[p] = Moved(p, entry(p), forced(p))
        BY <2>1, <3>2
      <4> HIDE DEF entry, forced
      <4> QED
        BY <4>1, <4>2, <4>3 DEF Handles, Moves
    <3> QED
      BY <3>1, <3>2
  <2>4. table' = [p \in Pids |-> table'[p]] /\ target' = [p \in Pids |-> target'[p]]
    BY <2>1
  <2> QED
    BY <1>1, <2>1, <2>3, <2>4, SectionEnds
<1>5. CASE Resume
  <2> DEFINE takes(p) == Accepted(p) /\ Managed(p)
             forced(p) == ForceState(table[p].machine, "normal", TRUE)
  <2>1. /\ table' = [p \in Pids |-> IF takes(p) THEN [table[p] EXCEPT !.machine = forced(p)]
                                    ELSE table[p]]
        /\ target' = [p \in Pids |-> IF takes(p) THEN Moved(p, table[p], forced(p))
                                     ELSE target[p]]
        /\ adhoc' \subseteq Pids
    BY <1>3, <1>5 DEF Resume
  <2>2. ASSUME NEW p \in Pids PROVE Handles(p)
    <3>1. CASE ~takes(p)
      BY <2>1, <3>1 DEF Handles, Keeps
    <3>2. CASE takes(p)
      <4>1. forced(p) \in Machines
        BY <1>2, <3>2, ForceStateMachine DEF Entries, States
      <4> QED
        BY <1>2, <2>1, <3>2, <4>1 DEF Handles, Moves
    <3> QED
      BY <3>1, <3>2
  <2>3. table' = [p \in Pids |-> table'[p]] /\ target' = [p \in Pids |-> target'[p]]
    BY <2>1
  <2> QED
    BY <1>1, <2>1, <2>2, <2>3, SectionEnds
<1>6. CASE Release
  <2> DEFINE takes(p)  == Accepted(p) /\ Managed(p)
             leaves(p) == takes(p) /\ p \in adhoc /\ table[p].machine.state = "normal"
  <2>1. /\ table' = [p \in Pids |-> IF leaves(p) THEN NoEntry
                                    ELSE IF takes(p) THEN [table[p] EXCEPT !.machine.hold = FALSE]
                                    ELSE table[p]]
        /\ adhoc' \subseteq Pids /\ target' = target
    BY <1>3, <1>6 DEF Release
  <2>2. ASSUME NEW p \in Pids PROVE Handles(p)
    <3>1. CASE ~takes(p)
      BY <2>1, <3>1 DEF Handles, Keeps
    <3>2. CASE leaves(p)
      <4>1. /\ Managed(p) /\ table[p].machine \in Machines /\ table[p].machine.state = "normal"
            /\ Moved(p, table[p], table[p].machine) = target[p]
        BY <1>2, <3>2 DEF Entries, Moved
      <4> QED
        BY <2>1, <3>2, <4>1 DEF Handles, LetsGo
    <3>3. CASE takes(p) /\ ~leaves(p)
      <4> DEFINE m == [table[p].machine EXCEPT !.hold = FALSE]
      <4>1. /\ m \in Machines /\ Moved(p, table[p], m) = target[p]
            /\ [table[p] EXCEPT !.machine.hold = FALSE] = [table[p] EXCEPT !.machine = m]
        BY <1>2, <3>3 DEF Entries, Machines, Moved
      <4>2. table'[p] = [table[p] EXCEPT !.machine = m] /\ target'[p] = Moved(p, table[p], m)
        BY <2>1, <3>3, <4>1
      <4> HIDE DEF m
      <4> QED
        BY <1>2, <3>3, <4>1, <4>2 DEF Handles, Moves
    <3> QED
      BY <3>1, <3>2, <3>3
  <2>3. table' = [p \in Pids |-> table'[p]] /\ target' = [p \in Pids |-> target'[p]]
    BY <1>3, <2>1
  <2> QED
    BY <1>1, <2>1, <2>2, <2>3, SectionEnds
<1> QED
  BY <1>1, <1>4, <1>5, <1>6

(* RecoverAll(): every machine ends normal. *)
LEMMA ShutdownStep ==
  ASSUME IInv, Shutdown
  PROVE  IInv'
<1> DEFINE forced(p) == ForceRecover(table[p].machine)
<1>1. /\ phase = "running" /\ lock = "free" /\ phase' = "restored"
      /\ table' = [p \in Pids |-> IF Managed(p) THEN [table[p] EXCEPT !.machine = forced(p)]
                                  ELSE NoEntry]
      /\ target' = [p \in Pids |-> IF Managed(p) THEN Moved(p, table[p], forced(p))
                                   ELSE target[p]]
      /\ UNCHANGED <<name, adhoc, settings, file, edited, lock, pending, snapshot, rewrite>>
  BY DEF Shutdown, config, locals
<1>2. ASSUME NEW p \in Pids, Managed(p)
      PROVE  /\ table[p] \in Entries /\ forced(p) \in Machines /\ forced(p).state = "normal"
  BY <1>2, ForceRecoverMachine DEF IInv, TypeOK, Managed, Entries
<1> HIDE DEF forced
<1>3. ASSUME NEW p \in Pids PROVE Handles(p)
  <2>1. CASE Managed(p)
    BY <1>1, <1>2, <2>1 DEF Handles, Moves, Known
  <2>2. CASE ~Managed(p)
    BY <1>1, <2>2 DEF Handles, Keeps, Managed
  <2> QED
    BY <2>1, <2>2
<1>4. table' = [p \in Pids |-> table'[p]] /\ target' = [p \in Pids |-> target'[p]]
  BY <1>1
<1>5. /\ table' \in [Pids -> Entries \cup {NoEntry}] /\ target' \in [Pids -> Targets]
      /\ (\A p \in Pids : Settled(p, table[p], target[p]))'
      /\ NothingLeftBehind'
      /\ \A p \in Pids : Managed(p)' => ~Protects(settings, table'[p].name)
  BY <1>1, <1>3, <1>4, AllStep DEF IInv
<1>6. TypeOK'
  BY <1>1, <1>5 DEF IInv, TypeOK
<1>7. Looked'
  BY <1>1, <1>5 DEF Looked
<1>8. ASSUME NEW p \in Pids, Managed(p)' PROVE table'[p].machine.state = "normal"
  <2>1. Managed(p) /\ table'[p] = [table[p] EXCEPT !.machine = forced(p)]
    BY <1>1, <1>8 DEF Managed
  <2> QED
    BY <1>2, <2>1 DEF Entries
<1>9. Phases'
  BY <1>1, <1>8 DEF Phases
<1> QED
  BY <1>6, <1>7, <1>9 DEF IInv

(* The table is lost; what it looked after is restored already, unless the *)
(* controller suspended it since.                                          *)
LEMMA ExitStep ==
  ASSUME IInv, Exit
  PROVE  IInv'
<1>1. /\ phase = "restored" /\ lock = "free" /\ phase' = "stopped"
      /\ table' = [p \in Pids |-> NoEntry] /\ adhoc' = {}
      /\ UNCHANGED <<name, target, settings, file, edited, lock, pending, snapshot, rewrite>>
  BY DEF Exit, os, config, locals
<1>2. TypeOK'
  BY <1>1 DEF IInv, TypeOK
<1>3. \A p \in Pids : ~Managed(p)' /\ table'[p] = NoEntry
  BY <1>1 DEF Managed
<1>4. (\A p \in Pids : Settled(p, table[p], target[p]))'
  BY <1>1, <1>3 DEF IInv, Looked, Settled, Running
<1>5. ASSUME ~Coordinated, NEW p \in Pids, Running(p) PROVE Untouched(target[p])
  <2>1. Managed(p) => table[p].machine.state = "normal" /\ Agrees(table[p], target[p])
    BY <1>1, <1>5 DEF IInv, Looked, Phases, Settled, Managed
  <2>2. ~Managed(p) => Untouched(target[p])
    BY <1>1, <1>5 DEF IInv, Looked, NothingLeftBehind
  <2> QED
    BY <2>1, <2>2 DEF Agrees, Untouched
<1>6. ~Coordinated => NothingLeftBehind'
  BY <1>1, <1>5 DEF NothingLeftBehind, Running
<1>7. Looked'
  BY <1>1, <1>3, <1>4, <1>6 DEF Looked
<1>8. Phases'
  BY <1>1, <1>3 DEF Phases
<1> QED
  BY <1>2, <1>7, <1>8 DEF IInv

-----------------------------------------------------------------------------
(* The service starts with no machine and over untouched processes. *)
LEMMA Initially == Init => IInv
<1> SUFFICES ASSUME Init PROVE IInv
  OBVIOUS
<1>1. Fresh \in Targets /\ Fresh.suspended = 0 /\ Fresh.priority = "normal"
  BY MachineAssumption DEF Fresh, Targets
<1>2. TypeOK
  BY <1>1 DEF Init, TypeOK, EmptySnapshot
<1>3. \A p \in Pids : ~Managed(p) /\ ~Running(p) /\ target[p] = Fresh
  BY DEF Init, EmptySnapshot, Managed, Running
<1>4. Looked
  BY <1>1, <1>3 DEF Looked, Settled, NothingLeftBehind
<1>5. Phases
  BY <1>3 DEF Init, Phases
<1> QED
  BY <1>2, <1>4, <1>5 DEF IInv

(* Whoever takes the step: the service, an operator, the editor of the     *)
(* file, or a process that comes or goes.                                  *)
LEMMA Inductive == IInv /\ [Next]_vars => IInv'
<1> SUFFICES ASSUME IInv, [Next]_vars PROVE IInv'
  OBVIOUS
<1>1. ASSUME NEW p \in Pids, NEW n \in Names, ProcessStarts(p, n) PROVE IInv'
  BY <1>1, StartsStep
<1>2. ASSUME NEW p \in Pids, ProcessExits(p) PROVE IInv'
  BY <1>2, ExitsStep
<1>3. CASE \/ \E content \in Settings \cup {Broken} : EditFile(content)
           \/ Load \/ RecordAttributes \/ PollBegins
           \/ \E verb \in Verbs, targets \in CommandTargets : CommandBegins(verb, targets)
           \/ \E n \in Names, role \in RoleLists : RoleReads(n, role)
           \/ RoleWrites \/ RoleChecks
  BY <1>3, BeginningsStep
<1>4. CASE PollLoads \/ RoleLoads
  BY <1>4, LoadsStep
<1>5. ASSUME NEW x \in Pressures, PollActs(x) PROVE IInv'
  BY <1>5, PollActsStep
<1>6. CASE PollSkips
  BY <1>6, PollSkipsStep
<1>7. CASE CommandActs
  BY <1>7, CommandActsStep
<1>8. CASE Shutdown
  BY <1>8, ShutdownStep
<1>9. CASE Exit
  BY <1>9, ExitStep
<1>10. CASE UNCHANGED vars
  BY <1>10 DEF vars, os, config, locals, IInv, TypeOK, Looked, Phases, Settled, Running,
               Managed, NothingLeftBehind
<1> QED
  BY <1>1, <1>2, <1>3, <1>4, <1>5, <1>6, <1>7, <1>8, <1>9, <1>10 DEF Next, Poll, SetRole

(* At every point where mutex_ is free or a section reads the outside      *)
(* world, each machine is right about its process, none has a protected    *)
(* name, and every process without one is untouched.                       *)
THEOREM Invariant == Spec => []IInv
<1>1. Init => IInv
  BY Initially
<1>2. IInv /\ [Next]_vars => IInv'
  BY Inductive
<1> QED
  BY <1>1, <1>2, PTL DEF Spec

-----------------------------------------------------------------------------
(* Every variable stays in its range, whatever is sent, saved or started. *)
THEOREM TypeCorrect == Spec => []TypeOK
<1>1. IInv => TypeOK
  BY DEF IInv
<1> QED
  BY <1>1, Invariant, PTL

(* Without the controller, a process that is dropped by a reload, released *)
(* or never managed is untouched, and so is every process after Run().     *)
THEOREM NothingIsLeftBehind == ~Coordinated => (Spec => []NothingLeftBehind)
<1> SUFFICES ASSUME ~Coordinated PROVE Spec => []NothingLeftBehind
  OBVIOUS
<1>1. IInv => NothingLeftBehind
  BY DEF IInv, Looked
<1> QED
  BY <1>1, Invariant, PTL

(* A machine with a handle and its process agree, and SuspendThread() is   *)
(* never called on a suspended process: not by a poll after a command, a   *)
(* reload and a new discovery, nor by the controller's late commands.      *)
THEOREM TableAgrees == Spec => []TableAgreement
<1>1. IInv => TableAgreement
  <2> SUFFICES ASSUME IInv, NEW p \in Pids
               PROVE  /\ target[p].suspended <= 1
                      /\ Running(p) /\ Managed(p) /\ table[p].handle =>
                           /\ table[p].machine.state = "suspended" <=> target[p].suspended = 1
                           /\ table[p].machine.state = "throttled" => target[p].priority = "idle"
                           /\ table[p].machine.state = "normal" => Untouched(target[p])
    BY DEF TableAgreement
  <2>1. Settled(p, table[p], target[p])
    BY DEF IInv, Looked
  <2> QED
    BY <2>1 DEF Settled, Agrees, Managed, Untouched
<1> QED
  BY <1>1, Invariant, PTL

(* AddBatchProcess() and SetProtectedProcessNames() between them: what is  *)
(* suspended or at idle under a protected name was mistaken for another.   *)
THEOREM OnlyByMistake == ~Coordinated => (Spec => []OnlyMistaken)
<1> SUFFICES ASSUME ~Coordinated PROVE Spec => []OnlyMistaken
  OBVIOUS
<1>1. IInv => OnlyMistaken
  <2> SUFFICES ASSUME IInv, NEW p \in Pids, Protects(settings, name[p]), ~Untouched(target[p])
               PROVE  Managed(p) /\ table[p].name # name[p]
    BY DEF OnlyMistaken
  <2>1. Running(p)
    BY DEF IInv, Looked, Settled, Fresh, Untouched
  <2>2. Managed(p)
    BY <2>1 DEF IInv, Looked, NothingLeftBehind
  <2>3. ~Protects(settings, table[p].name)
    BY <2>2 DEF IInv, Looked
  <2> QED
    BY <2>2, <2>3
<1> QED
  BY <1>1, Invariant, PTL

(* Run() restores every process before it returns, as long as nobody can   *)
(* command the service after RecoverAll().                                 *)
THEOREM AllRestoredAtExit == ~Coordinated => (Spec => []RestoredAtExit)
<1> SUFFICES ASSUME ~Coordinated PROVE Spec => []RestoredAtExit
  OBVIOUS
<1>1. IInv => RestoredAtExit
  BY DEF IInv, Looked, NothingLeftBehind, Phases, RestoredAtExit
<1> QED
  BY <1>1, Invariant, PTL

-----------------------------------------------------------------------------
(* What a step may do to a machine that an operator holds. *)

Held(p) == Managed(p) /\ table[p].machine.hold /\ lock # "command"

Respected(p) ==
  \/ Managed(p)' /\ UNCHANGED <<target[p], table[p].machine.state, table[p].machine.hold>>
  \/ ~Managed(p)' /\ (table[p].name \notin settings'.batch \/ Protects(settings', table[p].name))
  \/ phase' # phase
  \/ ~Running(p) \/ ~Running(p)'

(* A reload leaves a held machine alone or drops it for its name. *)
LEMMA ApplyRespects ==
  ASSUME IInv, NEW p \in Pids, Held(p),
         (file \in Settings /\ ApplyConfig(file)) \/ UNCHANGED <<settings, table, target>>
  PROVE  Respected(p)
<1>1. CASE UNCHANGED <<settings, table, target>>
  BY <1>1 DEF Held, Respected, Managed
<1>2. CASE ApplyConfig(file) /\ p \notin Dropped(file)
  <2>1. table'[p] = table[p] /\ target'[p] = target[p]
    BY <1>2 DEF ApplyConfig
  <2> QED
    BY <2>1 DEF Held, Respected, Managed
<1>3. CASE ApplyConfig(file) /\ p \in Dropped(file)
  <2>1. table'[p] = NoEntry /\ settings' = file
    BY <1>3 DEF ApplyConfig
  <2> QED
    BY <1>3, <2>1 DEF Respected, Managed, Dropped
<1> QED
  BY <1>1, <1>2, <1>3

(* UpdateAll() counts for a held machine and does not move it. *)
LEMMA PollRespects ==
  ASSUME IInv, NEW p \in Pids, Held(p), NEW x, PollActs(x)
  PROVE  Respected(p)
<1> DEFINE e == table[p]
           m == Update(e.machine, x, settings.machine)
<1>1. e \in Entries /\ e # NoEntry /\ e.machine.hold
  BY DEF Held, Managed, IInv, TypeOK
<1>2. Discovered[p] = e
  BY DiscoveredKnown DEF Held, PollActs
<1>3. m.state = e.machine.state /\ m.hold /\ m \in Machines
  BY <1>1, UpdateMachine DEF Entries, Machines
<1>4. CASE HasExited(p, e)
  BY <1>4 DEF HasExited, Respected
<1>5. CASE ~HasExited(p, e)
  <2>1. table'[p] = [e EXCEPT !.machine = m] /\ target'[p] = Moved(p, e, m)
    BY <1>1, <1>2, <1>5 DEF PollActs
  <2> HIDE DEF m
  <2>2. target'[p] = target[p]
    BY <1>3, <2>1 DEF Moved
  <2>3. table'[p] \in Entries /\ table'[p].machine = m
    BY <1>1, <1>3, <2>1 DEF Entries
  <2>4. table'[p] # NoEntry
    BY <2>3, DaemonAssumption DEF Entries
  <2> QED
    BY <1>1, <1>3, <2>2, <2>3, <2>4 DEF Respected, Managed
<1> QED
  BY <1>4, <1>5

LEMMA StepRespects ==
  ASSUME IInv, NEW p \in Pids, Held(p), [Next]_vars
  PROVE  Respected(p)
<1>1. ASSUME table'[p] = table[p], target'[p] = target[p]
      PROVE  Respected(p)
  BY <1>1 DEF Held, Respected, Managed
<1>2. ASSUME NEW q \in Pids, NEW n \in Names, ProcessStarts(q, n) PROVE Respected(p)
  <2>1. CASE q = p
    BY <1>2, <2>1 DEF ProcessStarts, Respected
  <2>2. CASE q # p
    BY <1>1, <1>2, <2>2 DEF ProcessStarts, IInv, TypeOK
  <2> QED
    BY <2>1, <2>2
<1>3. ASSUME NEW q \in Pids, ProcessExits(q) PROVE Respected(p)
  <2>1. CASE q = p
    BY <1>3, <2>1 DEF ProcessExits, Respected, Running, IInv, TypeOK
  <2>2. CASE q # p
    BY <1>1, <1>3, <2>2 DEF ProcessExits, IInv, TypeOK
  <2> QED
    BY <2>1, <2>2
<1>4. CASE \/ \E content \in Settings \cup {Broken} : EditFile(content)
           \/ Load \/ RecordAttributes \/ PollBegins
           \/ \E verb \in Verbs, targets \in CommandTargets : CommandBegins(verb, targets)
           \/ \E n \in Names, role \in RoleLists : RoleReads(n, role)
           \/ RoleWrites \/ RoleChecks
  <2>1. UNCHANGED <<os, table>>
    BY <1>4 DEF EditFile, Load, RecordAttributes, PollBegins, CommandBegins, RoleReads,
                RoleWrites, RoleChecks
  <2> QED
    BY <1>1, <2>1 DEF os
<1>5. CASE PollLoads \/ RoleLoads
  <2>1. (file \in Settings /\ ApplyConfig(file)) \/ UNCHANGED <<settings, table, target>>
    BY <1>5 DEF PollLoads, RoleLoads, LoadAndVerify
  <2> QED
    BY <2>1, ApplyRespects
<1>6. ASSUME NEW x \in Pressures, PollActs(x) PROVE Respected(p)
  BY <1>6, PollRespects
<1>7. CASE PollSkips
  <2>1. table'[p] = table[p] /\ target'[p] = target[p]
    BY <1>7, DiscoveredKnown DEF PollSkips, os, Held
  <2> QED
    BY <1>1, <2>1
<1>8. CASE CommandActs
  BY <1>8 DEF CommandActs, Held
<1>9. CASE Shutdown \/ Exit
  BY <1>9 DEF Shutdown, Exit, Respected
<1>10. CASE UNCHANGED vars
  BY <1>1, <1>10 DEF vars, os
<1> QED
  BY <1>2, <1>3, <1>4, <1>5, <1>6, <1>7, <1>8, <1>9, <1>10 DEF Next, Poll, SetRole

(* hold_ is honoured by every path but the reload's, the shutdown's and    *)
(* the exit's: the automatic logic never fights an operator.               *)
THEOREM OperatorAlwaysWins == Spec => OperatorWins
<1>1. IInv /\ [Next]_vars =>
        [\A p \in Pids :
           (Managed(p) /\ table[p].machine.hold /\ lock # "command") =>
             \/ Managed(p)' /\ UNCHANGED <<target[p], table[p].machine.state,
                                           table[p].machine.hold>>
             \/ ~Managed(p)' /\ (table[p].name \notin settings'.batch
                                 \/ Protects(settings', table[p].name))
             \/ phase' # phase
             \/ ~Running(p) \/ ~Running(p)']_vars
  BY StepRespects DEF Held, Respected
<1> QED
  BY <1>1, Invariant, PTL DEF Spec, OperatorWins
=============================================================================
