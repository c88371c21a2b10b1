----------------------------- MODULE AutoProtect ------------------------------
(***************************************************************************)
(* Automatic CPU protection: the level that follows the whole system's     *)
(* load (AutoProtectState), the processes it has lowered with the priority *)
(* class each one had (AutoProtector), the exemptions, the reloads and     *)
(* commands that reach them, and the Actuator, which may set the priority  *)
(* of the same processes.  Everything runs under mutex_; processes start   *)
(* and exit at any time.  Only ordinary applications are in Pids, and      *)
(* which of them use enough CPU is chosen freely at every tick.            *)
(***************************************************************************)
EXTENDS Integers, FiniteSets

CONSTANTS
  Pids,         \* PIDs of ordinary applications
  Rules,        \* the auto_protect sections of config.json
  Loads,        \* values of the system's CPU load
  StartClasses, \* priority classes applications start with
  CounterCap,   \* bound: the consecutive-sample counters saturate here
  NoEntry,      \* a PID that is not in throttled_
  Overlap       \* operators throttle processes auto-protect has lowered

Classes == {"idle", "below_normal", "normal", "high"}
Rank == [idle |-> 0, below_normal |-> 1, normal |-> 2, high |-> 3]

(* AutoProtector::Entry. *)
Entries == [original : Classes, current : Classes]

(* ParseConfig(), the auto_protect section. *)
ParseConfig(r) ==
  /\ r.throttleSamples \in 1 .. CounterCap /\ r.idleSamples \in 1 .. CounterCap
  /\ r.recoverSamples \in 1 .. CounterCap /\ r.max \in Nat \ {0}
  /\ r.recover < r.throttle
  /\ r.useIdle => r.throttle <= r.idle

ASSUME AutoProtectAssumption ==
  /\ IsFiniteSet(Pids)
  /\ CounterCap \in Nat \ {0}
  /\ Loads \subseteq Int
  /\ StartClasses \subseteq Classes
  /\ NoEntry \notin Entries
  /\ Rules \subseteq [enabled : BOOLEAN, useIdle : BOOLEAN,
                      throttle : Int, idle : Int, recover : Int,
                      throttleSamples : Nat, idleSamples : Nat, recoverSamples : Nat, max : Nat]
  /\ \A r \in Rules : ParseConfig(r)
  /\ Overlap \in BOOLEAN

VARIABLES
  rules,      \* settings_
  level,      \* state_: the level and its three counters
  throttled,  \* throttled_: the original and the current class of each entry
  exempt,     \* exempt_
  running,    \* PIDs something runs under
  class,      \* the priority class of each process
  listed,     \* PIDs whose name is configured critical, batch or protected
  managed,    \* PIDs the Actuator has a machine for and keeps throttled
  due         \* history: the class each process would have without auto-protect

own   == <<rules, level, throttled, exempt>>
world == <<running, class, listed, managed>>
protectVars == <<own, world, due>>

Levels == [name : {"normal", "throttle", "idle"}, high : 0 .. CounterCap,
           extreme : 0 .. CounterCap, low : 0 .. CounterCap]

Calm == [name |-> "normal", high |-> 0, extreme |-> 0, low |-> 0]

Lowered == {p \in Pids : throttled[p] # NoEntry}

Nobody == [p \in Pids |-> NoEntry]

ProtectInit ==
  /\ rules \in Rules
  /\ level = Calm
  /\ throttled = Nobody
  /\ exempt = {}
  /\ running = {}
  /\ class = [p \in Pids |-> "normal"]
  /\ listed = {}
  /\ managed = {}
  /\ due = class

-----------------------------------------------------------------------------
(* AutoProtectState::Update().  Unlike the Actuator's machine it keeps its *)
(* counters when the level changes.                                        *)

(* Mutant: a broken streak decays. *)
GrownDecaying(count, continues) ==
  IF ~continues THEN count - 1 ELSE IF count < CounterCap THEN count + 1 ELSE count

Grown(count, continues) ==
  IF ~continues THEN 0 ELSE IF count < CounterCap THEN count + 1 ELSE count

Counted(l, x, r) ==
  [l EXCEPT !.high    = Grown(@, x >= r.throttle),
            !.extreme = Grown(@, x >= r.idle),
            !.low     = Grown(@, x < r.recover)]

(* Mutant: nothing leads back. *)
NextLevelUp(l, r) ==
  CASE l.name = "normal" /\ l.high >= r.throttleSamples -> "throttle"
    [] l.name = "throttle" /\ r.useIdle /\ l.extreme >= r.idleSamples -> "idle"
    [] OTHER -> l.name

NextLevel(l, r) ==
  CASE l.name = "normal" /\ l.high >= r.throttleSamples -> "throttle"
    [] l.name = "throttle" /\ r.useIdle /\ l.extreme >= r.idleSamples -> "idle"
    [] l.name # "normal" /\ ~(l.name = "throttle" /\ r.useIdle /\ l.extreme >= r.idleSamples)
         /\ l.low >= r.recoverSamples -> "normal"
    [] OTHER -> l.name

(* Restore() for every process in a set; one that has exited has no class  *)
(* to restore.  SetPriorityClass is taken to succeed on the handle that it *)
(* succeeded on before: the code does not look (AutoProtect.cpp:187).      *)
Restored(ps) ==
  [p \in Pids |-> IF p \in ps \cap running THEN throttled[p].original ELSE class[p]]

Without(ps) == [p \in Pids |-> IF p \in ps THEN NoEntry ELSE throttled[p]]

-----------------------------------------------------------------------------
(* Processes.  An entry's handle keeps its PID from being reused.          *)

ProcessStarts(p, c, isListed) ==
  /\ p \notin running /\ p \notin Lowered /\ p \notin managed
  /\ running' = running \cup {p}
  /\ class' = [class EXCEPT ![p] = c]
  /\ due' = [due EXCEPT ![p] = c]
  /\ listed' = IF isListed THEN listed \cup {p} ELSE listed \ {p}
  /\ UNCHANGED <<own, managed>>

ProcessExits(p) ==
  /\ p \in running
  /\ running' = running \ {p}
  /\ managed' = managed \ {p}
  /\ UNCHANGED <<own, class, listed, due>>

-----------------------------------------------------------------------------
(* Tick(), once per poll.                                                  *)

(* What the level demands of the processes that are lowered. *)
Target(l) == IF l = "idle" THEN "idle" ELSE "below_normal"

(* Mutant of Escalated: the class it had last is remembered as its own. *)
EscalatedAnew(p, target, refused) ==
  IF Rank[throttled[p].current] > Rank[target] /\ p \notin refused
  THEN [original |-> throttled[p].current, current |-> target] ELSE throttled[p]

(* Entries of live processes are escalated where Windows lets them. *)
Escalated(p, target, refused) ==
  IF Rank[throttled[p].current] > Rank[target] /\ p \notin refused
  THEN [throttled[p] EXCEPT !.current = target] ELSE throttled[p]

(* The processes that may be picked, given the exemptions. *)
Eligible(kept) == running \ (Lowered \cup kept \cup listed \cup managed)

(* How many more processes may be lowered. *)
Slots(alive) == rules.max - Cardinality(alive)

TickNormal ==
  /\ class' = Restored(Lowered)
  /\ throttled' = Nobody
  /\ UNCHANGED exempt

(* chosen: the heaviest of the eligible; refused: those whose class        *)
(* Windows would not let us set.                                           *)
TickElevated(chosen, refused) ==
  LET alive  == Lowered \cap running
      target == Target(level'.name)
      kept   == exempt \cap running
      taken  == {p \in chosen \ refused : Rank[class[p]] > Rank[target]}
  IN  /\ chosen \subseteq Eligible(kept)
      /\ chosen = {} \/ Cardinality(chosen) <= Slots(alive)
      /\ exempt' = kept
      /\ throttled' = [p \in Pids |->
           IF p \in alive THEN Escalated(p, target, refused)
           ELSE IF p \in taken THEN [original |-> class[p], current |-> target]
           ELSE NoEntry]
      /\ class' = [p \in Pids |->
           IF p \in taken \/ (p \in alive /\ Rank[throttled[p].current] > Rank[target]
                                          /\ p \notin refused)
           THEN target ELSE class[p]]

Tick(x, chosen, refused) ==
  LET counted == Counted(level, x, rules)
  IN  /\ rules.enabled
      /\ level' = [counted EXCEPT !.name = NextLevel(counted, rules)]
      /\ \/ level'.name = "normal" /\ chosen = {} /\ TickNormal
         \/ level'.name # "normal" /\ TickElevated(chosen, refused)
      /\ UNCHANGED <<rules, running, listed, managed, due>>

-----------------------------------------------------------------------------
(* A reload: Configure(), and Exempt() for every lowered process that is   *)
(* now configured explicitly.                                              *)

Configure(r, names) ==
  LET explicit == IF r.enabled THEN Lowered \cap names \cap running ELSE {}
      back     == IF r.enabled THEN explicit ELSE Lowered
  IN  /\ names \subseteq running
      /\ rules' = r
      /\ listed' = names
      /\ level' = IF r.enabled THEN level ELSE Calm
      /\ class' = Restored(back)
      /\ throttled' = Without(back)
      /\ exempt' = exempt \cup explicit
      /\ UNCHANGED <<running, managed, due>>

(* Exempt(): the command, for a process in the snapshot. *)
Exempt(p) ==
  /\ p \in running
  /\ class' = Restored(Lowered \cap {p})
  /\ throttled' = Without({p})
  /\ exempt' = exempt \cup {p}
  /\ UNCHANGED <<rules, level, running, listed, managed, due>>

-----------------------------------------------------------------------------
(* The Actuator, on a process it manages or is told to manage.  Neither    *)
(* its commands nor its poll ask auto-protect first.                       *)

ActuatorThrottles(p) ==
  /\ p \in running
  /\ Overlap \/ p \notin Lowered
  /\ managed' = managed \cup {p}
  /\ class' = [class EXCEPT ![p] = "idle"]
  /\ due' = [due EXCEPT ![p] = "idle"]
  /\ UNCHANGED <<own, running, listed>>

ActuatorRecovers(p) ==
  /\ p \in managed
  /\ managed' = managed \ {p}
  /\ class' = [class EXCEPT ![p] = "normal"]
  /\ due' = [due EXCEPT ![p] = "normal"]
  /\ UNCHANGED <<own, running, listed>>

Ticks == \E x \in Loads, chosen, refused \in SUBSET Pids : Tick(x, chosen, refused)

ProtectNext ==
  \/ \E p \in Pids, c \in StartClasses, isListed \in BOOLEAN :
       ProcessStarts(p, c, isListed)
  \/ \E p \in Pids : ProcessExits(p)
  \/ Ticks
  \/ \E r \in Rules, names \in SUBSET Pids : Configure(r, names)
  \/ \E p \in Pids : Exempt(p) \/ ActuatorThrottles(p) \/ ActuatorRecovers(p)

ProtectSpec == ProtectInit /\ [][ProtectNext]_protectVars

(* The poll loop never stops ticking while the feature is on: if the last  *)
(* load stays below the recover threshold for ever, such loads keep coming.*)
TickAgain ==
  \E x \in Loads, chosen, refused \in SUBSET Pids :
    level.low > 0 /\ x < rules.recover /\ Tick(x, chosen, refused)

FairProtectSpec == ProtectSpec /\ WF_protectVars(TickAgain)

-----------------------------------------------------------------------------
(* Every variable stays in its range. *)
ProtectTypeOK ==
  /\ rules \in Rules
  /\ level \in Levels
  /\ throttled \in [Pids -> Entries \cup {NoEntry}]
  /\ exempt \subseteq Pids
  /\ running \subseteq Pids
  /\ class \in [Pids -> Classes]
  /\ listed \subseteq Pids
  /\ managed \subseteq running
  /\ due \in [Pids -> Classes]

(* Each process's original priority class is restored exactly              *)
(* (AutoProtect.h:20-21), through escalations, refused calls, exemptions,  *)
(* reloads and the Actuator's changes: a process without an entry has the  *)
(* class it would have had, and an entry remembers that class.             *)
ExactlyRestored ==
  \A p \in running :
    /\ p \notin Lowered => class[p] = due[p]
    /\ p \in Lowered => throttled[p].original = due[p] /\ class[p] = throttled[p].current

(* "Nothing throttled" at the normal level (AutoProtectPolicy.h:29), and   *)
(* none when the feature is off, whichever of the poll, a reload and a     *)
(* command came last.                                                      *)
CalmMeansNobody ==
  level.name = "normal" \/ ~rules.enabled => Lowered = {}

(* Processes are only ever lowered, and only those nobody else manages or  *)
(* asked to be spared (AutoProtect.h:16-20).                               *)
OnlyOrdinary ==
  \A p \in Lowered \cap running :
    /\ Rank[throttled[p].current] < Rank[throttled[p].original]
    /\ p \notin listed \cup managed \cup exempt

(* When the load stays low for good everything is put back for good.       *)
EventuallyRestored == <>[](level.low > 0) => <>[](Lowered = {})
=============================================================================
