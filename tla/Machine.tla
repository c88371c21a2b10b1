------------------------------- MODULE Machine -------------------------------
(***************************************************************************)
(* The per-process state machine of src/src/actuator as a pure function of *)
(* its own record, of the operating system's view of the managed process   *)
(* and of what the Win32 calls answered.  StateMachine.tla runs one such   *)
(* machine, Daemon.tla a table of them.                                    *)
(***************************************************************************)
EXTENDS Integers

CONSTANTS
  Configs,          \* the StateMachineConfig records the service can be given
  Pressures,        \* the values of the critical processes' combined pressure
  CounterCap,       \* bound: the consecutive-sample counters saturate here
  MaxSuspendCount   \* MAXIMUM_SUSPEND_COUNT of a Windows thread

(* What Config.cpp accepts (high > low, critical >= high, 1..100 samples)  *)
(* and AdaptiveThresholds::Adjust keeps when it lowers both upper          *)
(* thresholds by one offset.                                               *)
ASSUME MachineAssumption ==
  /\ CounterCap \in Nat \ {0}
  /\ MaxSuspendCount \in Nat \ {0}
  /\ Pressures \subseteq Int
  /\ Configs \subseteq [throttle : Int, escalate : Int, recover : Int,
                        throttleSamples : 1 .. CounterCap,
                        escalateSamples : 1 .. CounterCap,
                        recoverSamples : 1 .. CounterCap]
  /\ \A c \in Configs : c.recover < c.throttle /\ c.throttle <= c.escalate

States == {"normal", "throttled", "suspended"}

Machines == [state : States, hold : BOOLEAN, high : 0 .. CounterCap,
             critical : 0 .. CounterCap, low : 0 .. CounterCap]

(* A machine as its constructor leaves it. *)
NewMachine == [state |-> "normal", hold |-> FALSE, high |-> 0, critical |-> 0, low |-> 0]

-----------------------------------------------------------------------------
(* Counting one sample.  A counter grows while its condition holds and     *)
(* falls to zero at the first sample that breaks the streak.               *)

Streak(count, continues) ==
  IF ~continues THEN 0 ELSE IF count < CounterCap THEN count + 1 ELSE count

Count(m, x, c) ==
  [m EXCEPT !.high     = Streak(@, x >= c.throttle),
            !.critical = Streak(@, x >= c.escalate),
            !.low      = Streak(@, x < c.recover)]

(* Mutants of Due: the hold is ignored; a critical streak suspends a       *)
(* process that was never throttled; only a throttle is ever undone.       *)
DueDespiteHold(m, c) ==
  CASE m.state = "normal" /\ m.high >= c.throttleSamples -> "throttled"
    [] m.state = "throttled" /\ m.critical >= c.escalateSamples -> "suspended"
    [] m.state # "normal" /\ m.low >= c.recoverSamples -> "normal"
    [] OTHER -> m.state

DueAtOnce(m, c) ==
  CASE ~m.hold /\ m.state # "suspended" /\ m.critical >= c.escalateSamples -> "suspended"
    [] ~m.hold /\ m.state = "normal" /\ m.critical < c.escalateSamples
               /\ m.high >= c.throttleSamples -> "throttled"
    [] ~m.hold /\ m.state # "normal" /\ m.low >= c.recoverSamples -> "normal"
    [] OTHER -> m.state

DueOneWay(m, c) ==
  CASE ~m.hold /\ m.state = "normal" /\ m.high >= c.throttleSamples -> "throttled"
    [] ~m.hold /\ m.state = "throttled" /\ m.critical >= c.escalateSamples -> "suspended"
    [] ~m.hold /\ m.state = "throttled" /\ m.critical < c.escalateSamples
               /\ m.low >= c.recoverSamples -> "normal"
    [] OTHER -> m.state

(* The state Update() moves a counted machine to. *)
Due(m, c) ==
  CASE m.hold -> m.state
    [] ~m.hold /\ m.state = "normal" /\ m.high >= c.throttleSamples -> "throttled"
    [] ~m.hold /\ m.state = "throttled" /\ m.critical >= c.escalateSamples -> "suspended"
    [] ~m.hold /\ m.state = "throttled" /\ m.critical < c.escalateSamples
               /\ m.low >= c.recoverSamples -> "normal"
    [] ~m.hold /\ m.state = "suspended" /\ m.low >= c.recoverSamples -> "normal"
    [] OTHER -> m.state

(* Mutant: a transition keeps the counters. *)
MoveToKeeping(m, new) == [m EXCEPT !.state = new]

(* TransitionTo() takes the new state whatever the Win32 calls answered.   *)
MoveTo(m, new) ==
  [state |-> new, hold |-> m.hold, high |-> 0, critical |-> 0, low |-> 0]

Update(m, x, c) ==
  LET counted == Count(m, x, c)
      due     == Due(counted, c)
  IN  IF due = m.state THEN counted ELSE MoveTo(counted, due)

ForceState(m, new, hold) ==
  IF m.state = new THEN [m EXCEPT !.hold = hold]
                   ELSE MoveTo([m EXCEPT !.hold = hold], new)

ForceRecover(m) == ForceState(m, "normal", FALSE)

-----------------------------------------------------------------------------
(* The process as the operating system sees it: its priority class and the *)
(* suspend count of one of its threads.  Every thread takes the same calls *)
(* and none of them depends on another but through "all succeeded", so one *)
(* thread and an independent verdict on the whole set stand for any number.*)

Targets == [suspended : 0 .. MaxSuspendCount, priority : {"high", "normal", "idle"}]

(* What the calls of one transition answer.  reached: this thread was in   *)
(* the snapshot and its handle opened; complete: AllSucceeded() over the   *)
(* snapshot; priority: SetPriorityClass succeeded.                         *)
Outcomes == [reached : BOOLEAN, complete : BOOLEAN, priority : BOOLEAN]

SuspendThread(t, o) ==
  IF o.reached /\ t.suspended < MaxSuspendCount THEN t.suspended + 1 ELSE t.suspended

(* Mutant: one resume too many. *)
ResumeThreadTwice(t, o) ==
  IF o.reached \/ o.complete THEN t.suspended - 1 ELSE t.suspended

(* A suspended thread cannot leave the snapshot a resume takes, so a       *)
(* complete resume has reached it.                                         *)
ResumeThread(t, o) ==
  IF (o.reached \/ o.complete) /\ t.suspended > 0 THEN t.suspended - 1 ELSE t.suspended

(* Mutants of Actuate: a throttle leaves the threads suspended; every      *)
(* transition but a suspension resumes them.                               *)
ActuateStillSuspended(t, old, new, o) ==
  [suspended |-> IF new = "suspended" THEN SuspendThread(t, o)
                 ELSE IF old = "suspended" /\ new = "normal" THEN ResumeThread(t, o)
                 ELSE t.suspended,
   priority  |-> IF new # "suspended" /\ o.priority
                 THEN IF new = "throttled" THEN "idle" ELSE "normal"
                 ELSE t.priority]

ActuateResuming(t, old, new, o) ==
  [suspended |-> IF new = "suspended" THEN t.suspended + 1 ELSE t.suspended - 1,
   priority  |-> IF new = "throttled" THEN "idle" ELSE "normal"]

(* The calls TransitionTo() makes on a live process.  A throttle that      *)
(* comes from a suspension is the only one to look at the resume's answer  *)
(* before it asks for the priority class.                                  *)
Actuate(t, old, new, o) ==
  [suspended |-> IF new = "suspended" THEN SuspendThread(t, o)
                 ELSE IF old = "suspended" THEN ResumeThread(t, o) ELSE t.suspended,
   priority  |-> IF /\ new # "suspended"
                    /\ o.priority
                    /\ (new = "throttled" /\ old = "suspended") => o.complete
                 THEN IF new = "throttled" THEN "idle" ELSE "normal"
                 ELSE t.priority]

(* actuationSucceeded, the verdict handed to the transition callback.      *)
Succeeds(t, old, new, o) ==
  /\ new = "suspended" => o.complete /\ (o.reached => t.suspended < MaxSuspendCount)
  /\ old = "suspended" => o.complete
  /\ new # "suspended" => o.priority

(* What a process looks like when nothing of ours is left on it. *)
Untouched(t) == t.suspended = 0 /\ t.priority # "idle"
=============================================================================
