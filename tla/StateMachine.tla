----------------------------- MODULE StateMachine -----------------------------
(***************************************************************************)
(* One actuator::ProcessStateMachine, the process it manages and every     *)
(* caller it has: the poll loop (Update, SetConfig), a manual command      *)
(* (ForceState with a hold, ReleaseManualHold), and a reload or the        *)
(* shutdown (ForceRecoverForShutdown).  Win32 calls may fail, may miss a   *)
(* thread created after the snapshot, and the process may exit under them. *)
(***************************************************************************)
EXTENDS Machine

CONSTANT Answers   \* the outcomes the Win32 calls may have
ASSUME AnswersAssumption == Answers # {} /\ Answers \subseteq Outcomes

VARIABLES
  config,    \* config_: thresholds and sample counts in force
  machine,   \* state_, manualHold_ and the three counters
  target,    \* the managed process: suspend count and priority class
  running,   \* it has not exited
  handle,    \* processHandle_ was opened when the machine was created
  clean,     \* history: every actuation so far reported success
  recent,    \* history: recent[i] is the verdict on the i-th last sample
  since      \* history: samples since the last transition, saturating

system  == <<config, machine, target, running, handle, clean>>
history == <<recent, since>>
vars    == <<system, history>>

(* What one sample says: the thresholds it is on the far side of. *)
Kinds == {"high", "critical", "low"}

Verdict(x, c) ==
  {k \in Kinds : \/ k = "high" /\ x >= c.throttle
                 \/ k = "critical" /\ x >= c.escalate
                 \/ k = "low" /\ x < c.recover}

(* The two history variables after one more sample. *)
Push(samples, v) == [i \in 1 .. CounterCap |-> IF i = 1 THEN v ELSE samples[i - 1]]
Longer(count) == IF count < CounterCap THEN count + 1 ELSE count

Init ==
  /\ config \in Configs
  /\ machine = NewMachine
  /\ target \in [suspended : {0}, priority : {"high", "normal"}]
  /\ running = TRUE
  /\ handle \in BOOLEAN
  /\ clean = TRUE
  /\ recent = [i \in 1 .. CounterCap |-> {}]
  /\ since = 0

(* HasExited(): without a handle the exit cannot be seen. *)
HasExited == handle /\ ~running

(* The rest of TransitionTo() once the new machine is known: the Win32     *)
(* calls, skipped when the exit is visible and without effect when it is   *)
(* not, and the verdict reported to the callback.                          *)
Transition(new, o) ==
  IF new = machine.state THEN UNCHANGED <<target, clean>>
  ELSE /\ target' = IF running THEN Actuate(target, machine.state, new, o) ELSE target
       /\ clean' = (clean /\ running /\ Succeeds(target, machine.state, new, o))

Move(m, o) ==
  /\ machine' = m
  /\ Transition(m.state, o)
  /\ UNCHANGED <<config, running, handle>>

(* One sample from the poll loop.  UpdateAll() forgets a machine instead    *)
(* when it sees that the process has exited.                               *)
Sample(x, o) ==
  /\ ~HasExited
  /\ Move(Update(machine, x, config), o)
  /\ recent' = Push(recent, Verdict(x, config))
  /\ since' = IF machine'.state # machine.state THEN 0 ELSE Longer(since)

Restart == since' = IF machine'.state # machine.state THEN 0 ELSE since

(* throttle, suspend or resume from an operator: always with a hold. *)
Command(new, o) ==
  /\ Move(ForceState(machine, new, TRUE), o)
  /\ Restart
  /\ UNCHANGED recent

ReleaseManualHold ==
  /\ machine' = [machine EXCEPT !.hold = FALSE]
  /\ UNCHANGED <<config, target, running, handle, clean, history>>

(* A reload that drops or protects the process, or the shutdown. *)
ForceRecoverForShutdown(o) ==
  /\ Move(ForceRecover(machine), o)
  /\ Restart
  /\ UNCHANGED recent

SetConfig(c) ==
  /\ config' = c
  /\ UNCHANGED <<machine, target, running, handle, clean, history>>

ProcessExits ==
  /\ running
  /\ running' = FALSE
  /\ UNCHANGED <<config, machine, target, handle, clean, history>>

Next ==
  \/ \E x \in Pressures, o \in Answers : Sample(x, o)
  \/ \E new \in States, o \in Answers : Command(new, o)
  \/ ReleaseManualHold
  \/ \E o \in Answers : ForceRecoverForShutdown(o)
  \/ \E c \in Configs : SetConfig(c)
  \/ ProcessExits

Spec == Init /\ [][Next]_vars

(* The poll loop never stops sampling while the service and the process    *)
(* run: Run() returns to Poll() after every wait.  If the last sample      *)
(* stays a low one for ever, low ones keep coming.                         *)
SampleAgain ==
  \E x \in Pressures, o \in Answers :
    "low" \in recent[1] /\ x < config.recover /\ Sample(x, o)

Fairness == WF_vars(SampleAgain)

FairSpec == Spec /\ Fairness

-----------------------------------------------------------------------------
(* Every variable stays in its range (StateMachine.h:86-93). *)
TypeOK ==
  /\ config \in Configs
  /\ machine \in Machines
  /\ target \in Targets
  /\ running \in BOOLEAN
  /\ handle \in BOOLEAN
  /\ clean \in BOOLEAN
  /\ recent \in [1 .. CounterCap -> SUBSET Kinds]
  /\ since \in 0 .. CounterCap

(* The band between the recover and the throttle threshold keeps the two   *)
(* directions apart: whatever reloads happen between samples, a machine    *)
(* never has a rising and a falling streak in progress at once, and a      *)
(* critical streak is never longer than the high streak it is part of.     *)
Hysteresis ==
  /\ machine.high = 0 \/ machine.low = 0
  /\ machine.critical <= machine.high

(* While every Win32 call reports success, the state the machine believes  *)
(* in is the state the process is in: one pending suspension at most and   *)
(* only when suspended, idle priority when throttled, and nothing left     *)
(* behind when normal, also when a thread was missed by a suspension's     *)
(* snapshot, when the operator jumps between any two states, and when the  *)
(* service recovers everything.                                            *)
Agreement ==
  running /\ clean =>
    /\ machine.state = "normal" => Untouched(target)
    /\ machine.state = "throttled" => target = [suspended |-> 0, priority |-> "idle"]
    /\ target.suspended <= 1

(* A counter is exactly the length of the streak it counts: it reaches k   *)
(* when and only when the last k samples, all taken since the last         *)
(* transition, got the verdict, whatever thresholds each was judged by     *)
(* ("Consecutive-sample counters are kept", StateMachine.h:52-57).         *)
Counts(count, kind, samples, n) ==
  \A k \in 1 .. CounterCap :
    count >= k <=> k <= n /\ \A i \in 1 .. k : kind \in samples[i]

CountersAreStreaks ==
  /\ Counts(machine.high, "high", recent, since)
  /\ Counts(machine.critical, "critical", recent, since)
  /\ Counts(machine.low, "low", recent, since)

(* The machine keeps the promise of GradedResponse: its counters implement *)
(* the windows of recent samples the promise is stated over.               *)
Graded == INSTANCE GradedResponse WITH
  Window   <- CounterCap,
  Verdicts <- SUBSET Kinds,
  Rules    <- [throttle : 1 .. CounterCap, escalate : 1 .. CounterCap, recover : 1 .. CounterCap],
  mode     <- machine.state,
  hold     <- machine.hold,
  rule     <- [throttle |-> config.throttleSamples, escalate |-> config.escalateSamples,
               recover |-> config.recoverSamples]

KeepsPromise == Graded!Spec

(* Paused work resumes: when the pressure stays below the low threshold    *)
(* and nobody holds the process, it ends up normal for good, and with      *)
(* nothing of ours left on it while every Win32 call succeeds.             *)
Relieved ==
  <>[]("low" \in recent[1] /\ ~machine.hold /\ running)
    => <>[](machine.state = "normal" /\ (clean => Untouched(target)))
=============================================================================
