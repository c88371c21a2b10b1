---------------------------- MODULE GradedResponse ----------------------------
(***************************************************************************)
(* What the service promises a batch process, without counters, threads or *)
(* priorities: the response is a function of the most recent samples.  A   *)
(* process leaves "normal" only after N consecutive samples at the high    *)
(* threshold, is suspended only after M consecutive samples at the         *)
(* critical one seen while it was already throttled, and comes back after  *)
(* K consecutive samples below the low one; an operator may move it to any *)
(* state and hold it there.                                                *)
(***************************************************************************)
EXTENDS Integers

CONSTANTS
  Window,    \* how many recent samples the policy can look back at
  Verdicts,  \* what a sample can say: a set of "high", "critical", "low"
  Rules      \* the sample counts [throttle, escalate, recover] in force

VARIABLES
  mode,      \* the state the process is kept in
  hold,      \* an operator holds it there
  recent,    \* recent[i] is the verdict on the i-th most recent sample
  since,     \* samples since the mode last changed (saturating at Window)
  rule       \* the sample counts in force

vars == <<mode, hold, recent, since, rule>>

Modes == {"normal", "throttled", "suspended"}

Init ==
  /\ mode = "normal"
  /\ hold = FALSE
  /\ recent = [i \in 1 .. Window |-> {}]
  /\ since = 0
  /\ rule \in Rules

Push(v) == [i \in 1 .. Window |-> IF i = 1 THEN v ELSE recent[i - 1]]

(* The last n samples, the one just pushed included, all fell in this mode *)
(* and all got the verdict.                                                *)
Sustained(n, kind) ==
  /\ n <= since + 1
  /\ \A i \in 1 .. n : kind \in recent'[i]

Change(new) ==
  /\ mode' = new
  /\ since' = 0

Keep ==
  /\ mode' = mode
  /\ since' = IF since < Window THEN since + 1 ELSE since

Throttle  == mode = "normal" /\ Sustained(rule.throttle, "high")
Escalate  == mode = "throttled" /\ Sustained(rule.escalate, "critical")
Relax     == mode # "normal" /\ Sustained(rule.recover, "low")

(* One sample of the critical processes' pressure. *)
Sample(v) ==
  /\ recent' = Push(v)
  /\ UNCHANGED <<hold, rule>>
  /\ \/ ~hold /\ Throttle /\ Change("throttled")
     \/ ~hold /\ Escalate /\ Change("suspended")
     \/ ~hold /\ Relax /\ ~Escalate /\ Change("normal")
     \/ (hold \/ ~(Throttle \/ Escalate \/ Relax)) /\ Keep

(* A manual command, a reload or the shutdown. *)
Override(new, held) ==
  /\ hold' = held
  /\ \/ mode # new /\ Change(new)
     \/ mode = new /\ UNCHANGED <<mode, since>>
  /\ UNCHANGED <<recent, rule>>

Release ==
  /\ hold' = FALSE
  /\ UNCHANGED <<mode, recent, since, rule>>

Reconfigure ==
  /\ rule' \in Rules
  /\ UNCHANGED <<mode, hold, recent, since>>

Next ==
  \/ \E v \in Verdicts : Sample(v)
  \/ \E new \in Modes, held \in BOOLEAN : Override(new, held)
  \/ Release
  \/ Reconfigure

Spec == Init /\ [][Next]_vars
=============================================================================
