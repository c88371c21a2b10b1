----------------------------- MODULE Detection ------------------------------
(***************************************************************************)
(* From the critical processes' pressure to the thresholds in force, the   *)
(* threshold events and the automatic actions: the second half of          *)
(* Daemon::Poll(), with AdaptiveThresholds, ThresholdTracker and the       *)
(* machine of one batch process, while the controller's bias moves,        *)
(* reloads and operators interfere and other batch processes are acted on. *)
(* Percentages are counted in units, of which Scale make one percent.      *)
(***************************************************************************)
EXTENDS Machine, Sequences

CONSTANTS
  Settings,         \* the AdaptiveSettings the service can be given
  Biases,           \* the biases the controller can send, none (0) included
  Scale,            \* units in one percent
  Trend(_, _, _)    \* what a window of samples, continued for so many samples,
                    \* takes off a throttle threshold

(* The contents of AdaptiveThresholds::window_. *)
Windows == UNION {[1 .. n -> Pressures] : n \in UNION {0 .. s.window : s \in Settings}}

(* Counters are told apart beyond every required length; a flat window has *)
(* no trend.                                                               *)
ASSUME DetectionAssumption ==
  /\ Scale \in Nat \ {0} /\ Biases \subseteq Nat /\ 0 \in Biases
  /\ Settings \subseteq [enabled : BOOLEAN, window : Nat \ {0}, horizon : Nat, maxAdjust : Nat]
  /\ \A c \in Configs : {c.throttleSamples, c.escalateSamples, c.recoverSamples}
                          \subseteq 1 .. CounterCap - 1
  /\ \A s \in Settings, w \in Windows, c \in Configs :
       /\ Trend(w, s.horizon, c.throttle) \in Nat
       /\ (\A i, j \in DOMAIN w : w[i] = w[j]) => Trend(w, s.horizon, c.throttle) = 0

VARIABLES
  base,         \* base_
  settings,     \* adaptive_.settings_
  window,       \* adaptive_.window_
  bias,         \* coordination_->ExternalBias()
  effective,    \* effective_, which every machine is configured with
  tracker,      \* tracker_
  machine,      \* the machine of the batch process
  announced,    \* history: the events of the streaks the tracker is counting
  undisturbed   \* history: since the last automatic action on this process nobody but
                \* the poll has reset a counter of its machine or changed a required
                \* length, and no other process has been acted on

adaptation == <<settings, window, bias>>
vars       == <<base, adaptation, effective, tracker, machine, announced, undisturbed>>

-----------------------------------------------------------------------------
(* AdaptiveThresholds.                                                     *)

(* Mutant: the band may close. *)
RoomToTheBand(c, s) == s.maxAdjust

(* How far the throttle threshold may be lowered. *)
Room(c, s) ==
  LET room == c.throttle - c.recover - Scale
  IN  IF room < 0 THEN 0 ELSE IF room < s.maxAdjust THEN room ELSE s.maxAdjust

Offset(c, s, w, b) ==
  LET wanted == b + (IF s.enabled THEN Trend(w, s.horizon, c.throttle) ELSE 0)
  IN  IF wanted < Room(c, s) THEN wanted ELSE Room(c, s)

Lower(c, off) == [c EXCEPT !.throttle = @ - off, !.escalate = @ - off]

Adjust(c, s, w, b) == Lower(c, Offset(c, s, w, b))

(* Differs by half a percent or more. *)
Apart(x, y) == 2 * (x - y) >= Scale \/ 2 * (y - x) >= Scale

(* Mutant: one sample too many stays. *)
LatestAndOne(w, n) == IF Len(w) <= n + 1 THEN w ELSE SubSeq(w, Len(w) - n, Len(w))

(* The window without the samples that no longer fit. *)
Latest(w, n) == IF Len(w) <= n THEN w ELSE SubSeq(w, Len(w) - n + 1, Len(w))

-----------------------------------------------------------------------------
(* ThresholdTracker.                                                       *)

NewTracker == [high |-> 0, critical |-> 0, low |-> 0]

Kinds == {"high", "critical", "low"}

(* A counter of a tracker or a machine, and the length it is compared to. *)
Counter(t, k) == CASE k = "high" -> t.high [] k = "critical" -> t.critical [] k = "low" -> t.low

Length(c, k) == CASE k = "high" -> c.throttleSamples
                  [] k = "critical" -> c.escalateSamples
                  [] k = "low" -> c.recoverSamples

(* Mutant: a threshold fires one sample late. *)
FiredLate(t, c) == {k \in Kinds : Counter(t, k) = Length(c, k) + 1}

Fired(t, c) == {k \in Kinds : Counter(t, k) = Length(c, k)}

-----------------------------------------------------------------------------
Init ==
  /\ base \in Configs /\ settings \in Settings
  /\ window = <<>>
  /\ bias = 0
  /\ effective = base
  /\ tracker = NewTracker
  /\ machine = NewMachine
  /\ announced = {}
  /\ undisturbed = TRUE

(* Mutant: thresholds that were lowered stay. *)
AdoptsLower(eff) == eff.throttle < effective.throttle

(* The dead band. *)
Adopts(eff) == Apart(eff.throttle, effective.throttle)

(* A poll that counts.  The tracker starts afresh when any machine has     *)
(* acted, be it the one of the process or that of another.                 *)
Sample(x) ==
  LET eff   == Adjust(base, settings, window', bias)
      added == Count(tracker, x, effective')
      acted == machine'.state # machine.state
  IN  /\ window' = Latest(Append(window, x), settings.window)
      /\ effective' = IF Adopts(eff) THEN eff ELSE effective
      /\ machine' = Update(machine, x, effective')
      /\ announced' = {k \in announced : Counter(tracker, k) > 0} \cup Fired(added, effective')
      /\ \E others \in BOOLEAN :
           /\ tracker' = IF acted \/ others THEN NewTracker ELSE added
           /\ undisturbed' = (acted \/ (undisturbed /\ ~others))
      /\ UNCHANGED <<base, settings, bias>>

SameLengths(c, d) == \A k \in Kinds : Length(c, k) = Length(d, k)

(* ApplyConfig(): the thresholds follow at once, without a dead band. *)
Reload(c, s) ==
  /\ base' = c /\ settings' = s
  /\ window' = Latest(window, s.window)
  /\ effective' = Adjust(c, s, window', bias)
  /\ undisturbed' = (undisturbed /\ SameLengths(c, base))
  /\ UNCHANGED <<bias, tracker, machine, announced>>

ReceiveBias(b) ==
  /\ bias' = b
  /\ UNCHANGED <<base, settings, window, effective, tracker, machine, announced, undisturbed>>

(* A manual command or its release, or a process that is given up and      *)
(* found again: the tracker is not told.                                   *)
Becomes(m) ==
  /\ machine' = m
  /\ undisturbed' = (undisturbed /\ \A k \in Kinds : Counter(m, k) = Counter(machine, k))
  /\ UNCHANGED <<base, adaptation, effective, tracker, announced>>

Next ==
  \/ \E x \in Pressures : Sample(x)
  \/ \E c \in Configs, s \in Settings : Reload(c, s)
  \/ \E b \in Biases : ReceiveBias(b)
  \/ \E new \in States : Becomes(ForceState(machine, new, TRUE))
  \/ Becomes([machine EXCEPT !.hold = FALSE])
  \/ Becomes(NewMachine)

Spec == Init /\ [][Next]_vars

-----------------------------------------------------------------------------
(* Every variable stays in its range. *)
TypeOK ==
  /\ base \in Configs /\ settings \in Settings /\ bias \in Biases
  /\ window \in Windows /\ Len(window) <= settings.window
  /\ tracker \in [high : 0 .. CounterCap, critical : 0 .. CounterCap, low : 0 .. CounterCap]
  /\ machine \in Machines
  /\ announced \subseteq Kinds
  /\ undisturbed \in BOOLEAN

(* Whatever trend, bias, reload and dead band come together, the           *)
(* thresholds in force are the configured ones with the upper two lowered  *)
(* alike, by no more than allowed, and never so far that less than one     *)
(* percent is left of the band above the recovery threshold                *)
(* (AdaptiveThresholds.h:17-26, .cpp:69).                                  *)
BandSurvives ==
  \E off \in 0 .. settings.maxAdjust :
    /\ effective = Lower(base, off)
    /\ off > 0 => effective.throttle - effective.recover >= Scale

(* The threshold an automatic change of state follows from. *)
Reason(new) == CASE new = "throttled" -> "high"
                 [] new = "suspended" -> "critical"
                 [] new = "normal" -> "low"

(* The events line up with the actions (ThresholdTracker.h:41-43): every   *)
(* automatic change of state of a process that is alone, or that was the   *)
(* last to be acted on, has been announced, in this poll or, if an         *)
(* operator held the process meanwhile, earlier in the same streak.        *)
EventsLineUp ==
  [][\A x \in Pressures :
       Sample(x) /\ undisturbed /\ machine'.state # machine.state
         => Reason(machine'.state) \in announced']_vars

(* A load that has been flat for the whole window, and no bias: the poll   *)
(* leaves the thresholds within half a percent of the configured ones      *)
(* (AdaptiveThresholds.h:22), whatever they had been lowered by.           *)
AdaptationFades ==
  [][\A x \in Pressures :
       Sample(x) /\ bias = 0 /\ (\A i \in DOMAIN window' : window'[i] = x)
         => ~Apart(base.throttle, effective'.throttle)]_vars
=============================================================================
