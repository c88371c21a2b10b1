-------------------------- MODULE Detection_proofs --------------------------
(***************************************************************************)
(* Proofs about the adaptation of the thresholds and the events, for any   *)
(* configurations, settings, biases and pressures, and for any prediction. *)
(***************************************************************************)
EXTENDS Detection, SequenceTheorems, TLAPS

-----------------------------------------------------------------------------
(* The window.                                                             *)

(* What the window is after one more sample, or other settings: a window   *)
(* that is not longer than the settings say.                               *)
LEMMA LatestIsAWindow ==
  ASSUME NEW n \in Nat, NEW w \in Seq(Pressures)
  PROVE  /\ Latest(w, n) \in Seq(Pressures)
         /\ Len(Latest(w, n)) <= n
<1>1. Len(w) \in Nat
  BY LenProperties
<1>2. CASE Len(w) <= n
  BY <1>2 DEF Latest
<1>3. CASE ~(Len(w) <= n)
  <2> DEFINE m == Len(w) - n + 1
  <2>1. m \in Int /\ 1 <= m /\ m <= Len(w) + 1
    BY <1>1, <1>3
  <2>2. /\ SubSeq(w, m, Len(w)) \in Seq(Pressures)
        /\ Len(SubSeq(w, m, Len(w))) = IF m <= Len(w) THEN Len(w) - m + 1 ELSE 0
    BY <2>1, <1>1, SubSeqProperties
  <2>3. Latest(w, n) = SubSeq(w, m, Len(w))
    BY <1>3 DEF Latest
  <2> QED
    BY <2>1, <2>2, <2>3, <1>1
<1> QED
  BY <1>2, <1>3

LEMMA WindowsAreSequences ==
  ASSUME NEW s \in Settings, NEW w \in Seq(Pressures), Len(w) <= s.window
  PROVE  w \in Windows
<1>1. s.window \in Nat /\ Len(w) \in 0 .. s.window /\ w \in [1 .. Len(w) -> Pressures]
  BY DetectionAssumption, LenProperties
<1> QED
  BY <1>1 DEF Windows

-----------------------------------------------------------------------------
(* The thresholds.                                                         *)

(* The fields of a configuration, as the assumptions give them. *)
LEMMA ConfigFields ==
  ASSUME NEW c \in Configs
  PROVE  /\ c.throttle \in Int /\ c.escalate \in Int /\ c.recover \in Int
         /\ c.recover < c.throttle
         /\ c.throttleSamples \in 1 .. CounterCap - 1
         /\ c.escalateSamples \in 1 .. CounterCap - 1
         /\ c.recoverSamples \in 1 .. CounterCap - 1
         /\ c = [throttle |-> c.throttle, escalate |-> c.escalate, recover |-> c.recover,
                 throttleSamples |-> c.throttleSamples, escalateSamples |-> c.escalateSamples,
                 recoverSamples |-> c.recoverSamples]
BY MachineAssumption, DetectionAssumption

(* The band around a lowered configuration. *)
Banded(c, s, e) ==
  \E off \in 0 .. s.maxAdjust :
    /\ e = Lower(c, off)
    /\ off > 0 => e.throttle - e.recover >= Scale

(* What Adjust() returns keeps the band. *)
LEMMA AdjustKeepsTheBand ==
  ASSUME NEW c \in Configs, NEW s \in Settings, NEW w \in Windows, NEW b \in Biases
  PROVE  Banded(c, s, Adjust(c, s, w, b))
<1> DEFINE off == Offset(c, s, w, b)
           wanted == b + (IF s.enabled THEN Trend(w, s.horizon, c.throttle) ELSE 0)
<1>1. Scale \in Nat \ {0} /\ s.maxAdjust \in Nat
  BY DetectionAssumption
<1>2. wanted \in Nat
  <2>1. b \in Nat /\ Trend(w, s.horizon, c.throttle) \in Nat
    BY DetectionAssumption
  <2> QED
    BY <2>1
<1>3. /\ Room(c, s) \in 0 .. s.maxAdjust
      /\ Room(c, s) > 0 => Room(c, s) <= c.throttle - c.recover - Scale
  BY <1>1, ConfigFields DEF Room
<1>4. off = IF wanted < Room(c, s) THEN wanted ELSE Room(c, s)
  BY DEF Offset
<1>5. off \in 0 .. s.maxAdjust /\ (off > 0 => off <= c.throttle - c.recover - Scale)
  <2> HIDE DEF off, wanted
  <2> QED
    BY <1>1, <1>2, <1>3, <1>4, ConfigFields
<1>6. Lower(c, off).throttle = c.throttle - off /\ Lower(c, off).recover = c.recover
  BY ConfigFields DEF Lower
<1>7. off > 0 => Lower(c, off).throttle - Lower(c, off).recover >= Scale
  <2> HIDE DEF off
  <2> QED
    BY <1>1, <1>5, <1>6, ConfigFields
<1> QED
  BY <1>5, <1>7 DEF Banded, Adjust

(* Thresholds that lie within the band have the fields of a configuration, *)
(* and the lengths of the one they come from.                              *)
LEMMA BandedFields ==
  ASSUME NEW c \in Configs, NEW s \in Settings, NEW e, Banded(c, s, e)
  PROVE  /\ e.throttle \in Int /\ e.escalate \in Int /\ e.recover \in Int
         /\ SameLengths(e, c)
         /\ \A k \in Kinds : Length(e, k) \in 1 .. CounterCap - 1
<1>1. PICK off \in 0 .. s.maxAdjust : e = Lower(c, off)
  BY DEF Banded
<1>2. off \in Int
  BY <1>1, DetectionAssumption
<1>3. /\ e.throttle = c.throttle - off /\ e.escalate = c.escalate - off
      /\ e.recover = c.recover /\ e.throttleSamples = c.throttleSamples
      /\ e.escalateSamples = c.escalateSamples /\ e.recoverSamples = c.recoverSamples
  BY <1>1, ConfigFields DEF Lower
<1> QED
  BY <1>2, <1>3, ConfigFields DEF SameLengths, Length, Kinds

(* The configured thresholds lie within their own band. *)
LEMMA BaseIsBanded ==
  ASSUME NEW c \in Configs, NEW s \in Settings
  PROVE  Banded(c, s, c)
<1>1. c.throttle - 0 = c.throttle /\ c.escalate - 0 = c.escalate /\ 0 \in 0 .. s.maxAdjust
  BY ConfigFields, DetectionAssumption
<1>2. Lower(c, 0) = [c EXCEPT !.throttle = c.throttle, !.escalate = c.escalate]
  BY <1>1 DEF Lower
<1>3. c = Lower(c, 0)
  BY <1>2, MachineAssumption
<1> QED
  BY <1>1, <1>3 DEF Banded

-----------------------------------------------------------------------------
(* The counters.                                                           *)

Trackers == [high : 0 .. CounterCap, critical : 0 .. CounterCap, low : 0 .. CounterCap]

(* The condition under which a counter grows. *)
Grows(k, x, c) == CASE k = "high" -> x >= c.throttle
                    [] k = "critical" -> x >= c.escalate
                    [] k = "low" -> x < c.recover

(* Counting keeps a counter in its range, and a streak that goes on        *)
(* passes every length on its way.                                         *)
LEMMA StreakProperties ==
  ASSUME NEW n \in 0 .. CounterCap, NEW continues
  PROVE  /\ Streak(n, continues) \in 0 .. CounterCap
         /\ \A k \in 1 .. CounterCap - 1 :
              Streak(n, continues) >= k => n >= k \/ Streak(n, continues) = k
BY MachineAssumption DEF Streak

(* Trackers and machines are counted alike. *)
LEMMA CountProperties ==
  ASSUME NEW t \in Trackers \cup Machines, NEW x, NEW c
  PROVE  \A k \in Kinds : /\ Counter(t, k) \in 0 .. CounterCap
                          /\ Counter(Count(t, x, c), k) = Streak(Counter(t, k), Grows(k, x, c))
BY DEF Trackers, Machines, Count, Counter, Grows, Kinds

LEMMA CountTracker ==
  ASSUME NEW t \in Trackers, NEW x, NEW c PROVE Count(t, x, c) \in Trackers
<1>1. /\ Streak(t.high, x >= c.throttle) \in 0 .. CounterCap
      /\ Streak(t.critical, x >= c.escalate) \in 0 .. CounterCap
      /\ Streak(t.low, x < c.recover) \in 0 .. CounterCap
  BY MachineAssumption DEF Streak, Trackers
<1> QED
  BY <1>1 DEF Count, Trackers

LEMMA CountMachine ==
  ASSUME NEW m \in Machines, NEW x, NEW c
  PROVE  /\ Count(m, x, c) \in Machines
         /\ Count(m, x, c).state = m.state /\ Count(m, x, c).hold = m.hold
<1>1. /\ Streak(m.high, x >= c.throttle) \in 0 .. CounterCap
      /\ Streak(m.critical, x >= c.escalate) \in 0 .. CounterCap
      /\ Streak(m.low, x < c.recover) \in 0 .. CounterCap
  BY MachineAssumption DEF Streak, Machines
<1> QED
  BY <1>1 DEF Count, Machines

LEMMA MoveToProperties ==
  ASSUME NEW m \in Machines, NEW new \in States
  PROVE  /\ MoveTo(m, new) \in Machines /\ MoveTo(m, new).state = new
         /\ \A k \in Kinds : Counter(MoveTo(m, new), k) = 0
BY MachineAssumption DEF MoveTo, Machines, Counter, Kinds

(* Update() changes the state only for a reason that has lasted, and       *)
(* leaves no counter when it does.                                         *)
LEMMA UpdateProperties ==
  ASSUME NEW m \in Machines, NEW x, NEW c
  PROVE  LET u == Update(m, x, c)
             counted == Count(m, x, c)
         IN  /\ u \in Machines
             /\ u.state = m.state => u = counted
             /\ u.state # m.state =>
                  /\ \A k \in Kinds : Counter(u, k) = 0
                  /\ Reason(u.state) \in Kinds
                  /\ Counter(counted, Reason(u.state)) >= Length(c, Reason(u.state))
<1> DEFINE counted == Count(m, x, c)
           due == Due(counted, c)
<1>1. counted \in Machines /\ counted.state = m.state
  BY CountMachine
<1>2. due \in States
  BY <1>1 DEF Due, Machines, States
<1>3. due # m.state => /\ Reason(due) \in Kinds
                       /\ Counter(counted, Reason(due)) >= Length(c, Reason(due))
  <2>1. \/ due = m.state
        \/ due = "throttled" /\ counted.high >= c.throttleSamples
        \/ due = "suspended" /\ counted.critical >= c.escalateSamples
        \/ due = "normal" /\ counted.low >= c.recoverSamples
    <3> HIDE DEF counted
    <3> QED
      BY <1>1 DEF Due, Machines, States
  <2> HIDE DEF counted, due
  <2>2. CASE due = "throttled" /\ counted.high >= c.throttleSamples
    BY <2>2 DEF Reason, Counter, Length, Kinds
  <2>3. CASE due = "suspended" /\ counted.critical >= c.escalateSamples
    BY <2>3 DEF Reason, Counter, Length, Kinds
  <2>4. CASE due = "normal" /\ counted.low >= c.recoverSamples
    BY <2>4 DEF Reason, Counter, Length, Kinds
  <2> QED
    BY <2>1, <2>2, <2>3, <2>4
<1>4. /\ MoveTo(counted, due) \in Machines /\ MoveTo(counted, due).state = due
      /\ \A k \in Kinds : Counter(MoveTo(counted, due), k) = 0
  BY <1>1, <1>2, MoveToProperties
<1>5. Update(m, x, c) = IF due = m.state THEN counted ELSE MoveTo(counted, due)
  BY DEF Update
<1>6. /\ Update(m, x, c) \in Machines
      /\ Update(m, x, c).state = due
      /\ due = m.state => Update(m, x, c) = counted
      /\ due # m.state => \A k \in Kinds : Counter(Update(m, x, c), k) = 0
  <2> HIDE DEF counted, due
  <2> QED
    BY <1>1, <1>4, <1>5
<1> QED
  <2> HIDE DEF due
  <2> QED
    BY <1>3, <1>6

LEMMA ForceStateType ==
  ASSUME NEW m \in Machines, NEW new \in States, NEW hold \in BOOLEAN
  PROVE  ForceState(m, new, hold) \in Machines
<1>1. [m EXCEPT !.hold = hold] \in Machines
  BY DEF Machines
<1> QED
  BY <1>1, MoveToProperties DEF ForceState

LEMMA NewOnes == NewMachine \in Machines /\ NewTracker \in Trackers
BY MachineAssumption DEF NewMachine, NewTracker, Machines, Trackers, States

-----------------------------------------------------------------------------
(* The inductive invariant.                                                *)

(* While nobody interferes the tracker counts what the machine counts, and *)
(* a streak of the required length has been announced.                     *)
InStep ==
  undisturbed =>
    \A k \in Kinds : /\ Counter(tracker, k) = Counter(machine, k)
                     /\ Counter(tracker, k) >= Length(base, k) => k \in announced

IInv == TypeOK /\ Banded(base, settings, effective) /\ InStep

(* What a counted poll computes. *)
LEMMA SampleStep ==
  ASSUME IInv, NEW x \in Pressures, Sample(x)
  PROVE  /\ IInv'
         /\ undisturbed /\ machine'.state # machine.state => Reason(machine'.state) \in announced'
<1>0. PICK others \in BOOLEAN :
        /\ tracker' = IF machine'.state # machine.state \/ others
                      THEN NewTracker ELSE Count(tracker, x, effective')
        /\ undisturbed' = (machine'.state # machine.state \/ (undisturbed /\ ~others))
  BY DEF Sample
<1> DEFINE added == Count(tracker, x, effective')
           counted == Count(machine, x, effective')
           eff == Adjust(base, settings, window', bias)
<1>1. UNCHANGED <<base, settings, bias>> /\ base \in Configs /\ settings \in Settings /\ bias \in Biases
  BY DEF IInv, TypeOK, Sample
<1>2. window' \in Windows /\ Len(window') <= settings'.window
  <2>1. window \in Seq(Pressures)
    BY DEF IInv, TypeOK, Windows
  <2>2. Append(window, x) \in Seq(Pressures)
    BY <2>1
  <2>3. settings.window \in Nat
    BY <1>1, DetectionAssumption
  <2>4. window' = Latest(Append(window, x), settings.window)
    BY DEF Sample
  <2>5. window' \in Seq(Pressures) /\ Len(window') <= settings.window
    BY <2>2, <2>3, <2>4, LatestIsAWindow
  <2> QED
    BY <1>1, <2>5, WindowsAreSequences
<1>3. Banded(base, settings, effective')
  <2>1. Banded(base, settings, eff)
    BY <1>1, <1>2, AdjustKeepsTheBand
  <2>2. effective' = eff \/ effective' = effective
    BY DEF Sample
  <2>3. Banded(base, settings, effective)
    BY DEF IInv
  <2> HIDE DEF eff
  <2> QED
    BY <2>1, <2>2, <2>3
<1>4. \A k \in Kinds : Length(effective', k) = Length(base, k) /\ Length(base, k) \in 1 .. CounterCap - 1
  BY <1>1, <1>3, BandedFields DEF SameLengths
<1>5. tracker \in Trackers /\ machine \in Machines
  BY DEF IInv, TypeOK, Trackers
<1>6. /\ machine' = Update(machine, x, effective')
      /\ tracker' = NewTracker \/ tracker' = added
      /\ announced' = {k \in announced : Counter(tracker, k) > 0} \cup Fired(added, effective')
  BY <1>0 DEF Sample
<1>7. /\ machine' \in Machines
      /\ machine'.state = machine.state => machine' = counted
      /\ machine'.state # machine.state =>
           /\ \A k \in Kinds : Counter(machine', k) = 0
           /\ Reason(machine'.state) \in Kinds
           /\ Counter(counted, Reason(machine'.state)) >= Length(effective', Reason(machine'.state))
  BY <1>5, <1>6, UpdateProperties
<1>8. added \in Trackers /\ tracker' \in Trackers
  BY <1>5, <1>6, CountTracker, NewOnes
<1>9. announced' \subseteq Kinds /\ undisturbed' \in BOOLEAN
  BY <1>0, <1>6 DEF IInv, TypeOK, Fired
<1>10. undisturbed => \A k \in Kinds :
         /\ Counter(added, k) = Counter(counted, k)
         /\ Counter(added, k) >= Length(base, k) => k \in announced'
  <2> SUFFICES ASSUME undisturbed, NEW k \in Kinds
               PROVE  /\ Counter(added, k) = Counter(counted, k)
                      /\ Counter(added, k) >= Length(base, k) => k \in announced'
    OBVIOUS
  <2>1. Counter(tracker, k) = Counter(machine, k) /\ Counter(tracker, k) \in 0 .. CounterCap
    BY <1>5, CountProperties DEF IInv, InStep
  <2>2. /\ Counter(added, k) = Streak(Counter(tracker, k), Grows(k, x, effective'))
        /\ Counter(counted, k) = Streak(Counter(machine, k), Grows(k, x, effective'))
    BY <1>5, CountProperties
  <2>3. Counter(added, k) >= Length(base, k)
          => Counter(tracker, k) >= Length(base, k) \/ Counter(added, k) = Length(base, k)
    BY <1>4, <2>1, <2>2, StreakProperties
  <2>4. CASE Counter(tracker, k) >= Length(base, k)
    <3>1. k \in announced
      BY <2>4 DEF IInv, InStep
    <3>2. Counter(tracker, k) > 0
      BY <2>1, <2>4, <1>4
    <3> QED
      BY <2>1, <2>2, <3>1, <3>2, <1>6
  <2>5. CASE Counter(added, k) = Length(base, k)
    BY <2>1, <2>2, <2>5, <1>4, <1>6 DEF Fired
  <2> QED
    BY <2>1, <2>2, <2>3, <2>4, <2>5
<1>11. InStep'
  <2>1. CASE machine'.state # machine.state
    <3>1. tracker' = NewTracker /\ \A k \in Kinds : Counter(NewTracker, k) = 0
      BY <2>1, <1>0 DEF NewTracker, Counter, Kinds
    <3> QED
      BY <3>1, <2>1, <1>1, <1>4, <1>7 DEF InStep
  <2>2. CASE machine'.state = machine.state /\ others
    BY <2>2, <1>0 DEF InStep
  <2>3. CASE machine'.state = machine.state /\ ~others
    <3>1. tracker' = added /\ machine' = counted /\ undisturbed' = undisturbed
      BY <2>3, <1>0, <1>7 DEF IInv, TypeOK
    <3> HIDE DEF added, counted
    <3> QED
      BY <3>1, <1>1, <1>10 DEF InStep
  <2> QED
    BY <2>1, <2>2, <2>3
<1>12. TypeOK'
  BY <1>1, <1>2, <1>7, <1>8, <1>9 DEF TypeOK, Trackers
<1>13. undisturbed /\ machine'.state # machine.state => Reason(machine'.state) \in announced'
  <2> HIDE DEF added, counted
  <2> QED
    BY <1>4, <1>7, <1>10
<1> QED
  BY <1>1, <1>3, <1>11, <1>12, <1>13 DEF IInv

LEMMA ReloadStep ==
  ASSUME IInv, NEW c \in Configs, NEW s \in Settings, Reload(c, s)
  PROVE  IInv'
<1>1. /\ base' = c /\ settings' = s /\ bias \in Biases
      /\ UNCHANGED <<bias, tracker, machine, announced>>
      /\ undisturbed' = (undisturbed /\ SameLengths(c, base))
  BY DEF IInv, TypeOK, Reload
<1>2. window' \in Windows /\ Len(window') <= s.window
  <2>1. window \in Seq(Pressures)
    BY DEF IInv, TypeOK, Windows
  <2>2. s.window \in Nat
    BY DetectionAssumption
  <2>3. window' = Latest(window, s.window)
    BY DEF Reload
  <2> QED
    BY <2>1, <2>2, <2>3, LatestIsAWindow, WindowsAreSequences
<1>3. Banded(c, s, effective')
  BY <1>1, <1>2, AdjustKeepsTheBand DEF Reload
<1>4. TypeOK'
  BY <1>1, <1>2 DEF IInv, TypeOK, SameLengths
<1>5. InStep'
  BY <1>1 DEF IInv, InStep, SameLengths
<1> QED
  BY <1>1, <1>3, <1>4, <1>5 DEF IInv

LEMMA BecomesStep ==
  ASSUME IInv, NEW m \in Machines, Becomes(m)
  PROVE  IInv'
<1>1. TypeOK'
  BY DEF IInv, TypeOK, Becomes, adaptation
<1>2. InStep'
  BY DEF IInv, InStep, Becomes, adaptation
<1> QED
  BY <1>1, <1>2 DEF IInv, Becomes, adaptation

LEMMA Inductive == Spec => []IInv
<1>1. Init => IInv
  <2> SUFFICES ASSUME Init PROVE IInv
    OBVIOUS
  <2>1. base \in Configs /\ settings \in Settings /\ effective = base
    BY DEF Init
  <2>2. window \in Windows /\ Len(window) <= settings.window
    <3>1. window \in Seq(Pressures) /\ Len(window) = 0
      BY DEF Init
    <3>2. settings.window \in Nat
      BY <2>1, DetectionAssumption
    <3>3. Len(window) <= settings.window
      BY <3>1, <3>2
    <3> QED
      BY <2>1, <3>1, <3>3, WindowsAreSequences
  <2>3. TypeOK
    BY <2>1, <2>2, NewOnes, DetectionAssumption DEF Init, TypeOK, Trackers
  <2>4. InStep
    <3>1. \A k \in Kinds : Counter(tracker, k) = 0 /\ Counter(machine, k) = 0
      BY DEF Init, NewTracker, NewMachine, Counter, Kinds
    <3>2. \A k \in Kinds : Length(base, k) \in 1 .. CounterCap - 1
      BY <2>1, ConfigFields DEF Length, Kinds
    <3> QED
      BY <3>1, <3>2 DEF InStep
  <2> QED
    BY <2>1, <2>3, <2>4, BaseIsBanded DEF IInv
<1>2. IInv /\ [Next]_vars => IInv'
  <2> SUFFICES ASSUME IInv, [Next]_vars PROVE IInv'
    OBVIOUS
  <2>1. machine \in Machines
    BY DEF IInv, TypeOK
  <2>2. ASSUME NEW x \in Pressures, Sample(x) PROVE IInv'
    BY <2>2, SampleStep
  <2>3. ASSUME NEW c \in Configs, NEW s \in Settings, Reload(c, s) PROVE IInv'
    BY <2>3, ReloadStep
  <2>4. ASSUME NEW b \in Biases, ReceiveBias(b) PROVE IInv'
    BY <2>4 DEF ReceiveBias, IInv, TypeOK, InStep
  <2>5. ASSUME NEW new \in States, Becomes(ForceState(machine, new, TRUE)) PROVE IInv'
    BY <2>1, <2>5, ForceStateType, BecomesStep
  <2>6. CASE Becomes([machine EXCEPT !.hold = FALSE])
    <3>1. [machine EXCEPT !.hold = FALSE] \in Machines
      BY <2>1 DEF Machines
    <3> QED
      BY <3>1, <2>6, BecomesStep
  <2>7. CASE Becomes(NewMachine)
    BY <2>7, NewOnes, BecomesStep
  <2>8. CASE UNCHANGED vars
    BY <2>8 DEF vars, adaptation, IInv, TypeOK, InStep
  <2> QED
    BY <2>2, <2>3, <2>4, <2>5, <2>6, <2>7, <2>8 DEF Next
<1> QED
  BY <1>1, <1>2, PTL DEF Spec

-----------------------------------------------------------------------------
(* Every variable of the detection stays in its range, for any settings. *)
THEOREM TypeCorrect == Spec => []TypeOK
<1>1. IInv => TypeOK
  BY DEF IInv
<1> QED
  BY <1>1, Inductive, PTL

(* The hysteresis band survives every adaptation and reload, whatever the  *)
(* prediction, the bias and the configured margins (AdaptiveThresholds.cpp *)
(* :60-81, Daemon::ApplyConfig).                                           *)
THEOREM BandAlwaysSurvives == Spec => []BandSurvives
<1>1. IInv => BandSurvives
  BY DEF IInv, Banded, BandSurvives
<1> QED
  BY <1>1, Inductive, PTL

(* An automatic action is always announced by its threshold event, unless  *)
(* an operator, a reload or the action of another process has set the      *)
(* tracker and the machine apart since this process was last acted on      *)
(* (ThresholdTracker.h:41-43, Daemon.cpp:469-471).                         *)
THEOREM EventsAlwaysLineUp == Spec => EventsLineUp
<1>1. IInv /\ [Next]_vars =>
        [\A x \in Pressures :
           Sample(x) /\ undisturbed /\ machine'.state # machine.state
             => Reason(machine'.state) \in announced']_vars
  BY SampleStep
<1> QED
  BY <1>1, Inductive, PTL DEF Spec, EventsLineUp

(* A flat load without a bias brings the thresholds back to within half a  *)
(* percent of the configured ones, whatever they were (AdaptiveThresholds.h *)
(* :22), for any prediction that finds no trend in a flat window.          *)
THEOREM AdaptationAlwaysFades == Spec => AdaptationFades
<1> DEFINE Fades == \A x \in Pressures :
                      Sample(x) /\ bias = 0 /\ (\A i \in DOMAIN window' : window'[i] = x)
                        => ~Apart(base.throttle, effective'.throttle)
<1>1. ASSUME IInv, NEW x \in Pressures, Sample(x), bias = 0,
             \A i \in DOMAIN window' : window'[i] = x
      PROVE  ~Apart(base.throttle, effective'.throttle)
  <2> DEFINE eff == Adjust(base, settings, window', bias)
  <2>1. base \in Configs /\ settings \in Settings /\ window' \in Windows
    BY <1>1, SampleStep DEF IInv, TypeOK, Sample
  <2>2. Trend(window', settings.horizon, base.throttle) = 0
    BY <1>1, <2>1, DetectionAssumption
  <2>3. Scale \in Nat \ {0} /\ Room(base, settings) \in Nat
    BY <2>1, DetectionAssumption, ConfigFields DEF Room
  <2>4. Offset(base, settings, window', bias) = 0
    BY <1>1, <2>2, <2>3 DEF Offset
  <2>5. eff.throttle = base.throttle
    BY <2>1, <2>4, ConfigFields DEF Adjust, Lower
  <2>6. effective' = IF Adopts(eff) THEN eff ELSE effective
    BY <1>1 DEF Sample
  <2>7. base.throttle \in Int
    BY <2>1, ConfigFields
  <2> HIDE DEF eff
  <2> QED
    BY <2>3, <2>5, <2>6, <2>7 DEF Adopts, Apart
<1>2. IInv /\ [Next]_vars => [Fades]_vars
  BY <1>1
<1> QED
  BY <1>2, Inductive, PTL DEF Spec, AdaptationFades
=============================================================================
