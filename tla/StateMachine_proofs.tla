------------------------- MODULE StateMachine_proofs -------------------------
(***************************************************************************)
(* Proofs about StateMachine for every set of configurations, pressures    *)
(* and Win32 answers and every length of the counters.                     *)
(***************************************************************************)
EXTENDS StateMachine, TLAPS

USE MachineAssumption, AnswersAssumption

-----------------------------------------------------------------------------
(* The operators of Machine return what their types say. *)

LEMMA CountType ==
  ASSUME NEW m \in Machines, NEW x \in Pressures, NEW c \in Configs
  PROVE  /\ Count(m, x, c) \in Machines
         /\ Count(m, x, c).state = m.state
         /\ Count(m, x, c).hold = m.hold
         /\ Count(m, x, c).high = Streak(m.high, x >= c.throttle)
         /\ Count(m, x, c).critical = Streak(m.critical, x >= c.escalate)
         /\ Count(m, x, c).low = Streak(m.low, x < c.recover)
<1>1. /\ Streak(m.high, x >= c.throttle) \in 0 .. CounterCap
      /\ Streak(m.critical, x >= c.escalate) \in 0 .. CounterCap
      /\ Streak(m.low, x < c.recover) \in 0 .. CounterCap
  BY DEF Streak, Machines
<1> QED
  BY <1>1 DEF Count, Machines

LEMMA DueType ==
  ASSUME NEW m \in Machines, NEW c \in Configs
  PROVE  Due(m, c) \in States
  BY DEF Due, Machines, States

LEMMA MoveToType ==
  ASSUME NEW m \in Machines, NEW new \in States
  PROVE  /\ MoveTo(m, new) \in Machines
         /\ MoveTo(m, new).state = new
         /\ MoveTo(m, new).hold = m.hold
         /\ MoveTo(m, new).high = 0
         /\ MoveTo(m, new).critical = 0
         /\ MoveTo(m, new).low = 0
  BY DEF MoveTo, Machines

LEMMA UpdateType ==
  ASSUME NEW m \in Machines, NEW x \in Pressures, NEW c \in Configs
  PROVE  Update(m, x, c) \in Machines
  BY CountType, DueType, MoveToType DEF Update

LEMMA ForceStateType ==
  ASSUME NEW m \in Machines, NEW new \in States, NEW hold \in BOOLEAN
  PROVE  /\ ForceState(m, new, hold) \in Machines
         /\ ForceState(m, new, hold).state = new
         /\ ForceState(m, new, hold).hold = hold
<1> DEFINE held == [m EXCEPT !.hold = hold]
<1>1. held \in Machines /\ held.state = m.state /\ held.hold = hold
  BY DEF Machines
<1>2. /\ MoveTo(held, new) \in Machines
      /\ MoveTo(held, new).state = new
      /\ MoveTo(held, new).hold = hold
  BY <1>1, MoveToType
<1> QED
  BY <1>1, <1>2 DEF ForceState

LEMMA ActuateType ==
  ASSUME NEW t \in Targets, NEW old \in States, NEW new \in States, NEW o \in Outcomes
  PROVE  Actuate(t, old, new, o) \in Targets
  BY DEF Actuate, SuspendThread, ResumeThread, Targets, States, Outcomes

-----------------------------------------------------------------------------
(* Every variable stays in its range. *)
THEOREM TypeCorrect == Spec => []TypeOK
<1>1. Init => TypeOK
  BY DEF Init, TypeOK, NewMachine, Machines, States, Targets
<1>2. TypeOK /\ [Next]_vars => TypeOK'
  <2> SUFFICES ASSUME TypeOK, [Next]_vars PROVE TypeOK'
    OBVIOUS
  <2>1. ASSUME NEW m \in Machines, NEW o \in Answers, Move(m, o)
        PROVE  /\ machine' \in Machines /\ target' \in Targets /\ clean' \in BOOLEAN
               /\ config' \in Configs /\ running' \in BOOLEAN /\ handle' \in BOOLEAN
    <3>1. m.state \in States /\ machine.state \in States
      BY DEF TypeOK, Machines
    <3>2. Actuate(target, machine.state, m.state, o) \in Targets
      BY <3>1, ActuateType DEF TypeOK
    <3> QED
      BY <2>1, <3>2 DEF Move, Transition, TypeOK
  <2>2. ASSUME NEW x \in Pressures, NEW o \in Answers, Sample(x, o) PROVE TypeOK'
    <3>1. Update(machine, x, config) \in Machines
      BY UpdateType DEF TypeOK
    <3>2. Verdict(x, config) \in SUBSET Kinds
      BY DEF Verdict
    <3>3. recent' \in [1 .. CounterCap -> SUBSET Kinds] /\ since' \in 0 .. CounterCap
      BY <2>2, <3>2 DEF Sample, Push, Longer, TypeOK
    <3> QED
      BY <2>1, <2>2, <3>1, <3>3 DEF Sample, TypeOK
  <2>3. ASSUME NEW new \in States, NEW o \in Answers, Command(new, o) PROVE TypeOK'
    <3>1. ForceState(machine, new, TRUE) \in Machines
      BY ForceStateType DEF TypeOK
    <3>2. Move(ForceState(machine, new, TRUE), o) /\ Restart /\ recent' = recent
      BY <2>3 DEF Command
    <3>3. since' \in 0 .. CounterCap
      BY <3>2 DEF Restart, TypeOK
    <3> QED
      BY <2>1, <3>1, <3>2, <3>3 DEF TypeOK
  <2>4. CASE ReleaseManualHold
    BY <2>4 DEF ReleaseManualHold, TypeOK, Machines, history
  <2>5. ASSUME NEW o \in Answers, ForceRecoverForShutdown(o) PROVE TypeOK'
    <3>1. ForceRecover(machine) \in Machines
      BY ForceStateType DEF ForceRecover, States, TypeOK
    <3>2. since' \in 0 .. CounterCap
      BY <2>5 DEF ForceRecoverForShutdown, Restart, TypeOK
    <3> QED
      BY <2>1, <2>5, <3>1, <3>2 DEF ForceRecoverForShutdown, TypeOK
  <2>6. ASSUME NEW c \in Configs, SetConfig(c) PROVE TypeOK'
    BY <2>6 DEF SetConfig, TypeOK, history
  <2>7. CASE ProcessExits
    BY <2>7 DEF ProcessExits, TypeOK, history
  <2>8. CASE UNCHANGED vars
    BY <2>8 DEF vars, system, history, TypeOK
  <2> QED
    BY <2>2, <2>3, <2>4, <2>5, <2>6, <2>7, <2>8 DEF Next
<1> QED
  BY <1>1, <1>2, PTL DEF Spec
-----------------------------------------------------------------------------
(* One more sample v keeps a counter equal to the length of its streak in  *)
(* the samples r, n of them since the last transition.                     *)
Counted(count, kind, v) == IF kind \notin v THEN 0 ELSE Longer(count)

LEMMA StreakStep ==
  ASSUME NEW r \in [1 .. CounterCap -> SUBSET Kinds], NEW n \in 0 .. CounterCap,
         NEW v \in SUBSET Kinds, NEW kind \in Kinds, NEW count \in 0 .. CounterCap,
         Counts(count, kind, r, n)
  PROVE  Counts(Counted(count, kind, v), kind, Push(r, v), Longer(n))
<1> DEFINE r2 == Push(r, v)
           n2 == Longer(n)
           count2 == Counted(count, kind, v)
<1>a. r2 = [i \in 1 .. CounterCap |-> IF i = 1 THEN v ELSE r[i - 1]]
  BY DEF Push
<1>b. n2 = IF n < CounterCap THEN n + 1 ELSE n
  BY DEF Longer
<1>c. count2 = IF kind \notin v THEN 0 ELSE IF count < CounterCap THEN count + 1 ELSE count
  BY DEF Counted, Longer
<1>d. \A k \in 1 .. CounterCap : count >= k <=> k <= n /\ \A i \in 1 .. k : kind \in r[i]
  BY DEF Counts
<1> HIDE DEF r2, n2, count2
<1> SUFFICES \A k \in 1 .. CounterCap : count2 >= k <=> k <= n2 /\ \A i \in 1 .. k : kind \in r2[i]
  BY DEF Counts, r2, n2, count2
<1> TAKE k \in 1 .. CounterCap
<1>1. r2[1] = v
  BY <1>a
<1>2. CASE kind \notin v
  <2>1. ~(count2 >= k)
    BY <1>2, <1>c
  <2>2. 1 \in 1 .. k /\ kind \notin r2[1]
    BY <1>1, <1>2
  <2> QED
    BY <2>1, <2>2
<1>3. CASE kind \in v /\ k = 1
  <2>1. count2 >= 1 /\ 1 <= n2
    BY <1>3, <1>b, <1>c
  <2>2. \A i \in 1 .. k : i = 1
    BY <1>3
  <2> QED
    BY <1>1, <1>3, <2>1, <2>2
<1>4. CASE kind \in v /\ k > 1
  <2>1. k - 1 \in 1 .. CounterCap
    BY <1>4
  <2>2. count >= k - 1 <=> k - 1 <= n /\ \A i \in 1 .. (k - 1) : kind \in r[i]
    BY <2>1, <1>d
  <2>3. count2 >= k <=> count >= k - 1
    BY <1>4, <1>c
  <2>4. k <= n2 <=> k - 1 <= n
    BY <1>b
  <2>5. (\A i \in 1 .. k : kind \in r2[i]) <=> \A i \in 1 .. (k - 1) : kind \in r[i]
    <3>1. ASSUME \A i \in 1 .. k : kind \in r2[i], NEW i \in 1 .. (k - 1) PROVE kind \in r[i]
      <4>1. i + 1 \in 1 .. k /\ i + 1 \in 1 .. CounterCap /\ i + 1 # 1 /\ (i + 1) - 1 = i
        OBVIOUS
      <4>2. r2[i + 1] = r[i]
        BY <4>1, <1>a
      <4> QED
        BY <3>1, <4>1, <4>2
    <3>2. ASSUME \A i \in 1 .. (k - 1) : kind \in r[i], NEW i \in 1 .. k PROVE kind \in r2[i]
      <4>1. CASE i = 1
        BY <1>1, <1>4, <4>1
      <4>2. CASE i # 1
        <5>1. i - 1 \in 1 .. (k - 1) /\ i \in 1 .. CounterCap
          BY <4>2
        <5>2. r2[i] = r[i - 1]
          BY <4>2, <5>1, <1>a
        <5> QED
          BY <3>2, <5>1, <5>2
      <4> QED
        BY <4>1, <4>2
    <3> QED
      BY <3>1, <3>2
  <2> QED
    BY <2>2, <2>3, <2>4, <2>5
<1>5. k = 1 \/ k > 1
  OBVIOUS
<1> QED
  BY <1>2, <1>3, <1>4, <1>5

(* A counter reaches k exactly when the last k samples since the last      *)
(* transition continue its streak.                                         *)
THEOREM CountersExact == Spec => []CountersAreStreaks
<1>1. Init => CountersAreStreaks
  BY DEF Init, NewMachine, CountersAreStreaks, Counts
<1>2. TypeOK /\ TypeOK' /\ CountersAreStreaks /\ [Next]_vars => CountersAreStreaks'
  <2> SUFFICES ASSUME TypeOK, TypeOK', CountersAreStreaks, [Next]_vars PROVE CountersAreStreaks'
    OBVIOUS
  <2>1. ASSUME machine'.high = 0, machine'.critical = 0, machine'.low = 0, since' = 0
        PROVE  CountersAreStreaks'
    BY <2>1 DEF CountersAreStreaks, Counts
  <2>2. ASSUME machine'.high = machine.high, machine'.critical = machine.critical,
               machine'.low = machine.low, UNCHANGED history
        PROVE  CountersAreStreaks'
    BY <2>2 DEF CountersAreStreaks, Counts, history
  <2>3. ASSUME NEW new \in States, NEW hold \in BOOLEAN,
               machine' = ForceState(machine, new, hold), Restart, UNCHANGED recent
        PROVE  CountersAreStreaks'
    <3>1. CASE machine.state = new
      <4>1. /\ machine'.high = machine.high /\ machine'.critical = machine.critical
            /\ machine'.low = machine.low /\ machine'.state = machine.state
        BY <2>3, <3>1 DEF ForceState, TypeOK, Machines
      <4> QED
        BY <2>2, <2>3, <4>1 DEF Restart, history
    <3>2. CASE machine.state # new
      <4>1. /\ machine'.high = 0 /\ machine'.critical = 0 /\ machine'.low = 0
            /\ machine'.state = new
        BY <2>3, <3>2 DEF ForceState, MoveTo
      <4> QED
        BY <2>1, <2>3, <3>2, <4>1 DEF Restart
    <3> QED
      BY <3>1, <3>2
  <2>4. ASSUME NEW x \in Pressures, NEW o \in Answers, Sample(x, o) PROVE CountersAreStreaks'
    <3> DEFINE counted == Count(machine, x, config)
    <3>1. machine' = Update(machine, x, config)
      BY <2>4 DEF Sample, Move
    <3>2. CASE Due(counted, config) = machine.state
      <4>1. machine' = counted /\ machine'.state = machine.state
        BY <3>1, <3>2, CountType DEF Update, TypeOK
      <4>2. /\ recent' = Push(recent, Verdict(x, config))
            /\ since' = Longer(since)
        BY <2>4, <4>1 DEF Sample
      <4>3. /\ machine'.high = Counted(machine.high, "high", Verdict(x, config))
            /\ machine'.critical = Counted(machine.critical, "critical", Verdict(x, config))
            /\ machine'.low = Counted(machine.low, "low", Verdict(x, config))
        BY <4>1, CountType DEF Verdict, Kinds, Streak, Counted, Longer, TypeOK
      <4>4. /\ Verdict(x, config) \in SUBSET Kinds
            /\ machine.high \in 0 .. CounterCap /\ machine.critical \in 0 .. CounterCap
            /\ machine.low \in 0 .. CounterCap /\ since \in 0 .. CounterCap
            /\ recent \in [1 .. CounterCap -> SUBSET Kinds]
            /\ "high" \in Kinds /\ "critical" \in Kinds /\ "low" \in Kinds
        BY DEF Verdict, Kinds, TypeOK, Machines
      <4> QED
        BY <4>2, <4>3, <4>4, StreakStep DEF CountersAreStreaks
    <3>3. CASE Due(counted, config) # machine.state
      <4>1. /\ machine'.high = 0 /\ machine'.critical = 0 /\ machine'.low = 0
            /\ machine'.state # machine.state
        BY <3>1, <3>3 DEF Update, MoveTo
      <4> QED
        BY <2>1, <2>4, <4>1 DEF Sample
    <3> QED
      BY <3>2, <3>3
  <2>5. ASSUME NEW new \in States, NEW o \in Answers, Command(new, o) PROVE CountersAreStreaks'
    BY <2>3, <2>5 DEF Command, Move
  <2>6. CASE ReleaseManualHold
    <3>1. /\ machine'.high = machine.high /\ machine'.critical = machine.critical
          /\ machine'.low = machine.low
      BY <2>6 DEF ReleaseManualHold, TypeOK, Machines
    <3> QED
      BY <2>2, <2>6, <3>1 DEF ReleaseManualHold
  <2>7. ASSUME NEW o \in Answers, ForceRecoverForShutdown(o) PROVE CountersAreStreaks'
    BY <2>3, <2>7 DEF ForceRecoverForShutdown, ForceRecover, Move, States
  <2>8. ASSUME NEW c \in Configs, SetConfig(c) PROVE CountersAreStreaks'
    BY <2>2, <2>8 DEF SetConfig
  <2>9. CASE ProcessExits
    BY <2>2, <2>9 DEF ProcessExits
  <2>10. CASE UNCHANGED vars
    BY <2>2, <2>10 DEF vars, system
  <2> QED
    BY <2>4, <2>5, <2>6, <2>7, <2>8, <2>9, <2>10 DEF Next
<1> QED
  BY <1>1, <1>2, TypeCorrect, PTL DEF Spec
-----------------------------------------------------------------------------
(* Every step of the machine is a sample, a forced move or neither.  The   *)
(* invariants below are proved for the three.                              *)
LEMMA StepCases ==
  ASSUME TypeOK, [Next]_vars
  PROVE  \/ \E x \in Pressures, o \in Answers : Sample(x, o)
         \/ \E new \in States, hold \in BOOLEAN, o \in Answers :
              Move(ForceState(machine, new, hold), o) /\ Restart /\ UNCHANGED recent
         \/ /\ UNCHANGED <<target, clean, handle, history>>
            /\ running' \in {running, FALSE}
            /\ \/ UNCHANGED config /\ \E h \in BOOLEAN : machine' = [machine EXCEPT !.hold = h]
               \/ config' \in Configs /\ UNCHANGED machine
<1>1. ASSUME NEW new \in States, NEW o \in Answers, Command(new, o)
      PROVE  Move(ForceState(machine, new, TRUE), o) /\ Restart /\ UNCHANGED recent
  BY <1>1 DEF Command
<1>2. ASSUME NEW o \in Answers, ForceRecoverForShutdown(o)
      PROVE  Move(ForceState(machine, "normal", FALSE), o) /\ Restart /\ UNCHANGED recent
  BY <1>2 DEF ForceRecoverForShutdown, ForceRecover
<1>3. ReleaseManualHold =>
        /\ UNCHANGED <<config, target, clean, handle, history>> /\ running' = running
        /\ machine' = [machine EXCEPT !.hold = FALSE]
  BY DEF ReleaseManualHold
<1>4. ASSUME NEW c \in Configs, SetConfig(c)
      PROVE  /\ UNCHANGED <<target, clean, handle, history, machine>> /\ running' = running
             /\ config' \in Configs
  BY <1>4 DEF SetConfig
<1>5. ProcessExits \/ UNCHANGED vars =>
        /\ UNCHANGED <<target, clean, handle, history, machine>> /\ running' \in {running, FALSE}
        /\ config' \in Configs
  BY DEF ProcessExits, vars, system, history, TypeOK
<1>6. "normal" \in States
  BY DEF States
<1> QED
  BY <1>1, <1>2, <1>3, <1>4, <1>5, <1>6 DEF Next

(* The hysteresis band keeps rising and falling streaks apart. *)
THEOREM HysteresisHolds == Spec => []Hysteresis
<1>1. Init => Hysteresis
  BY DEF Init, NewMachine, Hysteresis
<1>2. TypeOK /\ Hysteresis /\ [Next]_vars => Hysteresis'
  <2> SUFFICES ASSUME TypeOK, Hysteresis, [Next]_vars PROVE Hysteresis'
    OBVIOUS
  <2>1. ASSUME NEW x \in Pressures, NEW o \in Answers, Sample(x, o) PROVE Hysteresis'
    <3> DEFINE counted == Count(machine, x, config)
    <3>1. machine' = IF Due(counted, config) = machine.state THEN counted
                     ELSE MoveTo(counted, Due(counted, config))
      BY <2>1 DEF Sample, Move, Update
    <3>2. /\ counted.high = Streak(machine.high, x >= config.throttle)
          /\ counted.critical = Streak(machine.critical, x >= config.escalate)
          /\ counted.low = Streak(machine.low, x < config.recover)
      BY CountType DEF TypeOK
    <3>3. /\ counted.high = 0 \/ counted.low = 0
          /\ counted.critical <= counted.high
      BY <3>2 DEF Streak, Hysteresis, TypeOK, Machines
    <3>4. MoveTo(counted, Due(counted, config)).high = 0
          /\ MoveTo(counted, Due(counted, config)).critical = 0
      BY DEF MoveTo
    <3> QED
      BY <3>1, <3>3, <3>4 DEF Hysteresis
  <2>2. ASSUME NEW new \in States, NEW hold \in BOOLEAN, NEW o \in Answers,
               Move(ForceState(machine, new, hold), o)
        PROVE  Hysteresis'
    <3>1. CASE machine.state = new
      <4>1. /\ machine'.high = machine.high /\ machine'.critical = machine.critical
            /\ machine'.low = machine.low
        BY <2>2, <3>1 DEF Move, ForceState, TypeOK, Machines
      <4> QED
        BY <4>1 DEF Hysteresis
    <3>2. CASE machine.state # new
      BY <2>2, <3>2 DEF Move, ForceState, MoveTo, Hysteresis
    <3> QED
      BY <3>1, <3>2
  <2>3. ASSUME NEW h \in BOOLEAN, machine' = [machine EXCEPT !.hold = h] PROVE Hysteresis'
    BY <2>3 DEF Hysteresis, TypeOK, Machines
  <2>4. CASE UNCHANGED machine
    BY <2>4 DEF Hysteresis
  <2> QED
    BY <2>1, <2>2, <2>3, <2>4, StepCases
<1> QED
  BY <1>1, <1>2, TypeCorrect, PTL DEF Spec

(* While every call reports success, the process is in the state its       *)
(* machine says.                                                           *)
THEOREM AgreementHolds == Spec => []Agreement
<1>1. Init => Agreement
  BY DEF Init, NewMachine, Agreement, Untouched
<1>2. TypeOK /\ Agreement /\ [Next]_vars => Agreement'
  <2> SUFFICES ASSUME TypeOK, Agreement, [Next]_vars PROVE Agreement'
    OBVIOUS
  <2>1. ASSUME NEW m \in Machines, NEW o \in Answers, Move(m, o) PROVE Agreement'
    <3>1. CASE m.state = machine.state
      BY <2>1, <3>1 DEF Move, Transition, Agreement
    <3>2. CASE m.state # machine.state
      <4> SUFFICES ASSUME running', clean'
                   PROVE  /\ m.state = "normal" => Untouched(target')
                          /\ m.state = "throttled" =>
                               target' = [suspended |-> 0, priority |-> "idle"]
                          /\ target'.suspended <= 1
        BY <2>1 DEF Move, Agreement
      <4>1. /\ running /\ clean
            /\ target' = Actuate(target, machine.state, m.state, o)
            /\ Succeeds(target, machine.state, m.state, o)
        BY <2>1, <3>2 DEF Move, Transition
      <4>2. /\ machine.state = "normal" => target.suspended = 0
            /\ machine.state = "throttled" => target.suspended = 0
            /\ target.suspended \in {0, 1}
        BY <4>1 DEF Agreement, Untouched, TypeOK, Targets
      <4>3. m.state \in States /\ machine.state \in States
        BY DEF TypeOK, Machines
      <4>4. CASE m.state = "suspended"
        BY <3>2, <4>1, <4>2, <4>3, <4>4 DEF Actuate, SuspendThread, States
      <4>5. CASE m.state # "suspended"
        <5>1. o.priority /\ (machine.state = "suspended" => o.complete)
          BY <4>1, <4>5 DEF Succeeds
        <5>2. target'.suspended = 0
          BY <4>1, <4>2, <4>3, <4>5, <5>1 DEF Actuate, ResumeThread, States
        <5>3. target'.priority = IF m.state = "throttled" THEN "idle" ELSE "normal"
          BY <4>1, <4>5, <5>1 DEF Actuate
        <5>4. target' = [suspended |-> target'.suspended, priority |-> target'.priority]
          BY <4>1 DEF Actuate
        <5> QED
          BY <5>2, <5>3, <5>4 DEF Untouched
      <4> QED
        BY <4>4, <4>5
    <3> QED
      BY <3>1, <3>2
  <2>2. ASSUME NEW x \in Pressures, NEW o \in Answers, Sample(x, o) PROVE Agreement'
    BY <2>1, <2>2, UpdateType DEF Sample, TypeOK
  <2>3. ASSUME NEW new \in States, NEW hold \in BOOLEAN, NEW o \in Answers,
               Move(ForceState(machine, new, hold), o)
        PROVE  Agreement'
    BY <2>1, <2>3, ForceStateType DEF TypeOK
  <2>4. ASSUME UNCHANGED <<target, clean>>, running' \in {running, FALSE},
               machine'.state = machine.state
        PROVE  Agreement'
    BY <2>4 DEF Agreement
  <2>5. ASSUME NEW h \in BOOLEAN, machine' = [machine EXCEPT !.hold = h]
        PROVE  machine'.state = machine.state
    BY <2>5 DEF TypeOK, Machines
  <2> QED
    BY <2>2, <2>3, <2>4, <2>5, StepCases
<1> QED
  BY <1>1, <1>2, TypeCorrect, PTL DEF Spec
-----------------------------------------------------------------------------
(* A counter at its threshold and a sustained window are the same thing,   *)
(* seen from the sample just counted.                                      *)
LEMMA WindowIsCounter ==
  ASSUME TypeOK, CountersAreStreaks, NEW x \in Pressures,
         recent' = Push(recent, Verdict(x, config)),
         NEW k \in 1 .. CounterCap
  PROVE  /\ Graded!Sustained(k, "high") <=> Count(machine, x, config).high >= k
         /\ Graded!Sustained(k, "critical") <=> Count(machine, x, config).critical >= k
         /\ Graded!Sustained(k, "low") <=> Count(machine, x, config).low >= k
<1> DEFINE v == Verdict(x, config)
           counted == Count(machine, x, config)
<1>1. /\ v \in SUBSET Kinds
      /\ machine.high \in 0 .. CounterCap /\ machine.critical \in 0 .. CounterCap
      /\ machine.low \in 0 .. CounterCap /\ since \in 0 .. CounterCap
      /\ recent \in [1 .. CounterCap -> SUBSET Kinds]
      /\ "high" \in Kinds /\ "critical" \in Kinds /\ "low" \in Kinds
  BY DEF Verdict, Kinds, TypeOK, Machines
<1>2. /\ counted.high = Counted(machine.high, "high", v)
      /\ counted.critical = Counted(machine.critical, "critical", v)
      /\ counted.low = Counted(machine.low, "low", v)
  BY CountType DEF Verdict, Kinds, Streak, Counted, Longer, TypeOK
<1> HIDE DEF v, counted
<1>3. /\ Counts(counted.high, "high", recent', Longer(since))
      /\ Counts(counted.critical, "critical", recent', Longer(since))
      /\ Counts(counted.low, "low", recent', Longer(since))
  BY <1>1, <1>2, StreakStep DEF CountersAreStreaks, v
<1>4. k <= Longer(since) <=> k <= since + 1
  BY <1>1 DEF Longer
<1> QED
  BY <1>3, <1>4 DEF Counts, Graded!Sustained, counted

(* The counters, the reset on every transition and the order of the three  *)
(* tests implement the promise stated over windows of recent samples.      *)
THEOREM Implements == Spec => KeepsPromise
<1>1. Init => Graded!Init
  BY DEF Init, Graded!Init, NewMachine
<1>2. TypeOK /\ TypeOK' /\ CountersAreStreaks /\ [Next]_vars => [Graded!Next]_(Graded!vars)
  <2> SUFFICES ASSUME TypeOK, TypeOK', CountersAreStreaks, [Next]_vars
               PROVE  Graded!Next \/ UNCHANGED Graded!vars
    OBVIOUS
  <2>1. ASSUME NEW x \in Pressures, NEW o \in Answers, Sample(x, o)
        PROVE  Graded!Sample(Verdict(x, config))
    <3> DEFINE counted == Count(machine, x, config)
               due == Due(counted, config)
    <3>1. /\ machine' = IF due = machine.state THEN counted ELSE MoveTo(counted, due)
          /\ recent' = Push(recent, Verdict(x, config))
          /\ since' = IF machine'.state # machine.state THEN 0 ELSE Longer(since)
          /\ config' = config
      BY <2>1 DEF Sample, Move, Update
    <3>2. counted.state = machine.state /\ counted.hold = machine.hold
      BY CountType DEF TypeOK
    <3>3. machine'.state = due /\ machine'.hold = machine.hold
      BY <3>1, <3>2 DEF MoveTo
    <3>4. /\ Graded!Throttle <=> machine.state = "normal" /\ counted.high >= config.throttleSamples
          /\ Graded!Escalate <=>
               machine.state = "throttled" /\ counted.critical >= config.escalateSamples
          /\ Graded!Relax <=> machine.state # "normal" /\ counted.low >= config.recoverSamples
      <4>1. /\ config.throttleSamples \in 1 .. CounterCap
            /\ config.escalateSamples \in 1 .. CounterCap
            /\ config.recoverSamples \in 1 .. CounterCap
        BY DEF TypeOK
      <4> QED
        BY <3>1, <4>1, WindowIsCounter
           DEF Graded!Throttle, Graded!Escalate, Graded!Relax
    <3>5. machine.state \in States /\ machine.hold \in BOOLEAN
          /\ counted.critical \in Int /\ config.escalateSamples \in Int
      <4>1. counted \in Machines
        BY CountType DEF TypeOK
      <4>2. counted.critical \in 0 .. CounterCap
        BY <4>1 DEF Machines
      <4>3. config.escalateSamples \in 1 .. CounterCap
        BY DEF TypeOK
      <4>4. counted.critical \in Int
        BY <4>2
      <4>5. config.escalateSamples \in Int
        BY <4>3
      <4>6. machine \in Machines
        BY DEF TypeOK
      <4>7. machine.state \in States /\ machine.hold \in BOOLEAN
        BY <4>6 DEF Machines
      <4> QED
        BY <4>4, <4>5, <4>7
    <3>6. /\ Graded!Push(Verdict(x, config)) = recent'
          /\ Graded!Keep <=> machine'.state = machine.state /\ since' = Longer(since)
          /\ \A new : Graded!Change(new) <=> machine'.state = new /\ since' = 0
      BY <3>1 DEF Graded!Push, Push, Graded!Keep, Graded!Change, Longer
    <3>7. \/ ~machine.hold /\ Graded!Throttle /\ Graded!Change("throttled")
          \/ ~machine.hold /\ Graded!Escalate /\ Graded!Change("suspended")
          \/ ~machine.hold /\ Graded!Relax /\ ~Graded!Escalate /\ Graded!Change("normal")
          \/ /\ machine.hold \/ ~(Graded!Throttle \/ Graded!Escalate \/ Graded!Relax)
             /\ Graded!Keep
      <4>1. CASE machine.hold
        <5>1. due = machine.state
          BY <3>2, <4>1 DEF Due
        <5> QED
          BY <3>1, <3>3, <3>6, <4>1, <5>1
      <4>2. CASE ~machine.hold /\ Graded!Throttle
        <5>1. due = "throttled" /\ machine.state = "normal"
          BY <3>2, <3>4, <4>2 DEF Due
        <5> QED
          BY <3>1, <3>3, <3>6, <4>2, <5>1
      <4>3. CASE ~machine.hold /\ Graded!Escalate
        <5>1. due = "suspended" /\ machine.state = "throttled"
          BY <3>2, <3>4, <3>5, <4>3 DEF Due
        <5> QED
          BY <3>1, <3>3, <3>6, <4>3, <5>1
      <4>4. CASE ~machine.hold /\ Graded!Relax /\ ~Graded!Escalate
        <5>1. due = "normal" /\ machine.state # "normal"
          BY <3>2, <3>4, <3>5, <4>4 DEF Due, States
        <5> QED
          BY <3>1, <3>3, <3>6, <4>4, <5>1
      <4>5. CASE ~machine.hold /\ ~(Graded!Throttle \/ Graded!Escalate \/ Graded!Relax)
        <5>1. due = machine.state
          BY <3>2, <3>4, <3>5, <4>5 DEF Due, States
        <5> QED
          BY <3>1, <3>3, <3>6, <4>5, <5>1
      <4> QED
        BY <4>1, <4>2, <4>3, <4>4, <4>5
    <3> QED
      BY <3>1, <3>3, <3>6, <3>7 DEF Graded!Sample
  <2>2. ASSUME NEW new \in States, NEW hold \in BOOLEAN, NEW o \in Answers,
               Move(ForceState(machine, new, hold), o), Restart, UNCHANGED recent
        PROVE  Graded!Override(new, hold)
    <3>1. machine'.state = new /\ machine'.hold = hold /\ config' = config
      BY <2>2, ForceStateType DEF Move, TypeOK
    <3> QED
      BY <2>2, <3>1 DEF Restart, Graded!Override, Graded!Change
  <2>3. ASSUME NEW h \in BOOLEAN, machine' = [machine EXCEPT !.hold = h],
               UNCHANGED <<config, history>>
        PROVE  Graded!Override(machine.state, h)
    BY <2>3 DEF Graded!Override, TypeOK, Machines, history
  <2>4. ASSUME config' \in Configs, UNCHANGED <<machine, history>>
        PROVE  Graded!Reconfigure
    BY <2>4 DEF Graded!Reconfigure, history
  <2>5. /\ \A x \in Pressures : Verdict(x, config) \in SUBSET Kinds
        /\ States = Graded!Modes
        /\ machine.state \in States
    BY DEF Verdict, States, Graded!Modes, TypeOK, Machines
  <2> QED
    BY <2>1, <2>2, <2>3, <2>4, <2>5, StepCases DEF Graded!Next
<1> QED
  BY <1>1, <1>2, TypeCorrect, CountersExact, PTL DEF Spec, KeepsPromise, Graded!Spec
=============================================================================
