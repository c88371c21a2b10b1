--------------------------- MODULE Telemetry_proofs ---------------------------
(***************************************************************************)
(* Proofs about Telemetry, for any number of PIDs and of processes that    *)
(* are started.                                                            *)
(***************************************************************************)
EXTENDS Telemetry, TLAPS

-----------------------------------------------------------------------------
(* The inductive invariant.                                                *)

(* Start times are handed out once: nothing refers to a later process.     *)
Past ==
  \A p \in Pids : /\ proc[p] # Nothing => proc[p].start <= starts
                  /\ cache[p] # Nothing => cache[p].start <= starts

(* Outside Filter() no process is left over or half looked at. *)
Between == step # "filter" => left = {} /\ current = NoPid

(* A cached match is right about the process it was made for.              *)
Verified ==
  \A p \in Pids :
    cache[p] # Nothing /\ cache[p].ok /\ proc[p] # Nothing /\ proc[p].start = cache[p].start
      => proc[p].kind = "genuine"

(* What the filter let through is the pinned program, unless it judged     *)
(* another process or none.                                                *)
Passed ==
  step \in {"filter", "drop", "open"} /\ pinned =>
    \A p \in passed : proc[p] # Nothing /\ p \notin unjudged => proc[p].kind = "genuine"

(* What ran before the poll looked is in a snapshot that worked. *)
InSnapshot ==
  step \in {"filter", "drop", "open"} =>
    \A p \in Pids : Listed(p) /\ p \notin unjudged => blind \/ p \in snapshot

(* What the filter let through and can be opened is an instance. *)
AllOpened ==
  step = "sample" =>
    \A p \in Pids : Listed(p) /\ Opens(p) /\ p \notin unjudged =>
      Holds(p) \/ blind \/ p \in snapshot \ passed

Silent == step # "idle" => fed = "nothing"

IInv ==
  TypeOK /\ Past /\ Between /\ Verified /\ Passed /\ InSnapshot /\ AllOpened /\ Silent
    /\ NoImpostor /\ ZeroMeansNobody

(* A process that starts disturbs no part of the invariant: its PID is free. *)
LEMMA StartsStep ==
  ASSUME IInv, NEW p \in Pids, NEW kind \in Kinds, ProcessStarts(p, kind)
  PROVE  IInv'
<1> USE TelemetryAssumption DEF IInv, ProcessStarts, os, tracked, filter, reading, sampled
<1>1. TypeOK'
  <2>1. /\ starts' = starts + 1 /\ starts' \in 1 .. MaxStarts
        /\ proc[p] = Nothing /\ UNCHANGED <<instances, cache, told, startRead>>
    BY DEF TypeOK
  <2>2. proc' \in [Pids -> Processes \cup {Nothing}]
    BY <2>1 DEF TypeOK, Processes
  <2>3. \A q \in Pids : Holds(q)' => proc'[q] # Nothing /\ proc'[q].start = instances'[q].start
    BY <2>1 DEF TypeOK, Holds
  <2>4. startRead' \in 0 .. starts' /\ told' \subseteq 1 .. starts'
    BY <2>1 DEF TypeOK
  <2> QED
    BY <2>1, <2>2, <2>3, <2>4 DEF TypeOK
<1>2. Past'
  BY DEF TypeOK, Past, Processes, Verdicts
<1>3. Between'
  BY DEF TypeOK, Between
<1>4. Verified'
  BY DEF TypeOK, Past, Verified, Processes
<1>5. Passed'
  BY DEF TypeOK, Past, Passed, Processes
<1>6. InSnapshot'
  BY DEF TypeOK, InSnapshot, Listed, Processes
<1>7. AllOpened'
  BY DEF TypeOK, AllOpened, Opens, Holds, Listed, Processes
<1>8. Silent'
  BY DEF Silent
<1>9. NoImpostor'
  BY DEF TypeOK, NoImpostor, Holds, Processes
<1>10. ZeroMeansNobody'
  BY DEF TypeOK, ZeroMeansNobody, Silent, Opens, Holds, Listed, Processes
<1> QED
  BY <1>1, <1>2, <1>3, <1>4, <1>5, <1>6, <1>7, <1>8, <1>9, <1>10

(* A process that exits only ends instances. *)
LEMMA ExitsStep ==
  ASSUME IInv, NEW p \in Pids, ProcessExits(p)
  PROVE  IInv'
<1> USE TelemetryAssumption DEF IInv, ProcessExits, os, tracked, filter, reading, sampled
<1>1. TypeOK'
  <2>1. /\ proc \in [Pids -> Processes \cup {Nothing}] /\ proc[p] \in Processes
        /\ proc' = [proc EXCEPT ![p] = [proc[p] EXCEPT !.alive = FALSE]]
    BY DEF TypeOK
  <2>2. [proc[p] EXCEPT !.alive = FALSE] \in Processes /\ proc[p].start = proc'[p].start
    BY <2>1 DEF Processes
  <2>3. \A q \in Pids : Holds(q) => proc'[q] # Nothing /\ proc'[q].start = instances[q].start
    BY <2>1, <2>2 DEF TypeOK
  <2> QED
    BY <2>1, <2>2, <2>3 DEF TypeOK, Holds
<1>2. Past'
  BY DEF TypeOK, Past, Processes
<1>3. Between'
  BY DEF TypeOK, Between
<1>4. Verified'
  BY DEF TypeOK, Past, Verified, Processes
<1>5. Passed'
  BY DEF TypeOK, Past, Passed, Processes
<1>6. InSnapshot'
  BY DEF TypeOK, InSnapshot, Listed, Processes
<1>7. AllOpened'
  BY DEF TypeOK, AllOpened, Opens, Holds, Listed, Processes
<1>8. Silent'
  BY DEF Silent
<1>9. NoImpostor'
  BY DEF TypeOK, NoImpostor, Holds, Processes
<1>10. ZeroMeansNobody'
  BY DEF TypeOK, ZeroMeansNobody, Silent, Opens, Holds, Listed, Processes
<1> QED
  BY <1>1, <1>2, <1>3, <1>4, <1>5, <1>6, <1>7, <1>8, <1>9, <1>10

(* A PID becomes free only when no handle is held on it. *)
LEMMA VanishesStep ==
  ASSUME IInv, NEW p \in Pids, ProcessVanishes(p)
  PROVE  IInv'
<1> USE TelemetryAssumption DEF IInv, ProcessVanishes, os, tracked, filter, reading, sampled
<1>1. TypeOK'
  BY DEF TypeOK, Holds, Processes, Past
<1>2. Past'
  BY DEF TypeOK, Past, Processes
<1>3. Between'
  BY DEF TypeOK, Between
<1>4. Verified'
  BY DEF TypeOK, Past, Verified, Processes
<1>5. Passed'
  BY DEF TypeOK, Past, Passed, Processes
<1>6. InSnapshot'
  BY DEF TypeOK, InSnapshot, Listed, Processes
<1>7. AllOpened'
  BY DEF TypeOK, AllOpened, Opens, Holds, Listed, Processes
<1>8. Silent'
  BY DEF Silent
<1>9. NoImpostor'
  BY DEF TypeOK, NoImpostor, Holds, Processes
<1>10. ZeroMeansNobody'
  BY DEF TypeOK, ZeroMeansNobody, Silent, Opens, Holds, Listed, Processes
<1> QED
  BY <1>1, <1>2, <1>3, <1>4, <1>5, <1>6, <1>7, <1>8, <1>9, <1>10

(* A reload empties the cache and may pin another program. *)
LEMMA ReloadStep ==
  ASSUME IInv, Reload
  PROVE  IInv'
<1> USE TelemetryAssumption DEF IInv, Reload, os, tracked, filter, reading, sampled
<1>1. TypeOK'
  BY DEF TypeOK, Holds, Processes, Past
<1>2. Past'
  BY DEF TypeOK, Past, Processes
<1>3. Between'
  BY DEF TypeOK, Between
<1>4. Verified'
  BY DEF TypeOK, Past, Verified, Processes
<1>5. Passed'
  BY DEF TypeOK, Past, Passed, Processes
<1>6. InSnapshot'
  BY DEF TypeOK, InSnapshot, Listed, Processes
<1>7. AllOpened'
  BY DEF TypeOK, AllOpened, Opens, Holds, Listed, Processes
<1>8. Silent'
  BY DEF Silent
<1>9. NoImpostor'
  BY DEF TypeOK, NoImpostor, Holds, Processes
<1>10. ZeroMeansNobody'
  BY DEF TypeOK, ZeroMeansNobody, Silent, Opens, Holds, Listed, Processes
<1> QED
  BY <1>1, <1>2, <1>3, <1>4, <1>5, <1>6, <1>7, <1>8, <1>9, <1>10

(* A poll starts with a snapshot of what runs, or an empty one. *)
LEMMA SnapshotStep ==
  ASSUME IInv, SnapshotProcesses
  PROVE  IInv'
<1> USE TelemetryAssumption DEF IInv, SnapshotProcesses, os, tracked, filter, reading, sampled
<1>1. TypeOK'
  BY DEF TypeOK, Holds, Listed, Between, Past
<1>2. Past'
  BY DEF TypeOK, Past, Processes
<1>3. Between'
  BY DEF TypeOK, Between
<1>4. Verified'
  BY DEF TypeOK, Past, Verified, Processes
<1>5. Passed'
  BY DEF TypeOK, Past, Passed, Processes
<1>6. InSnapshot'
  BY DEF TypeOK, InSnapshot, Listed, Processes
<1>7. AllOpened'
  BY DEF TypeOK, AllOpened, Opens, Holds, Listed, Processes
<1>8. Silent'
  BY DEF Silent
<1>9. NoImpostor'
  BY DEF TypeOK, NoImpostor, Holds, Processes
<1>10. ZeroMeansNobody'
  BY DEF TypeOK, ZeroMeansNobody, Silent, Opens, Holds, Listed, Processes
<1> QED
  BY <1>1, <1>2, <1>3, <1>4, <1>5, <1>6, <1>7, <1>8, <1>9, <1>10

(* StartTime() gives the start time of the process that is there, or zero. *)
LEMMA StartTimeRight ==
  ASSUME IInv, NEW p \in Pids
  PROVE  /\ StartTime(p) \in 0 .. starts
         /\ StartTime(p) # 0 => proc[p] # Nothing /\ StartTime(p) = proc[p].start
         /\ proc[p] # Nothing => proc[p].start \in 1 .. starts
BY TelemetryAssumption DEF IInv, TypeOK, Past, StartTime, Opens, Processes

(* A verdict that is known stands. *)
LEMMA ReadStartStep ==
  ASSUME IInv, NEW p \in Pids, ReadStart(p)
  PROVE  IInv'
<1> USE TelemetryAssumption DEF IInv, ReadStart, Judge, os, tracked, filter, reading, sampled
<1>1. TypeOK'
  <2>1. /\ UNCHANGED <<proc, starts, pinned, blind, twice, ended, step, snapshot, denied, cache>>
        /\ UNCHANGED <<instances, lastExited, fed, unread, told>>
        /\ unjudged' \subseteq Pids
    BY DEF TypeOK
  <2>2. left' \subseteq snapshot /\ passed' \subseteq snapshot /\ left' \cap passed' = {}
    BY DEF TypeOK
  <2>3. current' \in left' \cup {NoPid}
    BY DEF TypeOK
  <2>4. startRead' \in 0 .. starts
    BY StartTimeRight DEF TypeOK
  <2> QED
    BY <2>1, <2>2, <2>3, <2>4 DEF TypeOK, Holds
<1>2. Past'
  BY DEF TypeOK, Past, Processes
<1>3. Between'
  BY DEF TypeOK, Between
<1>4. Verified'
  BY DEF TypeOK, Past, Verified, Processes
<1>5. Passed'
  <2>1. UNCHANGED <<proc, pinned, step, cache>> /\ step = "filter"
    OBVIOUS
  <2>2. \A q \in passed' : q \notin unjudged' =>
          \/ q \in passed /\ q \notin unjudged
          \/ q = p /\ cache[p].ok /\ StartTime(p) # 0 /\ Known(p, StartTime(p))
    <3>1. PICK start \in {StartTime(p), 0} :
            IF Known(p, start)
            THEN /\ Judge(p, cache[p].ok)
                 /\ unjudged' = IF start = 0 THEN unjudged \cup {p} ELSE unjudged \ {p}
            ELSE UNCHANGED <<passed, unjudged>>
      BY DEF ReadStart
    <3>2. p \notin passed
      BY DEF TypeOK
    <3> HIDE DEF IInv, ReadStart
    <3>3. CASE Known(p, start)
      BY <3>1, <3>2, <3>3
    <3>4. CASE ~Known(p, start)
      BY <3>1, <3>4
    <3> QED
      BY <3>3, <3>4
  <2>3. Known(p, StartTime(p)) /\ cache[p].ok /\ StartTime(p) # 0 => proc[p].kind = "genuine"
    BY StartTimeRight DEF Known, Verified
  <2> QED
    BY <2>1, <2>2, <2>3 DEF Passed
<1>6. InSnapshot'
  BY DEF TypeOK, InSnapshot, Listed, Processes
<1>7. AllOpened'
  BY DEF TypeOK, AllOpened, Opens, Holds, Listed, Processes
<1>8. Silent'
  BY DEF Silent
<1>9. NoImpostor'
  BY DEF TypeOK, NoImpostor, Holds, Processes
<1>10. ZeroMeansNobody'
  BY DEF TypeOK, ZeroMeansNobody, Silent, Opens, Holds, Listed, Processes
<1> QED
  BY <1>1, <1>2, <1>3, <1>4, <1>5, <1>6, <1>7, <1>8, <1>9, <1>10

(* A new verdict is about the process whose path was read. *)
LEMMA ReadPathStep ==
  ASSUME IInv, NEW p \in Pids, ReadPath(p)
  PROVE  IInv'
<1> USE TelemetryAssumption DEF IInv, ReadPath, Judge, os, tracked, filter, reading, sampled
<1>a. PICK ok \in {Matches(p), FALSE} :
        /\ Judge(p, ok)
        /\ cache' = [cache EXCEPT ![p] = [start |-> startRead, ok |-> ok]]
  OBVIOUS
<1>b. /\ ok \in BOOLEAN /\ (ok => Opens(p) /\ proc[p].kind = "genuine")
      /\ [start |-> startRead, ok |-> ok] \in Verdicts
  <2>1. ok \in BOOLEAN /\ (ok => Opens(p) /\ proc[p].kind = "genuine")
    BY <1>a DEF Matches, Opens
  <2>2. startRead \in 0 .. MaxStarts
    BY DEF TypeOK
  <2> QED
    BY <2>1, <2>2 DEF Verdicts
<1>c. /\ UNCHANGED <<proc, starts, pinned, blind, ended, step, snapshot, denied>>
      /\ UNCHANGED <<instances, lastExited, fed, unread>>
      /\ unjudged' = unjudged \ {p} /\ current' = NoPid /\ startRead' = 0
  OBVIOUS
<1>1. TypeOK'
  <2>1. /\ left' \subseteq snapshot /\ passed' \subseteq snapshot /\ left' \cap passed' = {}
        /\ unjudged' \subseteq Pids
    BY DEF TypeOK
  <2>2. cache' \in [Pids -> Verdicts \cup {Nothing}]
    BY <1>a, <1>b DEF TypeOK
  <2>3. told' \subseteq 1 .. starts
    <3>1. told' \subseteq told \/ (proc[p] # Nothing /\ told' \subseteq told \cup {proc[p].start})
      OBVIOUS
    <3>2. told \subseteq 1 .. starts
      BY DEF TypeOK
    <3> QED
      BY <3>1, <3>2, StartTimeRight
  <2>4. twice' \in BOOLEAN
    BY DEF TypeOK
  <2> QED
    BY <1>c, <2>1, <2>2, <2>3, <2>4 DEF TypeOK, Holds
<1>2. Past'
  BY DEF TypeOK, Past, Processes
<1>3. Between'
  BY DEF TypeOK, Between
<1>4. Verified'
  <2>1. cache'[p] = [start |-> startRead, ok |-> ok]
        /\ \A q \in Pids \ {p} : cache'[q] = cache[q]
    BY <1>a DEF TypeOK
  <2> QED
    BY <1>b, <1>c, <2>1 DEF Verified
<1>5. Passed'
  <2>1. passed' \subseteq passed \cup {p} /\ (p \in passed' => ok)
    BY <1>a, <1>b DEF TypeOK
  <2> QED
    BY <1>b, <1>c, <2>1 DEF Passed, TypeOK
<1>6. InSnapshot'
  BY DEF TypeOK, InSnapshot, Listed, Processes
<1>7. AllOpened'
  BY DEF TypeOK, AllOpened, Opens, Holds, Listed, Processes
<1>8. Silent'
  BY DEF Silent
<1>9. NoImpostor'
  BY DEF TypeOK, NoImpostor, Holds, Processes
<1>10. ZeroMeansNobody'
  BY DEF TypeOK, ZeroMeansNobody, Silent, Opens, Holds, Listed, Processes
<1> QED
  BY <1>1, <1>2, <1>3, <1>4, <1>5, <1>6, <1>7, <1>8, <1>9, <1>10

(* The cache forgets what the snapshot does not list. *)
LEMMA FilterEndsStep ==
  ASSUME IInv, FilterEnds
  PROVE  IInv'
<1> USE TelemetryAssumption DEF IInv, FilterEnds, os, tracked, filter, reading, sampled
<1>1. TypeOK'
  BY DEF TypeOK, Holds, Processes, Past
<1>2. Past'
  BY DEF TypeOK, Past, Processes
<1>3. Between'
  BY DEF TypeOK, Between
<1>4. Verified'
  BY DEF TypeOK, Past, Verified, Processes
<1>5. Passed'
  BY DEF TypeOK, Past, Passed, Processes
<1>6. InSnapshot'
  BY DEF TypeOK, InSnapshot, Listed, Processes
<1>7. AllOpened'
  BY DEF TypeOK, AllOpened, Opens, Holds, Listed, Processes
<1>8. Silent'
  BY DEF Silent
<1>9. NoImpostor'
  BY DEF TypeOK, NoImpostor, Holds, Processes
<1>10. ZeroMeansNobody'
  BY DEF TypeOK, ZeroMeansNobody, Silent, Opens, Holds, Listed, Processes
<1> QED
  BY <1>1, <1>2, <1>3, <1>4, <1>5, <1>6, <1>7, <1>8, <1>9, <1>10

(* Instances that have ended are dropped before others are opened. *)
LEMMA DropStep ==
  ASSUME IInv, DropExited
  PROVE  IInv'
<1> USE TelemetryAssumption DEF IInv, DropExited, os, tracked, filter, reading, sampled
<1>1. TypeOK'
  BY DEF TypeOK, Holds, Processes, Past
<1>2. Past'
  BY DEF TypeOK, Past, Processes
<1>3. Between'
  BY DEF TypeOK, Between
<1>4. Verified'
  BY DEF TypeOK, Past, Verified, Processes
<1>5. Passed'
  BY DEF TypeOK, Past, Passed, Processes
<1>6. InSnapshot'
  BY DEF TypeOK, InSnapshot, Listed, Processes
<1>7. AllOpened'
  BY DEF TypeOK, AllOpened, Opens, Holds, Listed, Processes
<1>8. Silent'
  BY DEF Silent
<1>9. NoImpostor'
  BY DEF TypeOK, NoImpostor, Holds, Processes
<1>10. ZeroMeansNobody'
  BY DEF TypeOK, ZeroMeansNobody, Silent, Opens, Holds, Listed, Processes
<1> QED
  BY <1>1, <1>2, <1>3, <1>4, <1>5, <1>6, <1>7, <1>8, <1>9, <1>10

(* An instance just opened is a well-formed one. *)
LEMMA OpenedInstance ==
  ASSUME TypeOK, NEW p \in passed, Opens(p)
  PROVE  Instance(p) \in Instances /\ Instance(p) # Nothing
<1>1. p \in Pids /\ proc[p] \in Processes /\ pinned \in BOOLEAN
  BY DEF TypeOK, Opens
<1>2. Instance(p) \in Instances
  BY <1>1 DEF Instance, Instances, Processes
<1> QED
  BY <1>2, TelemetryAssumption

(* What is opened is what the filter let through. *)
LEMMA OpenStep ==
  ASSUME IInv, Open
  PROVE  IInv'
<1> USE TelemetryAssumption DEF IInv, os, filter, reading, sampled
<1> DEFINE opened == {p \in passed : ~Holds(p) /\ Opens(p)}
<1>1. /\ UNCHANGED <<os, snapshot, blind, unjudged, reading, filter, ended, sampled>>
      /\ step = "open" /\ step' = "sample"
      /\ instances' = [p \in Pids |-> IF p \in opened THEN Instance(p) ELSE instances[p]]
      /\ lastExited' \in {lastExited, NoPid} /\ denied' \subseteq denied \cup passed
  BY DEF Open
<1>2. \A p \in opened : /\ p \in Pids /\ proc[p] # Nothing
                        /\ Instance(p) \in Instances /\ Instance(p) # Nothing
                        /\ Instance(p).start = proc[p].start
                        /\ Instance(p).checked => proc[p].kind = "genuine"
  <2> SUFFICES ASSUME NEW p \in opened
               PROVE  /\ p \in Pids /\ proc[p] # Nothing
                      /\ Instance(p) \in Instances /\ Instance(p) # Nothing
                      /\ Instance(p).start = proc[p].start
                      /\ Instance(p).checked => proc[p].kind = "genuine"
    OBVIOUS
  <2>1. p \in passed /\ p \in Pids /\ proc[p] # Nothing /\ proc[p] \in Processes
    BY DEF TypeOK, Opens
  <2>2. pinned \in BOOLEAN
    BY DEF TypeOK
  <2>3. Instance(p) \in Instances /\ Instance(p) # Nothing
    BY OpenedInstance
  <2>4. Instance(p).checked => proc[p].kind = "genuine"
    BY <1>1, <2>1, <2>2 DEF Instance, Passed
  <2> QED
    BY <2>1, <2>3, <2>4 DEF Instance
<1>3. \A p \in Pids : instances'[p] = IF p \in opened THEN Instance(p) ELSE instances[p]
  BY <1>1
<1>4. TypeOK'
  <2>1. instances' \in [Pids -> Instances \cup {Nothing}]
    BY <1>1, <1>2 DEF TypeOK
  <2>2. \A p \in Pids : instances'[p] # Nothing =>
          proc'[p] # Nothing /\ proc'[p].start = instances'[p].start
    BY <1>1, <1>2, <1>3 DEF TypeOK, Holds
  <2> QED
    BY <1>1, <2>1, <2>2 DEF TypeOK, Holds
<1>5. AllOpened'
  BY <1>1, <1>2, <1>3 DEF AllOpened, InSnapshot, Opens, Holds, Listed, TypeOK
<1>6. NoImpostor'
  BY <1>1, <1>2, <1>3 DEF NoImpostor, Holds
<1>7. Past' /\ Between' /\ Verified' /\ Silent'
  BY <1>1 DEF Past, Between, Verified, Silent
<1>8. Passed' /\ InSnapshot'
  BY <1>1 DEF Passed, InSnapshot
<1>9. ZeroMeansNobody'
  BY <1>1 DEF ZeroMeansNobody, Silent
<1> QED
  BY <1>4, <1>5, <1>6, <1>7, <1>8, <1>9

(* A poll feeds zero only when no instance's times could be read. *)
LEMMA SampleStep ==
  ASSUME IInv, Sample
  PROVE  IInv'
<1> USE TelemetryAssumption DEF IInv, os, tracked, filter, reading
<1>1. PICK read \in SUBSET {p \in Pids : Holds(p)} :
        /\ unread' = {p \in Pids : Holds(p)} \ read
        /\ \E valid \in SUBSET {p \in read : instances[p].primed} : fed' = Feeds(read, valid)
        /\ instances' = [p \in Pids |-> IF p \in read THEN [instances[p] EXCEPT !.primed = TRUE]
                                        ELSE instances[p]]
  BY DEF Sample
<1>2. /\ UNCHANGED <<os, snapshot, blind, unjudged, reading, filter, lastExited, denied, ended>>
      /\ step = "sample" /\ step' = "idle"
  BY DEF Sample
<1>3. \A p \in Pids :
        /\ Holds(p) => /\ instances'[p] \in Instances /\ instances'[p] # Nothing
                       /\ instances'[p].start = instances[p].start
                       /\ instances'[p].checked = instances[p].checked
        /\ ~Holds(p) => instances'[p] = Nothing
  <2> SUFFICES ASSUME NEW p \in Pids
               PROVE  /\ Holds(p) => /\ instances'[p] \in Instances /\ instances'[p] # Nothing
                                     /\ instances'[p].start = instances[p].start
                                     /\ instances'[p].checked = instances[p].checked
                      /\ ~Holds(p) => instances'[p] = Nothing
    OBVIOUS
  <2>1. CASE Holds(p)
    <3>1. instances[p] \in Instances
      BY <2>1 DEF TypeOK, Holds
    <3>2. instances'[p] = instances[p] \/ instances'[p] = [instances[p] EXCEPT !.primed = TRUE]
      BY <1>1
    <3>3. /\ instances'[p] \in Instances
          /\ instances'[p].start = instances[p].start
          /\ instances'[p].checked = instances[p].checked
      BY <3>1, <3>2 DEF Instances
    <3> QED
      BY <2>1, <3>3
  <2>2. CASE ~Holds(p)
    BY <1>1, <2>2 DEF Holds
  <2> QED
    BY <2>1, <2>2
<1>4. TypeOK'
  <2>1. instances' \in [Pids -> Instances \cup {Nothing}]
    BY <1>1, <1>3
  <2>2. fed' \in {"nothing", "zero", "pressure"}
    BY <1>1 DEF Feeds
  <2>3. unread' \subseteq Pids
    BY <1>1
  <2> QED
    BY <1>2, <1>3, <2>1, <2>2, <2>3 DEF TypeOK, Holds
<1>5. Past' /\ Between' /\ Verified' /\ Passed' /\ InSnapshot' /\ AllOpened' /\ Silent'
  BY <1>2 DEF Past, Between, Verified, Passed, InSnapshot, AllOpened, Silent
<1>6. NoImpostor'
  BY <1>2, <1>3 DEF NoImpostor, Holds
<1>7. ZeroMeansNobody'
  <2> SUFFICES ASSUME fed' = "zero", NEW p \in Pids, Listed(p), Opens(p), p \notin unjudged
               PROVE  p \in unread' \/ (instances'[p] = Nothing /\ (blind \/ p \in snapshot \ passed))
    BY <1>2 DEF ZeroMeansNobody, Listed, Opens, Holds
  <2>1. read = {}
    BY <1>1 DEF Feeds
  <2>2. Holds(p) => p \in unread'
    BY <1>1, <2>1
  <2>3. ~Holds(p) => instances'[p] = Nothing /\ (blind \/ p \in snapshot \ passed)
    BY <1>2, <1>3 DEF AllOpened
  <2> QED
    BY <2>2, <2>3
<1> QED
  BY <1>4, <1>5, <1>6, <1>7

(* The inductive invariant holds in every state. *)
LEMMA Invariant == Spec => []IInv
<1>1. Init => IInv
  <2> SUFFICES ASSUME Init PROVE IInv
    OBVIOUS
  <2>1. TypeOK
    <3>1. starts \in 0 .. MaxStarts /\ startRead \in 0 .. starts /\ told \subseteq 1 .. starts
      BY TelemetryAssumption DEF Init
    <3>2. /\ proc \in [Pids -> Processes \cup {Nothing}]
          /\ cache \in [Pids -> Verdicts \cup {Nothing}]
          /\ instances \in [Pids -> Instances \cup {Nothing}]
          /\ \A p \in Pids : cache[p] = Nothing /\ instances[p] = Nothing
      BY DEF Init
    <3> QED
      BY <3>1, <3>2 DEF Init, TypeOK, Holds
  <2> QED
    BY <2>1 DEF Init, IInv, Past, Between, Verified, Passed, InSnapshot, AllOpened, Silent,
       NoImpostor, ZeroMeansNobody, Holds, Listed
<1>2. IInv /\ [Next]_vars => IInv'
  <2>1. IInv /\ UNCHANGED vars => IInv'
    BY DEF IInv, vars, os, tracked, filter, reading, sampled, TypeOK, Past, Between, Verified,
       Passed, InSnapshot, AllOpened, Silent, NoImpostor, ZeroMeansNobody, Holds, Opens, Listed
  <2> QED
    BY <2>1, StartsStep, ExitsStep, VanishesStep, ReloadStep, SnapshotStep, ReadStartStep,
       ReadPathStep, FilterEndsStep, DropStep, OpenStep, SampleStep DEF Next, Poll, Filter, Churn
<1> QED
  BY <1>1, <1>2, PTL DEF Spec

-----------------------------------------------------------------------------
(* Every variable stays in its range, and an instance is the process that  *)
(* has its PID (ProcessMonitor.cpp:79-101).                                *)
THEOREM TypeCorrect == Spec => []TypeOK
  BY Invariant, PTL DEF IInv

(* When the state machines are fed zero (Daemon.cpp:428-432), a process    *)
(* that ran before the poll looked and can be opened was turned down by    *)
(* the filter, or one of the calls failed: the snapshot, or the reading of *)
(* its times.                                                              *)
THEOREM ZeroIsNobody == Spec => []ZeroMeansNobody
  BY Invariant, PTL DEF IInv

(* A pinned name has no other program for an instance, whichever PIDs are  *)
(* handed on (ProcessIdentity.cpp:116-145).                                *)
THEOREM OnlyThePinned == Spec => []NoImpostor
  BY Invariant, PTL DEF IInv

(* While no instance is left, the last one that has ended is remembered,   *)
(* so a restart is known as one (ProcessMonitor.cpp:94).                   *)
THEOREM RestartsKnown == Spec => []RestartKnown
<1> USE TelemetryAssumption
<1>1. Init => RestartKnown
  BY DEF Init, RestartKnown
<1>2. IInv /\ RestartKnown /\ [Next]_vars => RestartKnown'
  <2> SUFFICES ASSUME TypeOK, RestartKnown, [Next]_vars PROVE RestartKnown'
    BY DEF IInv
  <2> USE DEF RestartKnown, Holds, os, tracked, filter, reading, sampled
  <2>1. ASSUME NEW p \in Pids, NEW kind \in Kinds, ProcessStarts(p, kind) PROVE RestartKnown'
    BY <2>1 DEF ProcessStarts
  <2>2. ASSUME NEW p \in Pids, ProcessExits(p) PROVE RestartKnown'
    BY <2>2 DEF ProcessExits
  <2>3. ASSUME NEW p \in Pids, ProcessVanishes(p) PROVE RestartKnown'
    BY <2>3 DEF ProcessVanishes
  <2>4. CASE Reload
    BY <2>4 DEF Reload
  <2>5. CASE SnapshotProcesses
    BY <2>5 DEF SnapshotProcesses
  <2>6. CASE Filter
    BY <2>6 DEF Filter, FilterEnds, ReadStart, ReadPath
  <2>7. CASE DropExited
    BY <2>7 DEF DropExited, TypeOK
  <2>8. CASE Open
    <3> DEFINE opened == {p \in passed : ~Holds(p) /\ Opens(p)}
    <3>1. /\ instances' = [p \in Pids |-> IF p \in opened THEN Instance(p) ELSE instances[p]]
          /\ lastExited' = IF opened = {} THEN lastExited ELSE NoPid
          /\ ended' = ended
      BY <2>8 DEF Open
    <3>2. CASE opened = {}
      BY <3>1, <3>2 DEF TypeOK
    <3>3. CASE opened # {}
      <4>1. PICK p \in opened : p \in Pids
        BY <3>3 DEF TypeOK
      <4>2. instances'[p] = Instance(p) /\ Instance(p) # Nothing
        BY <3>1, <4>1, OpenedInstance
      <4> QED
        BY <4>1, <4>2
    <3> QED
      BY <3>2, <3>3
  <2>9. CASE Sample
    <3>1. ASSUME NEW p \in Pids, instances[p] # Nothing PROVE instances'[p] # Nothing
      <4>1. /\ instances[p] \in Instances
            /\ \/ instances'[p] = instances[p]
               \/ instances'[p] = [instances[p] EXCEPT !.primed = TRUE]
        BY <2>9, <3>1 DEF Sample, TypeOK
      <4>2. instances'[p] \in Instances
        BY <4>1 DEF Instances
      <4> QED
        BY <4>2
    <3>2. UNCHANGED <<ended, lastExited>>
      BY <2>9 DEF Sample
    <3> QED
      BY <3>1, <3>2
  <2>10. CASE UNCHANGED vars
    BY <2>10 DEF vars
  <2> QED
    BY <2>1, <2>2, <2>3, <2>4, <2>5, <2>6, <2>7, <2>8, <2>9, <2>10
       DEF Next, Poll, Churn
<1> QED
  BY <1>1, <1>2, Invariant, PTL DEF Spec

-----------------------------------------------------------------------------
(* Why a mismatch is not reported twice: what was reported under its own   *)
(* start time and may be looked at again is in the cache, with that time.  *)

Unique ==
  \A p, q \in Pids :
    proc[p] # Nothing /\ proc[q] # Nothing /\ proc[p].start = proc[q].start => p = q

Reported(p) == proc[p] # Nothing /\ proc[p].start \in told

Remembered ==
  /\ \A p \in Pids : Reported(p) /\ (Listed(p) \/ p \in left) => Known(p, StartTime(p))
  /\ step = "filter" => \A p \in Pids : Reported(p) /\ Listed(p) => p \in snapshot

(* The path is read only when the cache has no verdict. *)
Undecided == current # NoPid => ~Known(current, startRead)

Once == Unique /\ Remembered /\ Undecided /\ MismatchOnce

(* A mismatch is reported once per process (README.md:363), unless a       *)
(* reload or a failed snapshot comes in between or the filter takes        *)
(* another start time for the process's own.                               *)
THEOREM ReportedOnce == Spec => []MismatchOnce
<1> USE TelemetryAssumption
<1>1. Init => Once
  BY DEF Init, Once, Unique, Remembered, Reported, Undecided, MismatchOnce
<1>2. IInv /\ Once /\ [Next]_vars => Once'
  <2> SUFFICES ASSUME IInv, Once, [Next]_vars PROVE Once'
    OBVIOUS
  <2> USE DEF IInv, TypeOK, Past, Between, Once, Unique, Remembered, Reported, Undecided,
          MismatchOnce, Listed, Known, StartTime, Opens, os, tracked, filter, reading, sampled
  <2>1. ASSUME NEW p \in Pids, NEW kind \in Kinds, ProcessStarts(p, kind) PROVE Once'
    BY <2>1 DEF ProcessStarts, Processes
  <2>2. ASSUME NEW p \in Pids, ProcessExits(p) PROVE Once'
    BY <2>2 DEF ProcessExits, Processes
  <2>3. ASSUME NEW p \in Pids, ProcessVanishes(p) PROVE Once'
    BY <2>3 DEF ProcessVanishes
  <2>4. CASE Reload
    BY <2>4 DEF Reload
  <2>5. CASE SnapshotProcesses
    BY <2>5 DEF SnapshotProcesses
  <2>6. ASSUME NEW p \in Pids, ReadStart(p) PROVE Once'
    BY <2>6 DEF ReadStart, Judge
  <2>7. ASSUME NEW p \in Pids, ReadPath(p) PROVE Once'
    <3>1. /\ UNCHANGED <<proc, starts, snapshot, step>>
          /\ step = "filter" /\ p \in left /\ left' = left \ {p}
          /\ current = p /\ current' = NoPid
      BY <2>7 DEF ReadPath, Judge
    <3>2. /\ cache'[p] # Nothing /\ cache'[p].start = startRead
          /\ \A q \in Pids \ {p} : cache'[q] = cache[q]
      <4>1. PICK ok \in {Matches(p), FALSE} : cache' = [cache EXCEPT ![p] = [start |-> startRead, ok |-> ok]]
        BY <2>7 DEF ReadPath
      <4>a. ok \in BOOLEAN
        BY <4>1 DEF Matches, Opens
      <4>b. startRead \in 0 .. MaxStarts
        BY DEF TypeOK
      <4>2. ok \in BOOLEAN /\ startRead \in 0 .. MaxStarts
        BY <4>a, <4>b
      <4>3. [start |-> startRead, ok |-> ok] \in Verdicts
        BY <4>2 DEF Verdicts
      <4> QED
        BY <4>1, <4>3
    <3>3. Reported(p) => startRead # StartTime(p)
      BY <3>1
    <3>4. /\ proc[p] = Nothing => told' = told
          /\ proc[p] # Nothing => told' \subseteq told \cup {proc[p].start}
          /\ proc[p] # Nothing /\ startRead # StartTime(p) => told' = told \ {proc[p].start}
          /\ ~twice'
      BY <2>7, <3>3 DEF ReadPath
    <3>5. \A q \in Pids : Reported(q)' => (q # p /\ Reported(q)) \/ (q = p /\ startRead = StartTime(p))
      BY <3>1, <3>3, <3>4
    <3>6. Remembered'
      BY <3>1, <3>2, <3>5
    <3> QED
      BY <3>1, <3>4, <3>6
  <2>8. CASE FilterEnds
    BY <2>8 DEF FilterEnds, Seen
  <2>9. CASE DropExited
    BY <2>9 DEF DropExited
  <2>10. CASE Open
    BY <2>10 DEF Open
  <2>11. CASE Sample
    BY <2>11 DEF Sample
  <2>12. CASE UNCHANGED vars
    BY <2>12 DEF vars
  <2> QED
    BY <2>1, <2>2, <2>3, <2>4, <2>5, <2>6, <2>7, <2>8, <2>9, <2>10, <2>11, <2>12
       DEF Next, Poll, Filter, Churn
<1> QED
  BY <1>1, <1>2, Invariant, PTL DEF Spec, Once
=============================================================================
