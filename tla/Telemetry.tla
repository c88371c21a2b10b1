------------------------------- MODULE Telemetry -------------------------------
(***************************************************************************)
(* How the poll follows one critical name: the process snapshot, the       *)
(* identity filter with its cache, the instances the service holds open,   *)
(* and whether the state machines are fed with a pressure, with zero or    *)
(* not at all.  The poll reads the operating system call by call: any of   *)
(* the calls may fail, and processes start, exit and hand on their PIDs in *)
(* between.                                                                *)
(***************************************************************************)
EXTENDS Integers, FiniteSets

CONSTANTS
  Pids,      \* process identifiers
  NoPid,     \* lastExitedPid_ is 0
  Nothing,   \* no process, no instance, no cache entry
  MaxStarts  \* bound: processes ever started

(* The pinned program, another one of its name, one of its name that       *)
(* cannot be opened, and one of another name.                              *)
Kinds == {"genuine", "impostor", "denied", "other"}

Processes == [start : 1 .. MaxStarts, kind : Kinds, alive : BOOLEAN]

(* TrackedProcess::Instance and IdentityFilter::Cached. *)
Instances == [start : 1 .. MaxStarts, primed : BOOLEAN, checked : BOOLEAN]
Verdicts  == [start : 0 .. MaxStarts, ok : BOOLEAN]

ASSUME TelemetryAssumption ==
  /\ NoPid \notin Pids
  /\ MaxStarts \in Nat
  /\ Nothing \notin Processes \cup Instances \cup Verdicts

VARIABLES
  proc,        \* what runs, or has run and is still referred to, under a PID
  starts,      \* processes started so far; a process's start time
  pinned,      \* the name is pinned to a path
  step,        \* where Poll() is
  snapshot,    \* PIDs the snapshot lists under the name
  left,        \* those of them Filter() has yet to look at
  current,     \* the one whose start time it has just read, if any
  startRead,   \* that start time
  passed,      \* PIDs Filter() lets through
  cache,       \* IdentityFilter::cache_
  instances,   \* TrackedProcess::instances_
  lastExited,  \* lastExitedPid_
  denied,      \* deniedReported_
  fed,         \* what the last poll gave the state machines
  blind,       \* history: the last snapshot failed
  unjudged,    \* history: PIDs whose process started after the poll looked there
  unread,      \* history: instances whose times the last poll could not read
  ended,       \* history: an instance has ended under this TrackedProcess
  told,        \* history: mismatches reported, and cached under their start time
  twice        \* history: one of them was reported again

os      == <<proc, starts>>
tracked == <<instances, lastExited, denied, ended>>
filter  == <<pinned, cache, told, twice>>
reading == <<left, current, startRead, passed>>
sampled == <<fed, unread>>
vars    == <<os, step, snapshot, blind, unjudged, reading, filter, tracked, sampled>>

(* OpenProcess(): also a process that has ended opens as long as somebody  *)
(* else keeps it.                                                          *)
Opens(p) == proc[p] # Nothing /\ proc[p].kind # "denied"

Holds(p) == instances[p] # Nothing

Init ==
  /\ proc = [p \in Pids |-> Nothing] /\ starts = 0
  /\ pinned \in BOOLEAN
  /\ step = "idle" /\ snapshot = {} /\ blind = FALSE /\ fed = "nothing"
  /\ left = {} /\ current = NoPid /\ startRead = 0 /\ passed = {}
  /\ cache = [p \in Pids |-> Nothing]
  /\ instances = [p \in Pids |-> Nothing]
  /\ lastExited = NoPid /\ denied = {}
  /\ unjudged = {} /\ unread = {} /\ ended = FALSE /\ told = {} /\ twice = FALSE

-----------------------------------------------------------------------------
(* The operating system.  An open handle keeps the PID of a process that   *)
(* has ended.                                                              *)

ProcessStarts(p, kind) ==
  /\ starts < MaxStarts /\ proc[p] = Nothing
  /\ starts' = starts + 1
  /\ proc' = [proc EXCEPT ![p] = [start |-> starts', kind |-> kind, alive |-> TRUE]]
  /\ unjudged' = unjudged \cup {p}
  /\ UNCHANGED <<step, snapshot, blind, reading, filter, tracked, sampled>>

ProcessExits(p) ==
  /\ proc[p] # Nothing /\ proc[p].alive
  /\ proc' = [proc EXCEPT ![p].alive = FALSE]
  /\ UNCHANGED <<starts, step, snapshot, blind, unjudged, reading, filter, tracked, sampled>>

ProcessVanishes(p) ==
  /\ proc[p] # Nothing /\ ~proc[p].alive /\ ~Holds(p)
  /\ proc' = [proc EXCEPT ![p] = Nothing]
  /\ UNCHANGED <<starts, step, snapshot, blind, unjudged, reading, filter, tracked, sampled>>

-----------------------------------------------------------------------------
(* A reload pins or releases the name, which empties the cache, and may    *)
(* take the critical role from it and give it back, which makes a new      *)
(* TrackedProcess.                                                         *)
Reload ==
  /\ step = "idle"
  /\ pinned' \in BOOLEAN
  /\ cache' = [p \in Pids |-> Nothing] /\ told' = {} /\ twice' = FALSE
  /\ \/ UNCHANGED tracked
     \/ /\ instances' = [p \in Pids |-> Nothing] /\ lastExited' = NoPid
        /\ denied' = {} /\ ended' = FALSE
  /\ UNCHANGED <<os, step, snapshot, blind, unjudged, reading, sampled>>

(* What runs under the name. *)
Listed(p) == proc[p] # Nothing /\ proc[p].alive /\ proc[p].kind # "other"

(* SnapshotProcesses(), and the name's part of it.  A snapshot that fails  *)
(* is an empty list.  Filter() returns the list as it is when no name is   *)
(* pinned.                                                                 *)
SnapshotProcesses ==
  /\ step = "idle"
  /\ blind' \in BOOLEAN
  /\ snapshot' = IF blind' THEN {} ELSE {p \in Pids : Listed(p)}
  /\ told' = IF blind' THEN {} ELSE told
  /\ unjudged' = {} /\ unread' = {} /\ fed' = "nothing"
  /\ IF pinned THEN step' = "filter" /\ left' = snapshot' /\ passed' = {}
     ELSE step' = "drop" /\ left' = {} /\ passed' = snapshot'
  /\ UNCHANGED <<os, current, startRead, pinned, cache, twice, tracked>>

(* StartTime(): zero for what cannot be opened, or not be read. *)
StartTime(p) == IF Opens(p) THEN proc[p].start ELSE 0

(* IdentityMismatch() is empty: the path can be read, and it is the one    *)
(* the name is pinned to.                                                  *)
Matches(p) == Opens(p) /\ proc[p].kind = "genuine"

(* Mutant: a verdict belongs to a PID, whatever runs there by now. *)
KnownByPid(p, start) == cache[p] # Nothing

Known(p, start) == cache[p] # Nothing /\ cache[p].start = start

(* The filter is done with p. *)
Judge(p, ok) ==
  /\ left' = left \ {p}
  /\ passed' = IF ok THEN passed \cup {p} ELSE passed

(* Filter(), for one process of the snapshot: its start time is read, and  *)
(* a verdict the cache holds for it stands.  It is not about the process   *)
(* that is there when the start time could not be read.                    *)
ReadStart(p) ==
  /\ step = "filter" /\ current = NoPid /\ p \in left
  /\ \E start \in {StartTime(p), 0} :
       IF Known(p, start)
       THEN /\ Judge(p, cache[p].ok)
            /\ unjudged' = IF start = 0 THEN unjudged \cup {p} ELSE unjudged \ {p}
            /\ UNCHANGED <<current, startRead>>
       ELSE /\ current' = p /\ startRead' = start
            /\ UNCHANGED <<left, passed, unjudged>>
  /\ UNCHANGED <<os, step, snapshot, blind, filter, tracked, sampled>>

(* Otherwise the path is read, through another handle: the PID may have    *)
(* changed hands.  What does not match is reported.                        *)
ReadPath(p) ==
  LET own   == startRead = StartTime(p)
      start == proc[p].start
  IN  /\ step = "filter" /\ current = p
      /\ \E ok \in {Matches(p), FALSE} :
           /\ Judge(p, ok)
           /\ cache' = [cache EXCEPT ![p] = [start |-> startRead, ok |-> ok]]
           /\ IF proc[p] = Nothing THEN UNCHANGED <<told, twice>>
              ELSE /\ told' = IF ~own THEN told \ {start} ELSE IF ok THEN told ELSE told \cup {start}
                   /\ twice' = (twice \/ (own /\ ~ok /\ start \in told))
      /\ current' = NoPid /\ startRead' = 0
      /\ unjudged' = unjudged \ {p}
      /\ UNCHANGED <<os, step, snapshot, blind, pinned, tracked, sampled>>

(* Mutant: only the processes that match are kept in the cache. *)
SeenMatching == passed

(* What cache_ keeps: the processes of this snapshot. *)
Seen == snapshot

FilterEnds ==
  /\ step = "filter" /\ left = {}
  /\ cache' = [p \in Pids |-> IF p \in Seen THEN cache[p] ELSE Nothing]
  /\ step' = "drop"
  /\ UNCHANGED <<os, snapshot, blind, unjudged, reading, pinned, told, twice, tracked, sampled>>

(* TrackedProcess::Poll(), its first loop: instances that have exited. *)
DropExited ==
  LET gone == {p \in Pids : Holds(p) /\ ~proc[p].alive}
  IN  /\ step = "drop"
      /\ instances' = [p \in Pids |-> IF p \in gone THEN Nothing ELSE instances[p]]
      /\ IF gone = {} THEN UNCHANGED <<lastExited, ended>>
         ELSE lastExited' \in gone /\ ended' = TRUE
      /\ step' = "open"
      /\ UNCHANGED <<os, snapshot, blind, unjudged, reading, filter, denied, sampled>>

(* Mutant: an instance is taken for the process the filter saw. *)
InstanceAsFiltered(p) ==
  [start |-> IF cache[p] = Nothing THEN proc[p].start ELSE cache[p].start, primed |-> FALSE,
   checked |-> pinned /\ p \notin unjudged]

(* An instance, with whether the filter has judged the process it is. *)
Instance(p) == [start |-> proc[p].start, primed |-> FALSE, checked |-> pinned /\ p \notin unjudged]

(* The second loop: what the filter let through and can be opened now. *)
Open ==
  LET opened == {p \in passed : ~Holds(p) /\ Opens(p)}
  IN  /\ step = "open"
      /\ instances' = [p \in Pids |-> IF p \in opened THEN Instance(p) ELSE instances[p]]
      /\ lastExited' = IF opened = {} THEN lastExited ELSE NoPid
      /\ denied' = (denied \ opened) \cup {p \in passed : ~Holds(p) /\ proc[p] # Nothing /\ ~Opens(p)}
      /\ step' = "sample"
      /\ UNCHANGED <<os, snapshot, blind, unjudged, reading, filter, ended, sampled>>

(* Mutant: an instance without a difference yet counts as idle. *)
FeedsAnyway(read, valid) == IF valid = {} THEN "zero" ELSE "pressure"

(* Without a sample the pressure is zero; with samples but without a valid *)
(* one the poll returns early.                                             *)
Feeds(read, valid) ==
  CASE valid # {}               -> "pressure"
    [] valid = {} /\ read # {} -> "nothing"
    [] OTHER                    -> "zero"

(* SampleInstance(): an instance whose times cannot be read gives no       *)
(* sample.  A difference needs an earlier reading, and a clock that has    *)
(* not been set back since.                                                *)
Sample ==
  /\ step = "sample"
  /\ \E read \in SUBSET {p \in Pids : Holds(p)} :
       /\ unread' = {p \in Pids : Holds(p)} \ read
       /\ \E valid \in SUBSET {p \in read : instances[p].primed} : fed' = Feeds(read, valid)
       /\ instances' = [p \in Pids |-> IF p \in read THEN [instances[p] EXCEPT !.primed = TRUE]
                                       ELSE instances[p]]
  /\ step' = "idle"
  /\ UNCHANGED <<os, snapshot, blind, unjudged, reading, filter, lastExited, denied, ended>>

-----------------------------------------------------------------------------
Filter == FilterEnds \/ \E p \in Pids : ReadStart(p) \/ ReadPath(p)

Poll == SnapshotProcesses \/ Filter \/ DropExited \/ Open \/ Sample

Churn == \E p \in Pids : (\E kind \in Kinds : ProcessStarts(p, kind)) \/ ProcessExits(p)
                           \/ ProcessVanishes(p)

Next == Poll \/ Reload \/ Churn

Spec == Init /\ [][Next]_vars

-----------------------------------------------------------------------------
(* Every variable stays in its range, and an instance is the process that  *)
(* has its PID: the open handle keeps it.                                  *)
TypeOK ==
  /\ proc \in [Pids -> Processes \cup {Nothing}]
  /\ starts \in 0 .. MaxStarts
  /\ pinned \in BOOLEAN /\ blind \in BOOLEAN /\ twice \in BOOLEAN /\ ended \in BOOLEAN
  /\ step \in {"idle", "filter", "drop", "open", "sample"}
  /\ snapshot \subseteq Pids /\ denied \subseteq Pids /\ unjudged \subseteq Pids
  /\ left \subseteq snapshot /\ passed \subseteq snapshot /\ left \cap passed = {}
  /\ current \in left \cup {NoPid} /\ startRead \in 0 .. starts
  /\ cache \in [Pids -> Verdicts \cup {Nothing}]
  /\ instances \in [Pids -> Instances \cup {Nothing}]
  /\ \A p \in Pids : Holds(p) => proc[p] # Nothing /\ proc[p].start = instances[p].start
  /\ lastExited \in Pids \cup {NoPid}
  /\ fed \in {"nothing", "zero", "pressure"} /\ unread \subseteq Pids
  /\ told \subseteq 1 .. starts

(* Zero pressure, which lets suspended processes go, is never an artefact  *)
(* of a restart, of a first sample (Daemon.cpp:428-429) or of a filter     *)
(* that takes its time: when the machines are fed zero although a process  *)
(* of the name that can be opened ran before the poll looked, its times    *)
(* could not be read, or it is no instance because the snapshot failed or  *)
(* the filter turned it down.                                              *)
ZeroMeansNobody ==
  fed = "zero" =>
    \A p \in Pids : Listed(p) /\ Opens(p) /\ p \notin unjudged =>
      p \in unread \/ (~Holds(p) /\ (blind \/ p \in snapshot \ passed))

(* A process that does not match gets no role (README.md:304): once the    *)
(* name is pinned no other program becomes an instance, whichever PIDs it  *)
(* inherits, unless it replaces the genuine one between filter and open,   *)
(* or the filter took it for the one it knows because it could not read    *)
(* its start time either.                                                  *)
NoImpostor ==
  \A p \in Pids : Holds(p) /\ instances[p].checked => proc[p].kind = "genuine"

(* A restart under a new PID can be told from a first start (README.md:82, *)
(* ProcessMonitor.h: Restarted): while no instance is left the service     *)
(* remembers which one ended last.                                         *)
RestartKnown == ended /\ (\A p \in Pids : ~Holds(p)) => lastExited # NoPid

(* A mismatch is reported once per process (README.md:363), with three     *)
(* exceptions: from one reload to the next, when a snapshot has failed in  *)
(* between, and when the filter took another start time for its own,       *)
(* because the PID changed hands between its two reads or the first one    *)
(* failed.                                                                 *)
MismatchOnce == ~twice
=============================================================================
