------------------------------- MODULE LogChain -------------------------------
(***************************************************************************)
(* The hash-chained log: one writer that appends, rotates and restarts,    *)
(* and verify-log, a program of its own that reads the same files one      *)
(* after the other.  The hash of a line is a number no other line has; a   *)
(* file is a sequence of lines, and an absent file an empty one.           *)
(* WriteLine() runs under the logger's mutex, so it is cut only where the  *)
(* other program, a restart or a failure can tell.  The calls that read,   *)
(* open, delete, rename and write may fail.                                *)
(***************************************************************************)
EXTENDS Integers, Sequences

CONSTANTS
  MaxFileLines,  \* maxFileBytes_, in lines
  MaxRotated,    \* the largest maxRotatedFiles_ the settings may ask for
  MaxLines,      \* bound: lines ever written
  Old            \* how many lines from before chaining the log may start with

ASSUME LogChainAssumption ==
  /\ MaxFileLines \in Nat \ {0} /\ MaxLines \in Nat
  /\ MaxRotated \in Nat
  /\ Old \subseteq Nat

VARIABLES
  kept,      \* maxRotatedFiles_
  files,     \* files[0] is the log, files[i] its i-th rotated file
  next,      \* the next line's hash
  step,      \* where WriteLine() is
  handle,    \* file_ is open
  size,      \* currentSize_, in lines
  last,      \* lastHash_
  chained,   \* the line WriteLine() has built
  shifted,   \* how many renames Rotate() has made
  reader,    \* where verify-log is
  todo,      \* the files it has yet to read
  expected,  \* the hash it expects next
  verdict,   \* what it has found
  harm,      \* history: what has gone wrong with the files
  refused,   \* history: files that could not be renamed when their turn came
  moved      \* history: a file was renamed while verify-log ran

disk   == <<files, next>>
writer == <<step, handle, size, last, chained, shifted, kept>>
verify == <<reader, todo, expected, verdict>>
past   == <<harm, refused, moved>>
logVars == <<disk, writer, verify, past>>

Indices == 0 .. MaxRotated

Genesis == 0   \* kGenesisHash
Empty   == -1  \* no hash

(* A line has its own hash, the hash it was chained to unless it is older  *)
(* than chaining, and is complete unless something cut it short.           *)
Line(hash, prev, whole) == [hash |-> hash, prev |-> prev, whole |-> whole]

NoLine == Line(Empty, Empty, FALSE)

LogInit ==
  /\ \E n \in Old :
       /\ files = [i \in Indices |-> IF i = 0 THEN [k \in 1 .. n |-> Line(k, Empty, TRUE)] ELSE <<>>]
       /\ next = n + 1
  /\ kept \in Indices
  /\ step = "idle" /\ handle = FALSE /\ size = 0 /\ last = Empty /\ chained = NoLine /\ shifted = 0
  /\ reader = "none" /\ todo = {} /\ expected = Empty /\ verdict = "intact"
  /\ harm = {} /\ refused = {} /\ moved = FALSE

LastLineHash(f) == IF f = <<>> THEN Empty ELSE f[Len(f)].hash

(* Mutant: the chain starts anew with every start. *)
ContinuedAnew(found) == IF last = Empty THEN Genesis ELSE last

(* The hash a line is chained to, when LastLineHash() finds one.           *)
Continued(found) ==
  IF last # Empty THEN last
  ELSE IF files[0] = <<>> \/ ~found THEN Genesis ELSE LastLineHash(files[0])

(* Mutant: the newest file is read first. *)
NewestToRead(i) == i \in todo /\ \A k \in todo : k >= i

(* The oldest file is read first. *)
NextToRead(i) == i \in todo /\ \A k \in todo : k <= i

(* verify-log has file i open, and does not share it for renaming. *)
InUse(i) == reader = "reading" /\ NextToRead(i)

-----------------------------------------------------------------------------
(* WriteLine().                                                            *)

(* EnsureOpen() with lastHash_ still empty: a start in the middle of a     *)
(* rotation, or before its first line, finds no line to continue from, and *)
(* one that cannot read the log takes it for empty.                        *)
Begin ==
  /\ step = "idle" /\ next <= MaxLines
  /\ \E found \in BOOLEAN :
       /\ last' = Continued(found)
       /\ harm' = harm \cup
            (IF last # Empty THEN {}
             ELSE IF files[0] # <<>> THEN (IF found THEN {} ELSE {"unread"})
             ELSE IF \E i \in Indices : files[i] # <<>> THEN {"restarted"} ELSE {})
  /\ \/ /\ handle' = TRUE
        /\ size' = IF handle THEN size ELSE Len(files[0])
        /\ chained' = Line(next, last', TRUE)
        /\ step' = IF size' > 0 /\ size' + 1 > MaxFileLines THEN "close" ELSE "write"
     \/ ~handle /\ UNCHANGED <<step, handle, size, chained>>
  /\ UNCHANGED <<disk, shifted, kept, verify, refused, moved>>

(* Files from when more of them were kept; no rotation touches them.       *)
Stale == \E j \in Indices : j > kept /\ files[j] # <<>>

(* The handle is closed and the oldest file deleted, unless verify-log is  *)
(* reading it; without rotated files that is the log itself.               *)
Close ==
  /\ step = "close"
  /\ handle' = FALSE /\ size' = 0
  /\ \/ /\ ~InUse(kept)
        /\ files' = [files EXCEPT ![kept] = <<>>]
        /\ harm' = harm \cup (IF files[kept] # <<>> /\ Stale THEN {"stale"} ELSE {})
     \/ UNCHANGED <<files, harm>>
  /\ moved' = (moved \/ reader # "none")
  /\ step' = IF kept = 0 THEN "reopen" ELSE "move"
  /\ shifted' = 0 /\ refused' = {}
  /\ UNCHANGED <<next, last, chained, kept, verify>>

(* The file renamed after k others. *)
Source(k) == kept - 1 - k

(* File i becomes i + 1 and replaces what is there; neither may be in use. *)
Rotate ==
  LET i == Source(shifted)
  IN  /\ step = "move"
      /\ \/ /\ files[i] # <<>> /\ ~InUse(i) /\ ~InUse(i + 1)
            /\ files' = [files EXCEPT ![i + 1] = files[i], ![i] = <<>>]
            /\ harm' = harm \cup
                 (IF files[i + 1] = <<>> THEN {}
                  ELSE IF i + 1 \in refused THEN {"overwritten"}
                  ELSE IF Stale THEN {"stale"} ELSE {})
            /\ UNCHANGED refused
         \/ /\ refused' = IF files[i] # <<>> THEN refused \cup {i} ELSE refused
            /\ UNCHANGED <<files, harm>>
      /\ shifted' = shifted + 1
      /\ step' = IF shifted' = kept THEN "reopen" ELSE "move"
      /\ moved' = (moved \/ reader # "none")
      /\ UNCHANGED <<next, handle, size, last, chained, kept, verify>>

(* Mutant: the size of a log that could not be renamed is forgotten. *)
ReopenEmpty ==
  /\ step = "reopen"
  /\ \/ handle' = TRUE /\ size' = 0 /\ step' = "write" /\ UNCHANGED chained
     \/ handle' = FALSE /\ size' = 0 /\ step' = "idle" /\ chained' = NoLine
  /\ UNCHANGED <<disk, last, shifted, kept, verify, past>>

(* EnsureOpen() after the rotation; lastHash_ is known by now. *)
Reopen ==
  /\ step = "reopen"
  /\ \/ handle' = TRUE /\ size' = Len(files[0]) /\ step' = "write" /\ UNCHANGED chained
     \/ handle' = FALSE /\ size' = 0 /\ step' = "idle" /\ chained' = NoLine
  /\ UNCHANGED <<disk, last, shifted, kept, verify, past>>

(* A line appended to a line that was cut short becomes part of it. *)
Appended(f, l) ==
  IF f # <<>> /\ ~f[Len(f)].whole THEN [f EXCEPT ![Len(f)] = Line(l.hash, Empty, FALSE)]
  ELSE Append(f, l)

(* WriteFile() writes the line, nothing, or a part of it. *)
Write ==
  /\ step = "write"
  /\ \/ /\ files' = [files EXCEPT ![0] = Appended(@, chained)]
        /\ next' = next + 1 /\ size' = size + 1 /\ last' = chained.hash
        /\ UNCHANGED harm
     \/ UNCHANGED <<disk, size, last, harm>>
     \/ /\ files' = [files EXCEPT ![0] = Appended(@, [chained EXCEPT !.whole = FALSE])]
        /\ next' = next + 1
        /\ harm' = harm \cup {"torn"}
        /\ UNCHANGED <<size, last>>
  /\ step' = "idle" /\ chained' = NoLine
  /\ UNCHANGED <<handle, shifted, kept, verify, refused, moved>>

(* The service ends, between two lines or in the middle of one, or a       *)
(* reload finds other settings of the log; the next line is written by a   *)
(* new logger, which may have to keep another number of rotated files.     *)
Restart ==
  /\ kept' \in Indices
  /\ step' = "idle" /\ handle' = FALSE /\ size' = 0 /\ last' = Empty /\ chained' = NoLine
  /\ shifted' = 0
  /\ UNCHANGED <<disk, verify, past>>

-----------------------------------------------------------------------------
(* verify-log.                                                             *)

(* VerifyChain() of one file.  Only lines from before the chain started    *)
(* may lack a hash, and the first line is compared with the end of the     *)
(* older file if there is one.                                             *)
Intact(f, want) ==
  /\ \A k \in DOMAIN f : f[k].whole
  /\ \A j, k \in DOMAIN f : j < k /\ f[j].prev # Empty => f[k].prev # Empty
  /\ \A k \in DOMAIN f : f[k].prev # Empty =>
       IF k > 1 THEN f[k].prev = f[k - 1].hash ELSE want \in {Empty, f[k].prev}

VerifyBegins ==
  /\ reader = "none"
  /\ todo' = {i \in Indices : files[i] # <<>>}
  /\ todo' # {}
  /\ reader' = "looking" /\ expected' = Empty /\ verdict' = "intact"
  /\ moved' = (step = "move")
  /\ UNCHANGED <<disk, writer, harm, refused>>

(* A file that a rotation has taken away cannot be opened any more, nor    *)
(* perhaps one that is there; the next one is then not compared.           *)
VerifyOpens(i) ==
  /\ reader = "looking" /\ NextToRead(i)
  /\ \/ files[i] # <<>> /\ reader' = "reading" /\ UNCHANGED <<todo, expected>>
     \/ reader' = reader /\ todo' = todo \ {i} /\ expected' = Empty
  /\ UNCHANGED <<disk, writer, verdict, past>>

VerifyReads(i) ==
  /\ InUse(i)
  /\ verdict' = IF Intact(files[i], expected) THEN verdict ELSE "broken"
  /\ expected' \in {LastLineHash(files[i]), Empty}
  /\ todo' = todo \ {i}
  /\ reader' = "looking"
  /\ UNCHANGED <<disk, writer, past>>

VerifyEnds ==
  /\ reader = "looking" /\ todo = {}
  /\ reader' = "none" /\ verdict' = "intact" /\ expected' = Empty /\ moved' = FALSE
  /\ UNCHANGED <<disk, writer, todo, harm, refused>>

-----------------------------------------------------------------------------
WriteLine == Begin \/ Close \/ Rotate \/ Reopen \/ Write

VerifyLog ==
  \/ VerifyBegins \/ VerifyEnds
  \/ \E i \in Indices : VerifyOpens(i) \/ VerifyReads(i)

LogNext == WriteLine \/ Restart \/ VerifyLog

LogSpec == LogInit /\ [][LogNext]_logVars

-----------------------------------------------------------------------------
(* Every variable stays in its range, and the size the logger counts with  *)
(* is the size of the open file, less a line that was cut short.           *)
LogTypeOK ==
  /\ \A i \in Indices : \A k \in DOMAIN files[i] :
       files[i][k].hash \in 1 .. next - 1 /\ files[i][k].prev \in Empty .. next - 1
  /\ step \in {"idle", "close", "move", "reopen", "write"}
  /\ handle \in BOOLEAN /\ (handle /\ "torn" \notin harm => size = Len(files[0]))
  /\ last \in Empty .. next - 1
  /\ reader \in {"none", "looking", "reading"}
  /\ todo \subseteq Indices
  /\ expected \in Empty .. next - 1
  /\ verdict \in {"intact", "broken"}
  /\ harm \subseteq {"torn", "restarted", "unread", "overwritten", "stale"}
  /\ kept \in Indices /\ shifted \in 0 .. kept /\ refused \subseteq Indices /\ moved \in BOOLEAN

(* The newest rotated file that has lines, older than file i. *)
Older(i) == {j \in Indices : j > i /\ files[j] # <<>>}

(* What verify-log says of files at rest. *)
AllIntact ==
  \A i \in Indices :
    Intact(files[i], IF Older(i) = {} THEN Empty
                     ELSE LastLineHash(files[CHOOSE j \in Older(i) : \A k \in Older(i) : j <= k]))

(* The chain continues across rotated files and restarts (README.md:348):  *)
(* failed and refused calls, restarts at any point, other settings and     *)
(* lines from before chaining never break it, with five exceptions: a line *)
(* that was cut short, a start that finds rotated files but no line in the *)
(* log itself, a start that could not read the log it appends to, a rename *)
(* over a file whose own rename had failed, and a rotation after the       *)
(* number of rotated files was lowered, which loses a file between those   *)
(* left over and the others.                                               *)
ChainContinues == harm = {} => AllIntact

(* verify-log tells the truth although the service goes on writing: it     *)
(* reports a break only if there is one or a rotation came in between.     *)
NoFalseAlarm == verdict = "broken" => harm # {} \/ moved
=============================================================================
