------------------------------ MODULE Sessions ------------------------------
(***************************************************************************)
(* The dashboard's sessions: the SessionGuard that issues and judges       *)
(* access keys, the HTTP thread that asks it for every API call, the       *)
(* control pipe that hands the key out (on a thread of its own), and the   *)
(* browser pages, each with several calls in flight.  Keys are numbered in *)
(* the order they are issued, so a fresh key is one nobody has had before. *)
(***************************************************************************)
EXTENDS Integers, Sequences

CONSTANTS
  Pages,          \* the browser's tabs
  Calls,          \* the calls a page makes by itself; each may be in flight once
  SignOut,        \* the call of the Sign out button
  Idle, Absolute, MaxFailures, FailureWindow, Lockout,  \* SessionGuard::Limits
  MaxTime,        \* bound: the clock
  MaxKeys,        \* bound: keys ever issued
  MaxTries        \* bound: wrong keys presented in one run of the service

ASSUME SessionsAssumption ==
  /\ SignOut \notin Calls
  /\ Idle \in Nat /\ Absolute \in Nat /\ FailureWindow \in Nat /\ Lockout \in Nat
  /\ MaxFailures \in Nat \ {0}
  /\ MaxTime \in Nat /\ MaxKeys \in Nat /\ MaxTries \in Nat

VARIABLES
  now,          \* the clock
  key,          \* key_, or NoKey
  issued,       \* issued_
  lastUse,      \* lastUse_
  lockedUntil,  \* lockedUntil_
  bad,          \* the times at which wrong keys were presented
  front,        \* failures_ holds the times bad[front], bad[front + 1], ...
  page,         \* each page: "open", "stopped" (it has dropped its key, without a word)
                \* or "rejected" (it shows why); "closed" before its first link
  loaded,       \* the key each page was opened with
  calls,        \* each page's calls
  revoking,     \* a sign-out has passed the check and not revoked yet
  farewell,     \* the answers that made each page stop, or reached it later
  issuedAt,     \* history: when each key was issued
  usedAt,       \* history: when each key was issued or last accepted
  ended         \* history: the keys ended by a sign-out or with their service

failures == <<lockedUntil, bad, front>>
session  == <<key, issued, lastUse>>
history  == <<issuedAt, usedAt, ended>>
browser  == <<page, loaded, calls, farewell>>
vars     == <<now, failures, session, history, browser, revoking>>

NoKey == 0
Slots == Calls \cup {SignOut}
Issued == DOMAIN issuedAt
Answers == {"ok", "refused", "locked", "lost"}

Init ==
  /\ now = 0
  /\ key = NoKey /\ issued = 0 /\ lastUse = 0
  /\ lockedUntil = 0 /\ bad = <<>> /\ front = 1
  /\ page = [p \in Pages |-> "closed"]
  /\ loaded = [p \in Pages |-> NoKey]
  /\ calls = [p \in Pages |-> [c \in Slots |-> "none"]]
  /\ farewell = [p \in Pages |-> {}]
  /\ revoking = FALSE
  /\ issuedAt = <<>> /\ usedAt = <<>> /\ ended = {}

Tick ==
  /\ now < MaxTime
  /\ now' = now + 1
  /\ UNCHANGED <<failures, session, history, browser, revoking>>

-----------------------------------------------------------------------------
(* SessionGuard.                                                           *)

(* Mutant: the absolute lifetime is counted from the last use. *)
ExpiredByUse == now - lastUse > Idle \/ now - lastUse > Absolute

(* ExpiredLocked(). *)
Expired == now - lastUse > Idle \/ now - issued > Absolute

(* Mutant: the new key is the old one. *)
CurrentOrOldKey ==
  /\ key = NoKey \/ Expired
  /\ Len(issuedAt) < MaxKeys
  /\ key' = Len(issuedAt)
  /\ issued' = now /\ lastUse' = now
  /\ issuedAt' = Append(issuedAt, now) /\ usedAt' = Append(usedAt, now)
  /\ UNCHANGED <<now, failures, ended, browser, revoking>>

(* Dashboard::Url(), asked for over the control pipe: a live key is handed *)
(* out again, untouched.                                                   *)
CurrentOrNewKey ==
  /\ key = NoKey \/ Expired
  /\ Len(issuedAt) < MaxKeys
  /\ key' = Len(issuedAt) + 1
  /\ issued' = now /\ lastUse' = now
  /\ issuedAt' = Append(issuedAt, now) /\ usedAt' = Append(usedAt, now)
  /\ UNCHANGED <<now, failures, ended, browser, revoking>>

(* The deque with one more failure, popped until its front is recent. *)
Tries == Append(bad, now)
Recent(i) == now - Tries[i] <= FailureWindow
PoppedTo(f) == Recent(f) /\ \A i \in front .. f - 1 : ~Recent(i)

(* Mutant: one failure too many. *)
TooManyByOne(f) == Len(Tries) - f + 1 > MaxFailures

TooMany(f) == Len(Tries) - f + 1 >= MaxFailures

(* A wrong key. *)
Failure(verdict) ==
  /\ Len(bad) < MaxTries
  /\ bad' = Tries
  /\ \E f \in front .. Len(Tries) :
       /\ PoppedTo(f)
       /\ IF TooMany(f)
          THEN verdict = "locked" /\ lockedUntil' = now + Lockout /\ front' = Len(Tries) + 1
          ELSE verdict = "refused" /\ front' = f /\ UNCHANGED lockedUntil
  /\ UNCHANGED <<session, history>>

(* Check(k) and its verdict. *)
Check(k, verdict) ==
  \/ /\ now < lockedUntil
     /\ verdict = "locked"
     /\ UNCHANGED <<failures, session, history>>
  \/ /\ now >= lockedUntil /\ (key = NoKey \/ k # key)
     /\ Failure(verdict)
  \/ /\ now >= lockedUntil /\ key # NoKey /\ k = key /\ Expired
     /\ verdict = "refused"
     /\ key' = NoKey
     /\ UNCHANGED <<failures, issued, lastUse, history>>
  \/ /\ now >= lockedUntil /\ key # NoKey /\ k = key /\ ~Expired
     /\ verdict = "ok"
     /\ lastUse' = now /\ usedAt' = [usedAt EXCEPT ![k] = now]
     /\ UNCHANGED <<failures, key, issued, issuedAt, ended>>

-----------------------------------------------------------------------------
(* Dashboard::Handle(), on the server's only thread: a sign-out that passes *)
(* the check revokes in a second step.                                     *)

Handle(p, c) ==
  /\ ~revoking
  /\ calls[p][c] = "sent"
  /\ \E v \in Answers :
       /\ Check(loaded[p], v)
       /\ revoking' = (v = "ok" /\ c = SignOut)
       /\ calls' = [calls EXCEPT ![p][c] = IF revoking' THEN "checked" ELSE v]
  /\ UNCHANGED <<now, page, loaded, farewell>>

(* A call of another client of the API, with any key or with none. *)
HandleOther(k, c) ==
  /\ ~revoking
  /\ \E v \in Answers : Check(k, v) /\ revoking' = (v = "ok" /\ c = SignOut)
  /\ UNCHANGED <<now, browser>>

(* Its answer, to a page of ours or to another client. *)
Confirmed ==
  /\ revoking /\ revoking' = FALSE
  /\ calls' = [p \in Pages |-> [c \in Slots |->
                IF calls[p][c] = "checked" THEN "ok" ELSE calls[p][c]]]
  /\ UNCHANGED <<now, failures, issued, lastUse, issuedAt, usedAt, page, loaded, farewell>>

(* Mutant: a sign-out only answers. *)
RevokeNothing ==
  /\ UNCHANGED <<key, ended>>
  /\ Confirmed

(* Revoke() ends the key in force, which the pipe may have replaced. *)
Revoke ==
  /\ key' = NoKey
  /\ ended' = ended \cup ({key} \cap Issued)
  /\ Confirmed

(* The service ends and starts again with a guard of its own; the calls it *)
(* has not answered are lost.                                              *)
Restart ==
  /\ key' = NoKey /\ issued' = 0 /\ lastUse' = 0
  /\ lockedUntil' = 0 /\ bad' = <<>> /\ front' = 1
  /\ ended' = Issued
  /\ revoking' = FALSE
  /\ calls' = [p \in Pages |-> [c \in Slots |->
                IF calls[p][c] \in {"sent", "checked"} THEN "lost" ELSE calls[p][c]]]
  /\ UNCHANGED <<now, issuedAt, usedAt, page, loaded, farewell>>

-----------------------------------------------------------------------------
(* The page (app.js).                                                      *)

(* A link is opened in a tab none of whose calls is on its way; any link   *)
(* that was ever handed out.                                               *)
OpenLink(p, k) ==
  /\ k \in Issued
  /\ \A c \in Slots : calls[p][c] = "none"
  /\ page' = [page EXCEPT ![p] = "open"]
  /\ loaded' = [loaded EXCEPT ![p] = k]
  /\ farewell' = [farewell EXCEPT ![p] = {}]
  /\ UNCHANGED <<now, failures, session, history, calls, revoking>>

(* api(): nothing is sent once the page has stopped, and a click on Sign   *)
(* out that comes later changes nothing.                                   *)
Send(p, c) ==
  /\ page[p] = "open" /\ calls[p][c] = "none"
  /\ calls' = [calls EXCEPT ![p][c] = "sent"]
  /\ UNCHANGED <<now, failures, session, history, page, loaded, farewell, revoking>>

(* How a call ends for its page: with the answer, or without one when the  *)
(* server cannot be reached, gives up, or its answer is lost on the way.   *)
Ends(p, c, a) ==
  \/ calls[p][c] \in Answers /\ a = calls[p][c]
  \/ calls[p][c] \notin {"none", "checked"} /\ a = "lost"

(* A call of the page's own: any rejection stops the page. *)
Answered(p, c, a) ==
  /\ Ends(p, c, a)
  /\ calls' = [calls EXCEPT ![p][c] = "none"]
  /\ IF a \in {"refused", "locked"}
     THEN /\ page' = [page EXCEPT ![p] = "rejected"]
          /\ farewell' = [farewell EXCEPT ![p] = @ \cup {a}]
     ELSE UNCHANGED <<page, farewell>>
  /\ UNCHANGED <<now, failures, session, history, loaded, revoking>>

(* The sign-out: whatever became of it, the page drops its key and sends   *)
(* nothing more.  It does not say so: the handler fails at app.js:50, where *)
(* history is the array of app.js:192, and a page that shows why a call was *)
(* rejected goes on showing it.                                            *)
SignedOut(p, a) ==
  /\ Ends(p, SignOut, a)
  /\ calls' = [calls EXCEPT ![p][SignOut] = "none"]
  /\ page' = [page EXCEPT ![p] = IF @ = "rejected" THEN @ ELSE "stopped"]
  /\ farewell' = [farewell EXCEPT ![p] = @ \cup {a}]
  /\ UNCHANGED <<now, failures, session, history, loaded, revoking>>

Next ==
  \/ Tick
  \/ CurrentOrNewKey
  \/ Revoke
  \/ Restart
  \/ \E k \in Issued \cup {NoKey}, c \in Slots : HandleOther(k, c)
  \/ \E p \in Pages :
       \/ \E k \in Issued : OpenLink(p, k)
       \/ \E c \in Slots : Send(p, c) \/ Handle(p, c)
       \/ \E c \in Calls, a \in Answers : Answered(p, c, a)
       \/ \E a \in Answers : SignedOut(p, a)

Spec == Init /\ [][Next]_vars

-----------------------------------------------------------------------------
(* Every variable stays in its range; the key in force is the newest one.  *)
TypeOK ==
  /\ now \in Nat
  /\ issuedAt \in Seq(Nat) /\ usedAt \in Seq(Nat) /\ Len(usedAt) = Len(issuedAt)
  /\ \A k \in Issued : issuedAt[k] <= usedAt[k] /\ usedAt[k] <= now
  /\ key \in {NoKey, Len(issuedAt)}
  /\ issued \in 0 .. now /\ lastUse \in 0 .. now
  /\ lockedUntil \in 0 .. now + Lockout
  /\ bad \in Seq(Nat) /\ \A i \in DOMAIN bad : bad[i] <= now
  /\ front \in 1 .. Len(bad) + 1
  /\ ended \subseteq Issued
  /\ page \in [Pages -> {"closed", "open", "stopped", "rejected"}]
  /\ loaded \in [Pages -> Issued \cup {NoKey}]
  /\ calls \in [Pages -> [Slots -> Answers \cup {"none", "sent", "checked"}]]
  /\ farewell \in [Pages -> SUBSET Answers]
  /\ revoking \in BOOLEAN

(* What README.md:248 promises of a key: it lives until it is signed out,  *)
(* for 30 minutes without use and 12 hours in total, with its service.     *)
Live(k) ==
  /\ k \in Issued \ ended
  /\ now - usedAt[k] <= Idle
  /\ now - issuedAt[k] <= Absolute

(* MaxFailures wrong keys have come within the window, and the last of     *)
(* them less than a lockout ago.                                           *)
LockedOut ==
  \E i, j \in DOMAIN bad : /\ j = i + MaxFailures - 1
                           /\ bad[j] - bad[i] <= FailureWindow
                           /\ now < bad[j] + Lockout

(* A call is let through only with a live key, whichever keys were issued, *)
(* used, replaced and ended before, from how many pages whatsoever; and a  *)
(* live key is turned down only in a lockout that wrong keys have earned.  *)
AnsweredAsPromised ==
  [][\A p \in Pages, c \in Slots :
       calls[p][c] = "sent" /\ calls'[p][c] \notin {"sent", "lost", "none"} =>
         IF calls'[p][c] \in {"ok", "checked"} THEN Live(loaded[p])
         ELSE Live(loaded[p]) => LockedOut]_vars

(* Ten wrong keys a minute is all that anybody gets looked at              *)
(* (README.md:438): of any MaxFailures + 1 wrong keys in a row the first   *)
(* and the last are a window or a lockout apart, whatever comes between    *)
(* them.                                                                   *)
BadTriesAreSpaced ==
  \A i, j \in DOMAIN bad :
    j = i + MaxFailures => bad[j] - bad[i] > FailureWindow \/ bad[j] - bad[i] >= Lockout

(* A page that has dropped its key, because of a sign-out or a rejection,  *)
(* leaves no session behind: the key is dead, and a dead key stays dead,   *)
(* unless all that the page was ever told is that the API is locked, or    *)
(* nothing.  In these two cases a sign-out has not ended the key, against  *)
(* README.md:248, and the page has forgotten it all the same.              *)
SignOutEnds ==
  \A p \in Pages :
    page[p] \in {"stopped", "rejected"} =>
      \/ ~Live(loaded[p])
      \/ farewell[p] # {} /\ farewell[p] \subseteq {"locked", "lost"}
=============================================================================
