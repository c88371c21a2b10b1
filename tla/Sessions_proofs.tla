-------------------------- MODULE Sessions_proofs ---------------------------
(***************************************************************************)
(* Proofs about the dashboard's sessions, for any limits and any number of *)
(* pages, calls, keys and wrong keys.                                      *)
(***************************************************************************)
EXTENDS Sessions, SequenceTheorems, TLAPS

-----------------------------------------------------------------------------
(* The inductive invariant.                                                *)

(* The parts of TypeOK: the guard's variables and the pages'. *)
KeyType ==
  /\ now \in Nat
  /\ issuedAt \in Seq(Nat) /\ usedAt \in Seq(Nat) /\ Len(usedAt) = Len(issuedAt)
  /\ \A k \in Issued : issuedAt[k] <= usedAt[k] /\ usedAt[k] <= now
  /\ key \in {NoKey, Len(issuedAt)}
  /\ issued \in 0 .. now /\ lastUse \in 0 .. now
  /\ ended \subseteq Issued

TriesType ==
  /\ lockedUntil \in 0 .. now + Lockout
  /\ bad \in Seq(Nat) /\ \A i \in DOMAIN bad : bad[i] <= now
  /\ front \in 1 .. Len(bad) + 1

PageType ==
  /\ page \in [Pages -> {"closed", "open", "stopped", "rejected"}]
  /\ loaded \in [Pages -> Issued \cup {NoKey}]
  /\ calls \in [Pages -> [Slots -> Answers \cup {"none", "sent", "checked"}]]
  /\ farewell \in [Pages -> SUBSET Answers]
  /\ revoking \in BOOLEAN

(* The guard keeps the dates of the key in force, and no other key lives.  *)
KeyInv ==
  /\ key # NoKey => key \notin ended /\ issued = issuedAt[key] /\ lastUse = usedAt[key]
  /\ \A k \in Issued : k # key => ~Live(k)

(* What failures_ has forgotten is too old or has led to a lockout; what   *)
(* it holds is too little for one; a lockout has its reasons.              *)
TriesInv ==
  /\ \A i, j \in DOMAIN bad : i <= j => bad[i] <= bad[j]
  /\ Len(bad) - front + 1 < MaxFailures
  /\ \A i \in DOMAIN bad :
       i < front => now - bad[i] > FailureWindow \/ lockedUntil >= bad[i] + Lockout
  /\ lockedUntil # 0 =>
       \E i, j \in DOMAIN bad : /\ j = i + MaxFailures - 1
                                /\ bad[j] - bad[i] <= FailureWindow
                                /\ lockedUntil = bad[j] + Lockout

(* A page that has been turned down, or has had its sign-out confirmed,    *)
(* has a dead key.                                                         *)
PageInv ==
  \A p \in Pages :
    /\ \A c \in Slots : calls[p][c] = "refused" => ~Live(loaded[p])
    /\ calls[p][SignOut] = "ok" => ~Live(loaded[p])
    /\ \A c \in Slots : calls[p][c] = "checked" => c = SignOut /\ revoking
    /\ farewell[p] \cap {"refused", "ok"} # {} => ~Live(loaded[p])
    /\ page[p] \in {"stopped", "rejected"} => farewell[p] # {}

Guard == KeyType /\ TriesType /\ KeyInv /\ TriesInv /\ BadTriesAreSpaced

IInv == Guard /\ PageType /\ PageInv

(* A key that has died stays dead. *)
DeadStay == \A k \in Issued : Live(k)' => Live(k)

-----------------------------------------------------------------------------
(* The sequences.                                                          *)

LEMMA IssuedIs ==
  ASSUME KeyType
  PROVE  /\ Issued = 1 .. Len(issuedAt) /\ Len(issuedAt) \in Nat /\ NoKey \notin Issued
         /\ \A k \in Issued : issuedAt[k] \in Nat /\ usedAt[k] \in Nat
         /\ key # NoKey => key \in Issued
BY LenProperties DEF KeyType, Issued, NoKey

LEMMA AppendTo ==
  ASSUME NEW s \in Seq(Nat), NEW n \in Nat
  PROVE  /\ Append(s, n) \in Seq(Nat)
         /\ Len(Append(s, n)) = Len(s) + 1 /\ Len(s) \in Nat
         /\ DOMAIN Append(s, n) = 1 .. Len(s) + 1 /\ DOMAIN s = 1 .. Len(s)
         /\ \A i \in 1 .. Len(s) : Append(s, n)[i] = s[i] /\ s[i] \in Nat
         /\ Append(s, n)[Len(s) + 1] = n
<1>1. /\ Append(s, n) \in Seq(Nat) /\ Len(Append(s, n)) = Len(s) + 1
      /\ \A i \in 1 .. Len(s) : Append(s, n)[i] = s[i]
      /\ Append(s, n)[Len(s) + 1] = n
  BY AppendProperties
<1> QED
  BY <1>1, LenProperties

-----------------------------------------------------------------------------
(* A wrong key.                                                            *)

LEMMA FailureStep ==
  ASSUME Guard, NEW v, now >= lockedUntil, Failure(v), UNCHANGED now
  PROVE  TriesType' /\ TriesInv' /\ BadTriesAreSpaced' /\ v \in {"locked", "refused"}
<1> DEFINE n == Len(bad) + 1
<1>1. /\ Tries \in Seq(Nat) /\ Len(Tries) = n /\ Len(bad) \in Nat
      /\ DOMAIN Tries = 1 .. n /\ DOMAIN bad = 1 .. Len(bad)
      /\ \A i \in 1 .. Len(bad) : Tries[i] = bad[i] /\ bad[i] \in Nat
      /\ Tries[n] = now
  BY AppendTo DEF Guard, TriesType, KeyType, Tries
<1>2. bad' = Tries /\ now' = now /\ now \in Nat
  BY DEF Failure, Guard, KeyType
<1>3. PICK f \in front .. n :
        /\ PoppedTo(f)
        /\ IF TooMany(f)
           THEN v = "locked" /\ lockedUntil' = now + Lockout /\ front' = n + 1
           ELSE v = "refused" /\ front' = f /\ UNCHANGED lockedUntil
  BY <1>1 DEF Failure
<1>4. /\ now - Tries[f] <= FailureWindow
      /\ \A i \in front .. f - 1 : ~(now - Tries[i] <= FailureWindow)
  BY <1>3 DEF PoppedTo, Recent
<1>0. /\ \A i \in 1 .. n : i \in 1 .. Len(bad) \/ i = n
      /\ \A i, j \in 1 .. n : i <= j => (i = n /\ j = n) \/ i \in 1 .. Len(bad)
  BY <1>1
<1> HIDE DEF n
<1>5. \A i \in 1 .. n : Tries[i] \in Nat /\ Tries[i] <= now
  <2>1. \A i \in 1 .. Len(bad) : bad[i] <= now
    BY <1>1 DEF Guard, TriesType
  <2> SUFFICES ASSUME NEW i \in 1 .. n
               PROVE  Tries[i] \in Nat /\ Tries[i] <= now
    OBVIOUS
  <2>2. CASE i \in 1 .. Len(bad)
    BY <2>1, <2>2, <1>1
  <2>3. CASE i = n
    BY <2>3, <1>1, <1>2
  <2> QED
    BY <2>2, <2>3, <1>0
<1>6. \A i, j \in 1 .. n : i <= j => Tries[i] <= Tries[j]
  <2>1. \A i, j \in 1 .. Len(bad) : i <= j => bad[i] <= bad[j]
    BY <1>1 DEF Guard, TriesInv
  <2> SUFFICES ASSUME NEW i \in 1 .. n, NEW j \in 1 .. n, i <= j
               PROVE  Tries[i] <= Tries[j]
    OBVIOUS
  <2>2. CASE j = n
    BY <2>2, <1>1, <1>5
  <2>3. CASE i \in 1 .. Len(bad) /\ j \in 1 .. Len(bad)
    BY <2>1, <2>3, <1>1
  <2>4. CASE i = n /\ j = n
    BY <2>4, <1>5
  <2> QED
    BY <2>2, <2>3, <2>4, <1>0
<1>7. /\ front \in 1 .. n /\ f \in 1 .. n /\ front <= f
      /\ Len(bad) - front + 1 < MaxFailures
      /\ n = Len(bad) + 1 /\ n \in Nat
  BY <1>1, <1>3 DEF Guard, TriesType, TriesInv, n
<1>8. Lockout \in Nat /\ FailureWindow \in Nat /\ MaxFailures \in Nat \ {0} /\ lockedUntil \in Nat
  BY SessionsAssumption, <1>2 DEF Guard, TriesType
<1>9. TriesType'
  <2>1. lockedUntil' \in 0 .. now' + Lockout
    BY <1>2, <1>3, <1>8 DEF Guard, TriesType
  <2>2. bad' \in Seq(Nat) /\ \A i \in DOMAIN bad' : bad'[i] <= now'
    BY <1>1, <1>2, <1>5
  <2>3. front' \in 1 .. n + 1
    BY <1>3, <1>7
  <2>4. Len(bad') = n
    BY <1>1, <1>2
  <2> QED
    BY <2>1, <2>2, <2>3, <2>4 DEF TriesType
<1>10. \A i \in 1 .. Len(bad) :
         i < front => now - bad[i] > FailureWindow \/ lockedUntil >= bad[i] + Lockout
  BY <1>1 DEF Guard, TriesInv
<1>11. TriesInv'
  <2>1. n - front' + 1 < MaxFailures
    BY <1>1, <1>3, <1>7, <1>8 DEF TooMany
  <2>2. \A i \in 1 .. n :
          i < front' => now - Tries[i] > FailureWindow \/ lockedUntil' >= Tries[i] + Lockout
    <3>1. CASE TooMany(f)
      BY <3>1, <1>2, <1>3, <1>5, <1>8
    <3>2. CASE ~TooMany(f)
      <4> SUFFICES ASSUME NEW i \in 1 .. n, i < f
                   PROVE  now - Tries[i] > FailureWindow \/ lockedUntil >= Tries[i] + Lockout
        BY <3>2, <1>3
      <4>1. CASE i < front
        <5>1. front \in Nat /\ front <= Len(bad) + 1 /\ i \in Nat /\ i >= 1 /\ Len(bad) \in Nat
          BY <1>1, <1>7
        <5>2. i \in 1 .. Len(bad)
          BY <4>1, <5>1
        <5>3. Tries[i] = bad[i]
          BY <1>1, <5>2
        <5> QED
          BY <4>1, <5>2, <5>3, <1>10
      <4>2. CASE ~(i < front)
        <5>1. i \in front .. f - 1
          BY <4>2, <1>7
        <5>2. ~(now - Tries[i] <= FailureWindow)
          BY <5>1, <1>4
        <5>3. Tries[i] \in Nat
          BY <1>5
        <5> QED
          BY <5>2, <5>3, <1>2, <1>8
      <4> QED
        BY <4>1, <4>2
    <3> QED
      BY <3>1, <3>2
  <2>3. lockedUntil' # 0 =>
          \E i, j \in 1 .. n : /\ j = i + MaxFailures - 1
                               /\ Tries[j] - Tries[i] <= FailureWindow
                               /\ lockedUntil' = Tries[j] + Lockout
    <3>1. CASE TooMany(f)
      <4> DEFINE i == n - MaxFailures + 1
      <4>1. i \in 1 .. n /\ f <= i /\ n = i + MaxFailures - 1
        BY <3>1, <1>1, <1>3, <1>7, <1>8 DEF TooMany
      <4>2. Tries[f] <= Tries[i]
        BY <4>1, <1>6, <1>7
      <4>3. Tries[n] - Tries[i] <= FailureWindow
        <5>1. Tries[n] = now /\ now - Tries[f] <= FailureWindow
          BY <1>1, <1>4
        <5>2. Tries[i] \in Nat /\ Tries[f] \in Nat
          BY <4>1, <1>5, <1>7
        <5> QED
          BY <4>2, <5>1, <5>2, <1>2, <1>8
      <4>4. lockedUntil' = Tries[n] + Lockout /\ n \in 1 .. n
        BY <3>1, <1>1, <1>3, <1>7
      <4> HIDE DEF i
      <4> QED
        BY <4>1, <4>3, <4>4
    <3>2. CASE ~TooMany(f)
      <4>1. lockedUntil' = lockedUntil
        BY <3>2, <1>3
      <4> SUFFICES ASSUME lockedUntil # 0
                   PROVE  \E i, j \in 1 .. n : /\ j = i + MaxFailures - 1
                                               /\ Tries[j] - Tries[i] <= FailureWindow
                                               /\ lockedUntil = Tries[j] + Lockout
        BY <4>1
      <4>2. PICK i \in 1 .. Len(bad), j \in 1 .. Len(bad) :
              /\ j = i + MaxFailures - 1
              /\ bad[j] - bad[i] <= FailureWindow
              /\ lockedUntil = bad[j] + Lockout
        BY <1>1 DEF Guard, TriesInv
      <4>3. i \in 1 .. n /\ j \in 1 .. n /\ Tries[i] = bad[i] /\ Tries[j] = bad[j]
        BY <4>2, <1>1, <1>7
      <4> QED
        BY <4>2, <4>3
    <3> QED
      BY <3>1, <3>2
  <2> QED
    BY <2>1, <2>2, <2>3, <1>1, <1>2, <1>6 DEF TriesInv
<1>12. BadTriesAreSpaced'
  <2> SUFFICES ASSUME NEW i \in 1 .. n, NEW j \in 1 .. n, j = i + MaxFailures
               PROVE  Tries[j] - Tries[i] > FailureWindow \/ Tries[j] - Tries[i] >= Lockout
    BY <1>1, <1>2 DEF BadTriesAreSpaced
  <2>1. CASE j <= Len(bad)
    <3>1. i \in 1 .. Len(bad) /\ j \in 1 .. Len(bad)
      BY <2>1, <1>7, <1>8
    <3> QED
      BY <3>1, <1>1 DEF Guard, BadTriesAreSpaced
  <2>2. CASE j = n
    <3>1. i \in 1 .. Len(bad) /\ i < front
      BY <2>2, <1>7, <1>8
    <3>2. now - bad[i] > FailureWindow \/ lockedUntil >= bad[i] + Lockout
      BY <3>1, <1>10
    <3>3. Tries[j] = now /\ Tries[i] = bad[i] /\ bad[i] \in Nat
      BY <2>2, <3>1, <1>1
    <3> QED
      BY <3>2, <3>3, <1>2, <1>8
  <2> QED
    BY <2>1, <2>2, <1>7, <1>0
<1>13. v \in {"locked", "refused"}
  BY <1>3
<1> QED
  BY <1>9, <1>11, <1>12, <1>13
-----------------------------------------------------------------------------
(* The guard's operations.                                                 *)

LEMMA KeysFixed ==
  ASSUME KeyType, UNCHANGED <<now, issuedAt, usedAt, ended>>
  PROVE  /\ Issued' = Issued
         /\ \A k : Live(k)' = Live(k)
BY DEF Issued, Live

(* A wrong key kills nobody and is not a live one. *)
LEMMA WrongKey ==
  ASSUME Guard, NEW k \in Issued \cup {NoKey}, NEW v,
         now >= lockedUntil, key = NoKey \/ k # key, Failure(v), UNCHANGED now
  PROVE  Guard' /\ DeadStay /\ ~Live(k) /\ v \in {"locked", "refused"}
<1>1. TriesType' /\ TriesInv' /\ BadTriesAreSpaced' /\ v \in {"locked", "refused"}
  BY FailureStep
<1>2. UNCHANGED <<now, key, issued, lastUse, issuedAt, usedAt, ended>>
  BY DEF Failure, session, history
<1>3. KeyType /\ KeyInv /\ NoKey \notin Issued
  BY IssuedIs DEF Guard
<1>4. Issued' = Issued /\ \A q : Live(q)' = Live(q)
  BY <1>2, <1>3, KeysFixed
<1>5. KeyType'
  BY <1>2, <1>3, <1>4 DEF KeyType
<1>6. KeyInv'
  BY <1>2, <1>3, <1>4 DEF KeyInv
<1>7. ~Live(k)
  BY <1>3 DEF KeyInv, Live
<1> QED
  BY <1>1, <1>4, <1>5, <1>6, <1>7 DEF Guard, DeadStay

(* The key in force is forgotten once it has expired. *)
LEMMA ExpiredKey ==
  ASSUME Guard, key # NoKey, Expired, key' = NoKey,
         UNCHANGED <<now, failures, issued, lastUse, history>>
  PROVE  Guard' /\ DeadStay /\ ~Live(key)
<1>1. UNCHANGED <<now, issued, lastUse, issuedAt, usedAt, ended, lockedUntil, bad, front>>
  BY DEF failures, history
<1>2. KeyType /\ KeyInv /\ NoKey \notin Issued /\ TriesType /\ TriesInv /\ BadTriesAreSpaced
  BY IssuedIs DEF Guard
<1>3. Issued' = Issued /\ \A q : Live(q)' = Live(q)
  BY <1>1, <1>2, KeysFixed
<1>4. ~Live(key)
  <2>1. issued = issuedAt[key] /\ lastUse = usedAt[key]
    BY <1>2 DEF KeyInv
  <2>2. now \in Nat /\ issued \in Nat /\ lastUse \in Nat
    BY <1>2 DEF KeyType
  <2> QED
    BY <2>1, <2>2, SessionsAssumption DEF Live, Expired
<1>5. KeyType'
  BY <1>1, <1>2, <1>3 DEF KeyType
<1>6. KeyInv'
  BY <1>2, <1>3, <1>4 DEF KeyInv
<1>7. TriesType' /\ TriesInv' /\ BadTriesAreSpaced'
  BY <1>1, <1>2 DEF TriesType, TriesInv, BadTriesAreSpaced
<1> QED
  BY <1>3, <1>4, <1>5, <1>6, <1>7 DEF Guard, DeadStay

(* The key in force is used. *)
LEMMA UsedKey ==
  ASSUME Guard, key # NoKey, ~Expired, lastUse' = now, usedAt' = [usedAt EXCEPT ![key] = now],
         UNCHANGED <<now, failures, key, issued, issuedAt, ended>>
  PROVE  Guard' /\ DeadStay /\ Live(key)
<1>1. UNCHANGED <<lockedUntil, bad, front>>
  BY DEF failures
<1>2. /\ KeyType /\ KeyInv /\ TriesType /\ TriesInv /\ BadTriesAreSpaced
      /\ key \in Issued /\ now \in Nat /\ issued \in Nat /\ lastUse \in Nat
      /\ Issued = 1 .. Len(issuedAt) /\ Len(usedAt) = Len(issuedAt) /\ usedAt \in Seq(Nat)
      /\ \A q \in Issued : issuedAt[q] \in Nat /\ usedAt[q] \in Nat
  BY IssuedIs DEF Guard, KeyType
<1>3. Live(key)
  <2>1. issued = issuedAt[key] /\ lastUse = usedAt[key] /\ key \notin ended
    BY <1>2 DEF KeyInv
  <2>2. ~(now - lastUse > Idle) /\ ~(now - issued > Absolute)
    BY DEF Expired
  <2>3. now - lastUse <= Idle /\ now - issued <= Absolute
    BY <2>2, <1>2, SessionsAssumption
  <2> QED
    BY <2>1, <2>3, <1>2 DEF Live
<1>4. /\ usedAt' \in Seq(Nat) /\ Len(usedAt') = Len(usedAt)
      /\ \A q \in Issued : usedAt'[q] = IF q = key THEN now ELSE usedAt[q]
  BY <1>2, ExceptSeq
<1>5. Issued' = Issued
  BY DEF Issued
<1>6. \A q \in Issued : q # key => Live(q)' = Live(q)
  BY <1>2, <1>4, <1>5 DEF Live
<1>7. KeyType'
  <2>1. \A q \in Issued : issuedAt[q] <= usedAt'[q] /\ usedAt'[q] <= now
    BY <1>2, <1>4 DEF KeyType
  <2> QED
    BY <2>1, <1>2, <1>4, <1>5 DEF KeyType
<1>8. KeyInv'
  BY <1>2, <1>4, <1>5, <1>6 DEF KeyInv
<1>9. TriesType' /\ TriesInv' /\ BadTriesAreSpaced'
  BY <1>1, <1>2 DEF TriesType, TriesInv, BadTriesAreSpaced
<1> QED
  BY <1>3, <1>6, <1>7, <1>8, <1>9 DEF Guard, DeadStay

(* What a verdict says of the key it is about. *)
LEMMA CheckStep ==
  ASSUME Guard, NEW k \in Issued \cup {NoKey}, NEW v, Check(k, v), UNCHANGED now
  PROVE  /\ Guard' /\ DeadStay /\ v \in {"ok", "refused", "locked"}
         /\ v = "ok" => Live(k)
         /\ v = "refused" => ~Live(k)
         /\ v = "locked" => (Live(k) => LockedOut)
<1>1. CASE now < lockedUntil /\ v = "locked" /\ UNCHANGED <<failures, session, history>>
  <2>1. UNCHANGED <<now, key, issued, lastUse, issuedAt, usedAt, ended, lockedUntil, bad, front>>
    BY <1>1 DEF failures, session, history
  <2>2. Issued' = Issued /\ \A q : Live(q)' = Live(q)
    BY <2>1, KeysFixed DEF Guard
  <2>3. Guard'
    BY <2>1, <2>2 DEF Guard, KeyType, TriesType, KeyInv, TriesInv, BadTriesAreSpaced
  <2>4. lockedUntil # 0
    BY <1>1 DEF Guard, KeyType
  <2>5. LockedOut
    BY <1>1, <2>4 DEF Guard, TriesInv, LockedOut
  <2> QED
    BY <1>1, <2>2, <2>3, <2>5 DEF DeadStay
<1>2. CASE now >= lockedUntil /\ (key = NoKey \/ k # key) /\ Failure(v)
  BY <1>2, WrongKey
<1>3. CASE /\ key # NoKey /\ k = key /\ Expired /\ v = "refused" /\ key' = NoKey
           /\ UNCHANGED <<failures, issued, lastUse, history>>
  <2>1. Guard' /\ DeadStay /\ ~Live(key)
    BY <1>3, ExpiredKey
  <2> QED
    BY <1>3, <2>1
<1>4. CASE /\ key # NoKey /\ k = key /\ ~Expired /\ v = "ok"
           /\ lastUse' = now /\ usedAt' = [usedAt EXCEPT ![k] = now]
           /\ UNCHANGED <<failures, key, issued, issuedAt, ended>>
  <2>1. Guard' /\ DeadStay /\ Live(key)
    BY <1>4, UsedKey
  <2> QED
    BY <1>4, <2>1
<1> QED
  BY <1>1, <1>2, <1>3, <1>4 DEF Check

LEMMA TickStep ==
  ASSUME Guard, Tick
  PROVE  Guard' /\ DeadStay
<1>1. /\ now' = now + 1
      /\ UNCHANGED <<key, issued, lastUse, issuedAt, usedAt, ended, lockedUntil, bad, front>>
  BY DEF Tick, failures, session, history
<1>2. /\ KeyType /\ KeyInv /\ TriesType /\ TriesInv /\ BadTriesAreSpaced /\ now \in Nat
      /\ \A q \in Issued : issuedAt[q] \in Nat /\ usedAt[q] \in Nat
  BY IssuedIs DEF Guard, KeyType
<1>3. Issued' = Issued
  BY <1>1 DEF Issued
<1>4. \A q \in Issued : Live(q)' => Live(q)
  <2> SUFFICES ASSUME NEW q \in Issued, q \notin ended,
                      now' - usedAt[q] <= Idle, now' - issuedAt[q] <= Absolute
               PROVE  Live(q)
    BY <1>1, <1>3 DEF Live
  <2>1. now - usedAt[q] <= Idle /\ now - issuedAt[q] <= Absolute
    BY <1>1, <1>2, SessionsAssumption
  <2> QED
    BY <2>1 DEF Live
<1>5. KeyType'
  <2>1. \A q \in Issued : issuedAt[q] <= usedAt[q] /\ usedAt[q] <= now + 1
    BY <1>2 DEF KeyType
  <2>2. now + 1 \in Nat /\ issued \in 0 .. now + 1 /\ lastUse \in 0 .. now + 1
    BY <1>2 DEF KeyType
  <2> QED
    BY <2>1, <2>2, <1>1, <1>2, <1>3 DEF KeyType
<1>6. KeyInv'
  BY <1>1, <1>2, <1>3, <1>4 DEF KeyInv
<1>7. TriesType'
  <2>1. \A i \in DOMAIN bad : bad[i] \in Nat /\ bad[i] <= now
    BY <1>2, LenProperties DEF TriesType
  <2>2. \A i \in DOMAIN bad : bad[i] <= now + 1
    BY <2>1, <1>2
  <2>3. lockedUntil \in 0 .. (now + 1) + Lockout
    BY <1>2, SessionsAssumption DEF TriesType
  <2> QED
    BY <2>2, <2>3, <1>1, <1>2 DEF TriesType
<1>8. TriesInv' /\ BadTriesAreSpaced'
  <2>1. \A i \in DOMAIN bad : bad[i] \in Nat
    BY <1>2, LenProperties DEF TriesType
  <2>2. \A i \in DOMAIN bad : now - bad[i] > FailureWindow => now' - bad[i] > FailureWindow
    BY <2>1, <1>1, <1>2, SessionsAssumption
  <2>3. \A i \in DOMAIN bad :
          i < front => now' - bad[i] > FailureWindow \/ lockedUntil >= bad[i] + Lockout
    <3>1. \A i \in DOMAIN bad :
            i < front => now - bad[i] > FailureWindow \/ lockedUntil >= bad[i] + Lockout
      BY <1>2 DEF TriesInv
    <3> QED
      BY <3>1, <2>2
  <2>4. TriesInv'
    BY <2>3, <1>1, <1>2 DEF TriesInv
  <2>5. BadTriesAreSpaced'
    BY <1>1, <1>2 DEF BadTriesAreSpaced
  <2> QED
    BY <2>4, <2>5
<1> QED
  BY <1>4, <1>5, <1>6, <1>7, <1>8 DEF Guard, DeadStay

LEMMA NewKeyStep ==
  ASSUME Guard, CurrentOrNewKey
  PROVE  Guard' /\ DeadStay
<1> DEFINE n == Len(issuedAt) + 1
<1>1. /\ key' = n /\ issued' = now /\ lastUse' = now
      /\ issuedAt' = Append(issuedAt, now) /\ usedAt' = Append(usedAt, now)
      /\ UNCHANGED <<now, ended, lockedUntil, bad, front>>
      /\ key = NoKey \/ Expired
  BY DEF CurrentOrNewKey, failures
<1>2. /\ KeyType /\ KeyInv /\ TriesType /\ TriesInv /\ BadTriesAreSpaced
      /\ now \in Nat /\ Len(issuedAt) \in Nat /\ n \in Nat \ {0}
      /\ issued \in Nat /\ lastUse \in Nat
      /\ issuedAt \in Seq(Nat) /\ usedAt \in Seq(Nat)
      /\ Issued = 1 .. Len(issuedAt) /\ Len(usedAt) = Len(issuedAt)
      /\ NoKey \notin Issued /\ ended \subseteq Issued
      /\ key # NoKey => key \in Issued
  BY IssuedIs DEF Guard, KeyType
<1>3. /\ issuedAt' \in Seq(Nat) /\ Len(issuedAt') = n /\ Issued' = 1 .. n
      /\ \A q \in Issued : issuedAt'[q] = issuedAt[q] /\ issuedAt[q] \in Nat
      /\ issuedAt'[n] = now
  BY <1>1, <1>2, AppendTo DEF Issued
<1>4. /\ usedAt' \in Seq(Nat) /\ Len(usedAt') = n
      /\ \A q \in Issued : usedAt'[q] = usedAt[q] /\ usedAt[q] \in Nat
      /\ usedAt'[n] = now
  BY <1>1, <1>2, AppendTo
<1>5. \A q \in Issued' : q # n => q \in Issued
  BY <1>2, <1>3
<1>6. Issued \subseteq Issued' /\ n \in Issued' /\ n \notin Issued
  BY <1>2, <1>3
<1> HIDE DEF n
<1>7. \A q \in Issued : Live(q)' = Live(q)
  BY <1>1, <1>3, <1>4, <1>6 DEF Live
<1>8. \A q \in Issued : ~Live(q)
  <2>1. CASE key = NoKey
    BY <2>1, <1>2 DEF KeyInv
  <2>2. CASE key # NoKey /\ Expired
    <3>1. issued = issuedAt[key] /\ lastUse = usedAt[key]
      BY <2>2, <1>2 DEF KeyInv
    <3>2. ~(now - lastUse <= Idle) \/ ~(now - issued <= Absolute)
      BY <2>2, <1>2, SessionsAssumption DEF Expired
    <3>3. ~Live(key)
      BY <3>1, <3>2 DEF Live
    <3> QED
      BY <3>3, <1>2 DEF KeyInv
  <2> QED
    BY <2>1, <2>2, <1>1
<1>9. KeyType'
  <2>1. \A q \in Issued' : issuedAt'[q] <= usedAt'[q] /\ usedAt'[q] <= now
    <3> SUFFICES ASSUME NEW q \in Issued'
                 PROVE  issuedAt'[q] <= usedAt'[q] /\ usedAt'[q] <= now
      OBVIOUS
    <3>1. CASE q = n
      BY <3>1, <1>2, <1>3, <1>4
    <3>2. CASE q \in Issued
      BY <3>2, <1>2, <1>3, <1>4 DEF KeyType
    <3> QED
      BY <3>1, <3>2, <1>5
  <2>2. now \in 0 .. now
    BY <1>2
  <2>3. ended \subseteq Issued'
    <3>1. ended \subseteq Issued /\ Issued \subseteq Issued'
      BY <1>2, <1>6
    <3> HIDE DEF Issued
    <3> QED
      BY <3>1
  <2> QED
    BY <2>1, <2>2, <2>3, <1>1, <1>2, <1>3, <1>4 DEF KeyType
<1>10. KeyInv'
  <2>1. n \notin ended
    BY <1>2, <1>6
  <2> QED
    BY <2>1, <1>1, <1>3, <1>4, <1>5, <1>7, <1>8 DEF KeyInv
<1>11. TriesType' /\ TriesInv' /\ BadTriesAreSpaced'
  BY <1>1, <1>2 DEF TriesType, TriesInv, BadTriesAreSpaced
<1> QED
  BY <1>7, <1>9, <1>10, <1>11 DEF Guard, DeadStay

(* A sign-out and the end of the service leave no live key. *)
LEMMA RevokeStep ==
  ASSUME Guard, Revoke
  PROVE  Guard' /\ \A q : ~Live(q)'
<1>1. /\ key' = NoKey /\ ended' = ended \cup ({key} \cap Issued)
      /\ UNCHANGED <<now, issued, lastUse, issuedAt, usedAt, lockedUntil, bad, front>>
  BY DEF Revoke, Confirmed, failures
<1>2. /\ KeyType /\ KeyInv /\ TriesType /\ TriesInv /\ BadTriesAreSpaced
      /\ Issued' = Issued /\ NoKey \notin Issued
  BY <1>1, IssuedIs DEF Guard, Issued
<1>3. \A q : ~Live(q)'
  <2> SUFFICES ASSUME NEW q, Live(q)'
               PROVE  FALSE
    OBVIOUS
  <2>1. q \in Issued /\ q # key /\ Live(q)
    BY <1>1, <1>2 DEF Live
  <2> QED
    BY <2>1, <1>2 DEF KeyInv
<1>4. KeyType'
  BY <1>1, <1>2 DEF KeyType
<1>5. KeyInv'
  BY <1>1, <1>2, <1>3 DEF KeyInv
<1>6. TriesType' /\ TriesInv' /\ BadTriesAreSpaced'
  BY <1>1, <1>2 DEF TriesType, TriesInv, BadTriesAreSpaced
<1> QED
  BY <1>3, <1>4, <1>5, <1>6 DEF Guard

LEMMA RestartStep ==
  ASSUME Guard, Restart
  PROVE  Guard' /\ \A q : ~Live(q)'
<1>1. /\ key' = NoKey /\ issued' = 0 /\ lastUse' = 0
      /\ lockedUntil' = 0 /\ bad' = <<>> /\ front' = 1
      /\ ended' = Issued
      /\ UNCHANGED <<now, issuedAt, usedAt>>
  BY DEF Restart
<1>2. KeyType /\ Issued' = Issued /\ now \in Nat
  BY <1>1 DEF Guard, KeyType, Issued
<1>3. \A q : ~Live(q)'
  BY <1>1, <1>2 DEF Live
<1>4. KeyType'
  BY <1>1, <1>2 DEF KeyType
<1>5. KeyInv'
  BY <1>1, <1>3 DEF KeyInv
<1>6. <<>> \in Seq(Nat) /\ Len(<<>>) = 0 /\ DOMAIN <<>> = {}
  OBVIOUS
<1>7. TriesType'
  BY <1>1, <1>2, <1>6, SessionsAssumption DEF TriesType
<1>8. TriesInv' /\ BadTriesAreSpaced'
  BY <1>1, <1>6, SessionsAssumption DEF TriesInv, BadTriesAreSpaced
<1> QED
  BY <1>3, <1>4, <1>5, <1>7, <1>8 DEF Guard

(* What the pages' actions leave alone. *)
LEMMA GuardIdle ==
  ASSUME Guard, UNCHANGED <<now, failures, session, history>>
  PROVE  Guard' /\ DeadStay
<1>1. UNCHANGED <<now, key, issued, lastUse, issuedAt, usedAt, ended, lockedUntil, bad, front>>
  BY DEF failures, session, history
<1>2. Issued' = Issued /\ \A q : Live(q)' = Live(q)
  BY <1>1, KeysFixed DEF Guard
<1> QED
  BY <1>1, <1>2
     DEF Guard, KeyType, TriesType, KeyInv, TriesInv, BadTriesAreSpaced, DeadStay

(* Whatever happens, the guard's invariant holds and no key comes back. *)
LEMMA GuardStep ==
  ASSUME IInv, [Next]_vars
  PROVE  /\ Guard'
         /\ \A q \in Issued \cup {NoKey} : Live(q)' => Live(q)
         /\ Issued \subseteq Issued'
<1>1. Guard /\ PageType
  BY DEF IInv
<1>2. Guard' /\ (DeadStay \/ \A q : ~Live(q)')
  <2>1. CASE Tick
    BY <2>1, <1>1, TickStep
  <2>2. CASE CurrentOrNewKey
    BY <2>2, <1>1, NewKeyStep
  <2>3. CASE Revoke
    BY <2>3, <1>1, RevokeStep
  <2>4. CASE Restart
    BY <2>4, <1>1, RestartStep
  <2>5. ASSUME NEW k \in Issued \cup {NoKey}, NEW c \in Slots, HandleOther(k, c)
        PROVE  Guard' /\ DeadStay
    <3>1. PICK v \in Answers : Check(k, v)
      BY <2>5 DEF HandleOther
    <3>2. UNCHANGED now
      BY <2>5 DEF HandleOther
    <3> QED
      BY <3>1, <3>2, <1>1, CheckStep
  <2>6. ASSUME NEW p \in Pages, NEW c \in Slots, Handle(p, c)
        PROVE  Guard' /\ DeadStay
    <3>1. PICK v \in Answers : Check(loaded[p], v)
      BY <2>6 DEF Handle
    <3>2. UNCHANGED now /\ loaded[p] \in Issued \cup {NoKey}
      BY <2>6, <1>1 DEF Handle, PageType
    <3> QED
      BY <3>1, <3>2, <1>1, CheckStep
  <2>7. CASE UNCHANGED <<now, failures, session, history>>
    BY <2>7, <1>1, GuardIdle
  <2>8. CASE UNCHANGED vars
    BY <2>8, <2>7 DEF vars
  <2>9. ASSUME NEW p \in Pages,
               \/ \E k \in Issued : OpenLink(p, k)
               \/ \E c \in Slots : Send(p, c)
               \/ \E c \in Calls, a \in Answers : Answered(p, c, a)
               \/ \E a \in Answers : SignedOut(p, a)
        PROVE  UNCHANGED <<now, failures, session, history>>
    BY <2>9 DEF OpenLink, Send, Answered, SignedOut
  <2> QED
    BY <2>1, <2>2, <2>3, <2>4, <2>5, <2>6, <2>7, <2>8, <2>9 DEF Next
<1>3. NoKey \notin Issued'
  <2>1. KeyType'
    BY <1>2 DEF Guard
  <2>2. issuedAt' \in Seq(Nat)
    BY <2>1 DEF KeyType
  <2>3. DOMAIN issuedAt' = 1 .. Len(issuedAt')
    BY <2>2, LenProperties
  <2> QED
    BY <2>3 DEF Issued, NoKey
<1>4. ~Live(NoKey)'
  BY <1>3 DEF Live
<1>5. \A q \in Issued \cup {NoKey} : Live(q)' => Live(q)
  BY <1>2, <1>4 DEF DeadStay
<1>6. Issued \subseteq Issued'
  <2>1. CASE CurrentOrNewKey
    <3>1. issuedAt' = Append(issuedAt, now) /\ issuedAt \in Seq(Nat) /\ now \in Nat
      BY <2>1, <1>1 DEF CurrentOrNewKey, Guard, KeyType
    <3>2. DOMAIN issuedAt' = 1 .. Len(issuedAt) + 1 /\ DOMAIN issuedAt = 1 .. Len(issuedAt)
          /\ Len(issuedAt) \in Nat
      BY <3>1, AppendTo
    <3> QED
      BY <3>2 DEF Issued
  <2>2. CASE UNCHANGED issuedAt
    BY <2>2 DEF Issued
  <2>3. ASSUME NEW k, NEW v, Check(k, v)
        PROVE  UNCHANGED issuedAt
    BY <2>3 DEF Check, Failure, history
  <2>4. CASE Tick \/ Revoke \/ Restart
    BY <2>4, <2>2 DEF Tick, Revoke, Confirmed, Restart, history
  <2>5. ASSUME NEW k, NEW c, HandleOther(k, c)
        PROVE  UNCHANGED issuedAt
    BY <2>5, <2>3 DEF HandleOther
  <2>6. ASSUME NEW p, NEW c, Handle(p, c)
        PROVE  UNCHANGED issuedAt
    BY <2>6, <2>3 DEF Handle
  <2>7. ASSUME NEW p, \/ \E k \in Issued : OpenLink(p, k)
                      \/ \E c \in Slots : Send(p, c)
                      \/ \E c \in Calls, a \in Answers : Answered(p, c, a)
                      \/ \E a \in Answers : SignedOut(p, a)
        PROVE  UNCHANGED issuedAt
    BY <2>7 DEF OpenLink, Send, Answered, SignedOut, history
  <2>8. CASE UNCHANGED vars
    BY <2>8, <2>2 DEF vars, history
  <2> QED
    BY <2>1, <2>2, <2>4, <2>5, <2>6, <2>7, <2>8 DEF Next
<1> QED
  BY <1>2, <1>5, <1>6

-----------------------------------------------------------------------------
(* The pages.                                                              *)

(* A page keeps its key, and a dead one stays dead. *)
LEMMA LoadedKept ==
  ASSUME IInv, [Next]_vars, UNCHANGED loaded
  PROVE  /\ loaded' \in [Pages -> Issued' \cup {NoKey}]
         /\ \A p \in Pages : ~Live(loaded[p]) => ~Live(loaded[p])'
<1>1. /\ \A q \in Issued \cup {NoKey} : Live(q)' => Live(q)
      /\ Issued \subseteq Issued'
  BY GuardStep
<1>2. loaded \in [Pages -> Issued \cup {NoKey}]
  BY DEF IInv, PageType
<1>3. ASSUME NEW p \in Pages, ~Live(loaded[p])
      PROVE  ~Live(loaded[p])'
  <2>1. PICK q \in Issued \cup {NoKey} : q = loaded[p]
    BY <1>2
  <2>2. ~Live(q)'
    BY <2>1, <1>1, <1>3
  <2> QED
    BY <2>1, <2>2 DEF Live
<1>4. loaded' \in [Pages -> Issued' \cup {NoKey}]
  <2> HIDE DEF Issued
  <2> QED
    BY <1>1, <1>2
<1> QED
  BY <1>3, <1>4

(* The steps of others, that no page sees. *)
LEMMA UnseenStep ==
  ASSUME IInv, [Next]_vars, UNCHANGED browser, revoking' \in BOOLEAN, revoking => revoking'
  PROVE  PageType' /\ PageInv'
<1>1. UNCHANGED <<page, loaded, calls, farewell>>
  BY DEF browser
<1>2. /\ loaded' \in [Pages -> Issued' \cup {NoKey}]
      /\ \A p \in Pages : ~Live(loaded[p]) => ~Live(loaded[p])'
  BY <1>1, LoadedKept
<1>3. PageType /\ PageInv
  BY DEF IInv
<1>4. PageType'
  BY <1>1, <1>2, <1>3 DEF PageType
<1>5. PageInv'
  BY <1>1, <1>2, <1>3 DEF PageInv
<1> QED
  BY <1>4, <1>5

(* A call is judged. *)
LEMMA HandleStep ==
  ASSUME IInv, NEW p \in Pages, NEW c \in Slots, Handle(p, c)
  PROVE  PageType' /\ PageInv'
<1>1. PICK v \in Answers :
        /\ Check(loaded[p], v)
        /\ revoking' = (v = "ok" /\ c = SignOut)
        /\ calls' = [calls EXCEPT ![p][c] = IF revoking' THEN "checked" ELSE v]
  BY DEF Handle
<1>2. ~revoking /\ UNCHANGED <<now, page, loaded, farewell>>
  BY DEF Handle
<1>3. PageType /\ PageInv /\ Guard /\ loaded[p] \in Issued \cup {NoKey}
  BY DEF IInv, PageType
<1>4. v = "refused" => ~Live(loaded[p])
  BY <1>1, <1>2, <1>3, CheckStep
<1>5. /\ loaded' \in [Pages -> Issued' \cup {NoKey}]
      /\ \A q \in Pages : ~Live(loaded[q]) => ~Live(loaded[q])'
  <2>1. [Next]_vars
    BY DEF Next
  <2> QED
    BY <2>1, <1>2, LoadedKept
<1>6. /\ calls' \in [Pages -> [Slots -> Answers \cup {"none", "sent", "checked"}]]
      /\ \A q \in Pages, d \in Slots :
           calls'[q][d] = IF q = p /\ d = c THEN (IF revoking' THEN "checked" ELSE v) ELSE calls[q][d]
  BY <1>1, <1>3 DEF PageType
<1>7. PageType'
  BY <1>1, <1>2, <1>3, <1>5, <1>6 DEF PageType
<1>8. ASSUME NEW q \in Pages
      PROVE  /\ \A d \in Slots : calls'[q][d] = "refused" => ~Live(loaded[q])'
             /\ calls'[q][SignOut] = "ok" => ~Live(loaded[q])'
             /\ \A d \in Slots : calls'[q][d] = "checked" => d = SignOut /\ revoking'
  <2>1. /\ \A d \in Slots : calls[q][d] = "refused" => ~Live(loaded[q])
        /\ calls[q][SignOut] = "ok" => ~Live(loaded[q])
        /\ \A d \in Slots : calls[q][d] # "checked"
    BY <1>2, <1>3 DEF PageInv
  <2>2. \A d \in Slots : calls'[q][d] = "refused" => ~Live(loaded[q])
    BY <2>1, <1>4, <1>6
  <2>3. calls'[q][SignOut] = "ok" => ~Live(loaded[q])
    <3>1. SignOut \in Slots /\ (v = "ok" /\ c = SignOut => revoking')
      BY <1>1 DEF Slots
    <3>2. calls'[q][SignOut] = IF q = p /\ SignOut = c THEN (IF revoking' THEN "checked" ELSE v)
                               ELSE calls[q][SignOut]
      BY <3>1, <1>6
    <3> QED
      BY <3>1, <3>2, <2>1, <1>4
  <2>4. \A d \in Slots : calls'[q][d] = "checked" => d = SignOut /\ revoking'
    BY <2>1, <1>1, <1>6 DEF Answers
  <2> QED
    BY <2>2, <2>3, <2>4, <1>5
<1>9. ASSUME NEW q \in Pages
      PROVE  /\ farewell'[q] \cap {"refused", "ok"} # {} => ~Live(loaded[q])'
             /\ page'[q] \in {"stopped", "rejected"} => farewell'[q] # {}
  BY <1>2, <1>3, <1>5 DEF PageInv
<1>10. PageInv'
  BY <1>8, <1>9 DEF PageInv
<1> QED
  BY <1>7, <1>10

(* A sign-out is confirmed, or the service starts again: no key is live. *)
LEMMA NoLiveStep ==
  ASSUME IInv, Revoke \/ Restart
  PROVE  PageType' /\ PageInv'
<1>1. Guard /\ PageType /\ PageInv
  BY DEF IInv
<1>2. \A q : ~Live(q)'
  BY <1>1, RevokeStep, RestartStep
<1>3. \A q \in Pages : ~Live(loaded[q])'
  BY <1>2 DEF Live
<1>4. revoking' = FALSE /\ UNCHANGED <<page, loaded, farewell>>
  BY DEF Revoke, Restart, Confirmed
<1>5. /\ calls' \in [Pages -> [Slots -> Answers \cup {"none", "sent", "checked"}]]
      /\ \A q \in Pages, d \in Slots : calls'[q][d] # "checked"
  <2>1. CASE Revoke
    <3>1. calls' = [p \in Pages |-> [c \in Slots |->
                     IF calls[p][c] = "checked" THEN "ok" ELSE calls[p][c]]]
      BY <2>1 DEF Revoke, Confirmed
    <3> QED
      BY <3>1, <1>1 DEF PageType, Answers
  <2>2. CASE Restart
    <3>1. calls' = [p \in Pages |-> [c \in Slots |->
                     IF calls[p][c] \in {"sent", "checked"} THEN "lost" ELSE calls[p][c]]]
      BY <2>2 DEF Restart
    <3> QED
      BY <3>1, <1>1 DEF PageType, Answers
  <2> QED
    BY <2>1, <2>2
<1>6. loaded' \in [Pages -> Issued' \cup {NoKey}]
  <2>1. [Next]_vars
    BY DEF Next
  <2> QED
    BY <2>1, <1>4, LoadedKept
<1>7. PageType'
  BY <1>1, <1>4, <1>5, <1>6 DEF PageType
<1>8. PageInv'
  BY <1>1, <1>3, <1>4, <1>5 DEF PageInv
<1> QED
  BY <1>7, <1>8

(* A link is opened in a tab that waits for nothing. *)
LEMMA OpenStep ==
  ASSUME IInv, NEW p \in Pages, NEW k \in Issued, OpenLink(p, k)
  PROVE  PageType' /\ PageInv'
<1>1. /\ page' = [page EXCEPT ![p] = "open"]
      /\ loaded' = [loaded EXCEPT ![p] = k]
      /\ farewell' = [farewell EXCEPT ![p] = {}]
      /\ \A c \in Slots : calls[p][c] = "none"
      /\ UNCHANGED <<calls, revoking>>
      /\ UNCHANGED <<now, issuedAt, usedAt, ended>>
  BY DEF OpenLink, history
<1>2. PageType /\ PageInv /\ KeyType /\ SignOut \in Slots
  BY DEF IInv, Guard, Slots
<1>3. Issued' = Issued /\ \A q : Live(q)' = Live(q)
  BY <1>1, <1>2, KeysFixed
<1>4. PageType'
  <2>1. loaded' \in [Pages -> Issued \cup {NoKey}]
    BY <1>1, <1>2 DEF PageType
  <2> QED
    BY <2>1, <1>1, <1>2, <1>3 DEF PageType
<1>5. ASSUME NEW q \in Pages, q # p
      PROVE  /\ loaded'[q] = loaded[q] /\ farewell'[q] = farewell[q] /\ page'[q] = page[q]
             /\ Live(loaded[q])' = Live(loaded[q])
  <2>1. loaded'[q] = loaded[q] /\ farewell'[q] = farewell[q] /\ page'[q] = page[q]
    BY <1>1, <1>2, <1>5 DEF PageType
  <2> QED
    BY <2>1, <1>1, <1>3 DEF Live
<1>6. farewell'[p] = {} /\ page'[p] = "open"
  BY <1>1, <1>2 DEF PageType
<1>7. PageInv'
  BY <1>1, <1>2, <1>5, <1>6 DEF PageInv
<1> QED
  BY <1>4, <1>7

(* A page sends a call, takes an answer or gives up on one. *)
LEMMA PageStep ==
  ASSUME IInv, NEW p \in Pages,
         \/ \E c \in Slots : Send(p, c)
         \/ \E c \in Calls, a \in Answers : Answered(p, c, a)
         \/ \E a \in Answers : SignedOut(p, a)
  PROVE  PageType' /\ PageInv'
<1>1. PageType /\ PageInv /\ SignOut \in Slots /\ Calls \subseteq Slots
  BY DEF IInv, Slots
<1>2. UNCHANGED <<loaded, revoking>>
  BY DEF Send, Answered, SignedOut
<1>3. /\ loaded' \in [Pages -> Issued' \cup {NoKey}]
      /\ \A q \in Pages : ~Live(loaded[q]) => ~Live(loaded[q])'
  <2>1. [Next]_vars
    BY DEF Next
  <2> QED
    BY <2>1, <1>2, LoadedKept
<1> DEFINE Settled == calls' \in [Pages -> [Slots -> Answers \cup {"none", "sent", "checked"}]]
           Known == \A q \in Pages, d \in Slots : calls'[q][d] \in {calls[q][d], "none", "sent"}
           Parted ==
             /\ page' \in [Pages -> {"closed", "open", "stopped", "rejected"}]
             /\ farewell' \in [Pages -> SUBSET Answers]
             /\ \A q \in Pages :
                  /\ farewell'[q] \cap {"refused", "ok"} # {} => ~Live(loaded[q])
                  /\ page'[q] \in {"stopped", "rejected"} => farewell'[q] # {}
<1>4. UNCHANGED <<page, farewell>> => Parted
  BY <1>1 DEF PageType, PageInv
<1>5. ASSUME NEW c \in Slots, NEW s \in {"none", "sent"}, calls' = [calls EXCEPT ![p][c] = s]
      PROVE  Settled /\ Known
  BY <1>1, <1>5 DEF PageType
<1>6. ASSUME NEW c \in Slots, NEW a \in Answers, Ends(p, c, a)
      PROVE  /\ a = "refused" => ~Live(loaded[p])
             /\ a = "ok" /\ c = SignOut => ~Live(loaded[p])
  BY <1>1, <1>6 DEF Ends, PageInv
<1>7. ASSUME NEW c \in Slots, Send(p, c)
      PROVE  Settled /\ Known /\ Parted
  <2>1. calls' = [calls EXCEPT ![p][c] = "sent"] /\ UNCHANGED <<page, farewell>>
    BY <1>7 DEF Send
  <2>2. Settled /\ Known
    BY <2>1, <1>5
  <2> QED
    BY <2>1, <2>2, <1>4
<1>8. ASSUME NEW c \in Calls, NEW a \in Answers, Answered(p, c, a)
      PROVE  Settled /\ Known /\ Parted
  <2>1. Settled /\ Known
    BY <1>1, <1>5, <1>8 DEF Answered
  <2>2. CASE a \in {"refused", "locked"}
    <3>1. page' = [page EXCEPT ![p] = "rejected"] /\ farewell' = [farewell EXCEPT ![p] = @ \cup {a}]
      BY <2>2, <1>8 DEF Answered
    <3>2. a = "refused" => ~Live(loaded[p])
      BY <1>1, <1>6, <1>8 DEF Answered
    <3>3. Parted
      BY <3>1, <3>2, <2>2, <1>1 DEF PageType, PageInv
    <3> QED
      BY <2>1, <3>3
  <2>3. CASE a \notin {"refused", "locked"}
    BY <2>1, <2>3, <1>4, <1>8 DEF Answered
  <2> QED
    BY <2>2, <2>3
<1>9. ASSUME NEW a \in Answers, SignedOut(p, a)
      PROVE  Settled /\ Known /\ Parted
  <2>1. Settled /\ Known
    BY <1>1, <1>5, <1>9 DEF SignedOut
  <2>2. page' = [page EXCEPT ![p] = IF @ = "rejected" THEN @ ELSE "stopped"] /\ farewell' = [farewell EXCEPT ![p] = @ \cup {a}]
    BY <1>9 DEF SignedOut
  <2>3. a \in {"refused", "ok"} => ~Live(loaded[p])
    BY <1>1, <1>6, <1>9 DEF SignedOut
  <2>4. Parted
    BY <2>2, <2>3, <1>1 DEF PageType, PageInv
  <2> QED
    BY <2>1, <2>4
<1>11. Settled /\ Known /\ Parted
  BY <1>7, <1>8, <1>9
<1>12. PageType'
  BY <1>1, <1>2, <1>3, <1>11 DEF PageType
<1>13. ASSUME NEW q \in Pages
       PROVE  /\ \A d \in Slots : calls'[q][d] = "refused" => ~Live(loaded[q])'
              /\ calls'[q][SignOut] = "ok" => ~Live(loaded[q])'
              /\ \A d \in Slots : calls'[q][d] = "checked" => d = SignOut /\ revoking'
  <2>1. \A d \in Slots : calls'[q][d] = calls[q][d] \/ calls'[q][d] \in {"none", "sent"}
    BY <1>11
  <2> HIDE DEF Settled, Known, Parted
  <2>2. /\ \A d \in Slots : calls[q][d] = "refused" => ~Live(loaded[q])
        /\ calls[q][SignOut] = "ok" => ~Live(loaded[q])
        /\ \A d \in Slots : calls[q][d] = "checked" => d = SignOut /\ revoking
    BY <1>1 DEF PageInv
  <2>3. ~Live(loaded[q]) => ~Live(loaded[q])'
    BY <1>3
  <2> QED
    BY <2>1, <2>2, <2>3, <1>1, <1>2
<1>14. ASSUME NEW q \in Pages
       PROVE  /\ farewell'[q] \cap {"refused", "ok"} # {} => ~Live(loaded[q])'
              /\ page'[q] \in {"stopped", "rejected"} => farewell'[q] # {}
  BY <1>3, <1>11
<1>15. PageInv'
  BY <1>13, <1>14 DEF PageInv
<1> QED
  BY <1>12, <1>15

-----------------------------------------------------------------------------
(* The invariant and what follows.                                         *)

LEMMA Initially ==
  ASSUME Init
  PROVE  IInv
<1>1. <<>> \in Seq(Nat) /\ Len(<<>>) = 0 /\ DOMAIN <<>> = {}
  OBVIOUS
<1>2. KeyType /\ TriesType
  BY <1>1, SessionsAssumption DEF Init, KeyType, TriesType, Issued, NoKey
<1>3. KeyInv /\ TriesInv /\ BadTriesAreSpaced
  BY <1>1, SessionsAssumption DEF Init, KeyInv, TriesInv, BadTriesAreSpaced, Issued
<1>4. PageType
  BY <1>1 DEF Init, PageType, Issued, NoKey
<1>5. SignOut \in Slots
  BY DEF Slots
<1>6. PageInv
  BY <1>5 DEF Init, PageInv
<1> QED
  BY <1>2, <1>3, <1>4, <1>6 DEF IInv, Guard

LEMMA Inductive ==
  ASSUME IInv, [Next]_vars
  PROVE  IInv'
<1>1. Guard'
  BY GuardStep
<1>2. revoking \in BOOLEAN
  BY DEF IInv, PageType
<1>3. CASE Tick \/ CurrentOrNewKey \/ UNCHANGED vars
  <2>1. UNCHANGED browser /\ revoking' = revoking
    BY <1>3 DEF Tick, CurrentOrNewKey, vars
  <2> QED
    BY <2>1, <1>1, <1>2, UnseenStep DEF IInv
<1>4. ASSUME NEW k \in Issued \cup {NoKey}, NEW c \in Slots, HandleOther(k, c)
      PROVE  PageType' /\ PageInv'
  <2>1. UNCHANGED browser /\ ~revoking /\ revoking' \in BOOLEAN
    BY <1>4 DEF HandleOther
  <2> QED
    BY <2>1, UnseenStep
<1>5. CASE Revoke \/ Restart
  BY <1>1, <1>5, NoLiveStep DEF IInv
<1>6. ASSUME NEW p \in Pages, NEW c \in Slots, Handle(p, c)
      PROVE  PageType' /\ PageInv'
  BY <1>6, HandleStep
<1>7. ASSUME NEW p \in Pages, NEW k \in Issued, OpenLink(p, k)
      PROVE  PageType' /\ PageInv'
  BY <1>7, OpenStep
<1>8. ASSUME NEW p \in Pages, \/ \E c \in Slots : Send(p, c)
                              \/ \E c \in Calls, a \in Answers : Answered(p, c, a)
                              \/ \E a \in Answers : SignedOut(p, a)
      PROVE  PageType' /\ PageInv'
  BY <1>8, PageStep
<1>9. PageType' /\ PageInv'
  BY <1>3, <1>4, <1>5, <1>6, <1>7, <1>8 DEF Next, IInv
<1> QED
  BY <1>1, <1>9 DEF IInv

(* The variables of the guard, the dashboard and the pages stay in their   *)
(* ranges.                                                                 *)
THEOREM TypeCorrect == Spec => []TypeOK
<1>1. IInv => TypeOK
  BY DEF IInv, Guard, KeyType, TriesType, PageType, TypeOK
<1> QED
  BY <1>1, Initially, Inductive, PTL DEF Spec

(* SessionGuard::Check lets nobody try more than MaxFailures wrong keys in *)
(* a window or a lockout.                                                  *)
THEOREM BadTriesSpaced == Spec => []BadTriesAreSpaced
<1>1. IInv => BadTriesAreSpaced
  BY DEF IInv, Guard
<1> QED
  BY <1>1, Initially, Inductive, PTL DEF Spec

(* A page that app.js has made drop its key, and that was told anything    *)
(* else than that the API is locked, has a key that is dead and stays so.  *)
THEOREM SignOutAlwaysEnds == Spec => []SignOutEnds
<1>1. IInv => SignOutEnds
  <2> SUFFICES ASSUME IInv, NEW p \in Pages, page[p] \in {"stopped", "rejected"}, Live(loaded[p])
               PROVE  farewell[p] # {} /\ farewell[p] \subseteq {"locked", "lost"}
    BY DEF SignOutEnds
  <2>1. farewell[p] # {} /\ farewell[p] \cap {"refused", "ok"} = {}
    BY DEF IInv, PageInv
  <2>2. farewell[p] \subseteq Answers
    BY DEF IInv, PageType
  <2> QED
    BY <2>1, <2>2 DEF Answers
<1> QED
  BY <1>1, Initially, Inductive, PTL DEF Spec

(* Dashboard::Handle lets a call through only with a live key, and turns a *)
(* live key down only in a lockout that wrong keys have earned.            *)
THEOREM AnsweredAlwaysAsPromised == Spec => AnsweredAsPromised
<1> DEFINE Kept ==
      \A p \in Pages, c \in Slots :
        calls[p][c] = "sent" /\ calls'[p][c] \notin {"sent", "lost", "none"} =>
          IF calls'[p][c] \in {"ok", "checked"} THEN Live(loaded[p])
          ELSE Live(loaded[p]) => LockedOut
<1>1. ASSUME IInv, [Next]_vars
      PROVE  Kept
  <2> SUFFICES ASSUME NEW p \in Pages, NEW c \in Slots,
                      calls[p][c] = "sent", calls'[p][c] \notin {"sent", "lost", "none"}
               PROVE  IF calls'[p][c] \in {"ok", "checked"} THEN Live(loaded[p])
                      ELSE Live(loaded[p]) => LockedOut
    OBVIOUS
  <2>1. PageType /\ Guard /\ loaded[p] \in Issued \cup {NoKey}
    BY <1>1 DEF IInv, PageType
  <2>2. Handle(p, c)
    <3>1. ASSUME NEW q \in Pages, NEW d \in Slots, NEW s,
                 calls' = [calls EXCEPT ![q][d] = s], s \in {"none", "sent"}
          PROVE  FALSE
      BY <3>1, <2>1 DEF PageType
    <3>2. ~UNCHANGED calls
      OBVIOUS
    <3>3. ~(Tick \/ CurrentOrNewKey \/ UNCHANGED vars)
      BY <3>2 DEF Tick, CurrentOrNewKey, vars, browser
    <3>4. ~Revoke /\ ~Restart
      BY <2>1 DEF Revoke, Restart, Confirmed, PageType
    <3>5. ASSUME NEW k, NEW d, HandleOther(k, d)
          PROVE  FALSE
      BY <3>2, <3>5 DEF HandleOther, browser
    <3>6. ASSUME NEW q \in Pages, \/ \E k \in Issued : OpenLink(q, k)
                                  \/ \E d \in Slots : Send(q, d)
                                  \/ \E d \in Calls, a \in Answers : Answered(q, d, a)
                                  \/ \E a \in Answers : SignedOut(q, a)
          PROVE  FALSE
      BY <3>1, <3>2, <3>6 DEF OpenLink, Send, Answered, SignedOut, Slots
    <3>7. PICK q \in Pages, d \in Slots : Handle(q, d)
      BY <3>3, <3>4, <3>5, <3>6, <1>1 DEF Next
    <3>8. q = p /\ d = c
      BY <3>7, <2>1 DEF Handle, PageType
    <3> QED
      BY <3>7, <3>8
  <2>3. PICK v \in Answers :
          /\ Check(loaded[p], v)
          /\ revoking' = (v = "ok" /\ c = SignOut)
          /\ calls' = [calls EXCEPT ![p][c] = IF revoking' THEN "checked" ELSE v]
    BY <2>2 DEF Handle
  <2>4. UNCHANGED now
    BY <2>2 DEF Handle
  <2>5. /\ v \in {"ok", "refused", "locked"}
        /\ v = "ok" => Live(loaded[p])
        /\ v = "refused" => ~Live(loaded[p])
        /\ v = "locked" => (Live(loaded[p]) => LockedOut)
    BY <2>1, <2>3, <2>4, CheckStep
  <2>6. calls'[p][c] = IF revoking' THEN "checked" ELSE v
    BY <2>1, <2>3 DEF PageType
  <2> QED
    BY <2>3, <2>5, <2>6
<1>2. IInv /\ [Next]_vars => [Kept]_vars
  BY <1>1
<1> QED
  BY <1>2, Initially, Inductive, PTL DEF Spec, AnsweredAsPromised
=============================================================================
