--------------------------- MODULE Channel_proofs ---------------------------
(***************************************************************************)
(* Proofs about the secure channel, for any number of threads, secrets,    *)
(* messages and sizes, and any pieces in which the frames travel.          *)
(***************************************************************************)
EXTENDS Channel, SequenceTheorems, TLAPS

-----------------------------------------------------------------------------
(* The inductive invariant.                                                *)

Stages == {"start", "hello", "proof", "ready"} \cup Over
AllSenders == Senders["client"] \cup Senders["server"]
Kinds == {"none", "hello", "challenge", "proof", "sealed"}
Frames == [kind : Kinds, secret : AllSecrets, seq : Nat, msg : AllSenders \cup {Nobody}, size : Nat]
Units == Frames \X Nat
Jobs == [frame : Frames, done : Nat]

(* A side that has been ready. *)
Ready == {"ready", "closed", "lost", "broken"}

Types ==
  /\ secret \in [Sides -> AllSecrets]
  /\ stage \in [Sides -> Stages]
  /\ DOMAIN sending = Sides /\ \A s \in Sides : sending[s] \in [Senders[s] -> Jobs]
  /\ stream \in [Sides -> Seq(Units)]
  /\ said \in [Sides -> Seq(AllSenders)] /\ heard \in [Sides -> Seq(AllSenders)]
  /\ arrived \in [Sides -> Nat] /\ taken \in [Sides -> Nat]
  /\ sendSeq \in [Sides -> Nat] /\ recvSeq \in [Sides -> Nat]
  /\ cut \in BOOLEAN /\ dropped \in [Sides -> BOOLEAN]

(* The buffers and the numbers. *)
Counts ==
  \A s \in Sides :
    /\ taken[s] <= arrived[s] /\ arrived[s] <= Len(In(s))
    /\ sendSeq[s] = Len(said[s]) /\ recvSeq[s] = Len(heard[s])

(* One thread of a side writes at a time, and before a side is ready it is *)
(* the one that also receives.                                             *)
Writers ==
  \A s \in Sides :
    /\ \A t, u \in Senders[s] : Writes(s, t) /\ Writes(s, u) => t = u
    /\ stage[s] = "start" => Free(s)
    /\ stage[s] \notin Ready => \A t \in Senders[s] : Writes(s, t) => t = Receiver[s]

(* A frame is made with the secret of its side; a sealed one carries what  *)
(* was said under its number; the controller proves itself when it is      *)
(* ready.                                                                  *)
Good(s, f) ==
  /\ f.secret = secret[s]
  /\ f.kind = "sealed" => f.seq < Len(said[s]) /\ f.msg = said[s][f.seq + 1]
  /\ s = "server" /\ f.kind = "proof" => stage[s] \in Ready

Honest ==
  \A s \in Sides :
    /\ \A i \in 1 .. Len(stream[s]) : Good(s, stream[s][i][1])
    /\ \A t \in Senders[s] : Writes(s, t) => Good(s, sending[s][t].frame)

(* Who has been ready shares the secret, and the agent has been preceded   *)
(* by the controller.                                                      *)
Shared ==
  /\ \A s \in Sides : stage[s] \in Ready => secret["client"] = secret["server"]
  /\ stage["client"] \in Ready => stage["server"] \in Ready

IInv == Types /\ Counts /\ Writers /\ Honest /\ Shared

-----------------------------------------------------------------------------
(* Frames, and what makes them good.                                       *)

LEMMA SidesAre ==
  /\ \A s \in Sides : Peer(s) \in Sides /\ Peer(Peer(s)) = s /\ Peer(s) # s
  /\ Sides = {"client", "server"}
BY DEF Sides, Peer

LEMMA PlainIs ==
  ASSUME NEW k \in AllSecrets, NEW kind \in Kinds
  PROVE  /\ Plain(kind, k) \in Frames
         /\ Plain(kind, k).kind = kind /\ Plain(kind, k).secret = k
BY DEF Plain, Frame, Frames

LEMMA SilentIs == Silent \in Jobs /\ Silent.frame.kind = "none"
<1>1. Plain("none", Short) \in Frames /\ Plain("none", Short).kind = "none"
  BY PlainIs DEF AllSecrets, Kinds
<1> QED
  BY <1>1 DEF Silent, Jobs

(* What is good stays good while more is said. *)
LEMMA GoodStays ==
  ASSUME Types, NEW s \in Sides, secret' = secret, stage[s] \in Ready => stage'[s] \in Ready,
         \/ said'[s] = said[s]
         \/ \E m \in AllSenders : said'[s] = Append(said[s], m)
  PROVE  \A f \in Frames : Good(s, f) => Good(s, f)'
<1>1. said[s] \in Seq(AllSenders) /\ Len(said[s]) \in Nat
  BY LenProperties DEF Types
<1>2. ASSUME NEW n \in Nat, n < Len(said[s])
      PROVE  n < Len(said'[s]) /\ said'[s][n + 1] = said[s][n + 1]
  <2>1. CASE said'[s] = said[s]
    BY <2>1, <1>2
  <2>2. ASSUME NEW m \in AllSenders, said'[s] = Append(said[s], m)
        PROVE  n < Len(said'[s]) /\ said'[s][n + 1] = said[s][n + 1]
    <3>1. /\ Len(said'[s]) = Len(said[s]) + 1
          /\ \A i \in 1 .. Len(said[s]) : said'[s][i] = said[s][i]
      BY <2>2, <1>1, AppendProperties
    <3>2. n + 1 \in 1 .. Len(said[s])
      BY <1>1, <1>2
    <3> QED
      BY <3>1, <3>2, <1>1, <1>2
  <2> QED
    BY <2>1, <2>2
<1>3. \A f \in Frames : f.seq \in Nat
  BY DEF Frames
<1> QED
  BY <1>2, <1>3 DEF Good

LEMMA FramesKnown ==
  ASSUME Types
  PROVE  /\ \A s \in Sides : \A t \in Senders[s] : sending[s][t] \in Jobs /\ sending[s][t].frame \in Frames
                                               /\ sending[s][t].done \in Nat
         /\ \A s \in Sides : /\ stream[s] \in Seq(Units) /\ Len(stream[s]) \in Nat
                             /\ \A i \in 1 .. Len(stream[s]) : /\ stream[s][i] \in Units
                                                               /\ stream[s][i][1] \in Frames
<1>1. \A s \in Sides : stream[s] \in Seq(Units)
  BY DEF Types
<1>2. ASSUME NEW s \in Sides
      PROVE  Len(stream[s]) \in Nat /\ \A i \in 1 .. Len(stream[s]) : stream[s][i] \in Units
  BY <1>1, LenProperties
<1>3. \A u \in Units : u[1] \in Frames
  BY DEF Units
<1>4. \A s \in Sides : \A t \in Senders[s] : sending[s][t] \in Jobs
  BY DEF Types
<1> QED
  BY <1>1, <1>2, <1>3, <1>4 DEF Jobs

(* What a step may do to the frames: more may be said, a side may become   *)
(* ready, and whatever is written or being written was good before the     *)
(* step or is good after it.                                               *)
Kept ==
  /\ secret' = secret
  /\ \A s \in Sides : stage[s] \in Ready => stage'[s] \in Ready
  /\ \A s \in Sides : said'[s] = said[s] \/ \E m \in AllSenders : said'[s] = Append(said[s], m)

LEMMA HonestStep ==
  ASSUME Types, Kept,
         \A s \in Sides : \A i \in 1 .. Len(stream'[s]) :
           \E f \in Frames : f = stream'[s][i][1] /\ Good(s, f),
         \A s \in Sides : \A t \in Senders[s] :
           sending'[s][t] # Silent =>
             \E f \in Frames : f = sending'[s][t].frame /\ (Good(s, f) \/ Good(s, f)')
  PROVE  Honest'
<1>1. \A s \in Sides, f \in Frames : Good(s, f) => Good(s, f)'
  BY GoodStays DEF Kept
<1>2. ASSUME NEW s \in Sides, NEW i \in 1 .. Len(stream'[s])
      PROVE  Good(s, stream[s][i][1])'
  <2>1. PICK f \in Frames : f = stream'[s][i][1] /\ Good(s, f)
    OBVIOUS
  <2>2. Good(s, f)'
    BY <1>1, <2>1
  <2> QED
    BY <2>1, <2>2 DEF Good
<1>3. ASSUME NEW s \in Sides, NEW t \in Senders[s], Writes(s, t)'
      PROVE  Good(s, sending[s][t].frame)'
  <2>1. PICK f \in Frames : f = sending'[s][t].frame /\ (Good(s, f) \/ Good(s, f)')
    BY <1>3 DEF Writes
  <2>2. Good(s, f)'
    BY <1>1, <2>1
  <2> QED
    BY <2>1, <2>2 DEF Good
<1> QED
  BY <1>2, <1>3 DEF Honest

(* Nothing is written or begun. *)
LEMMA HonestIdle ==
  ASSUME Types, Honest, Kept, UNCHANGED <<sending, stream>>
  PROVE  Honest'
<1>1. \A s \in Sides : \A i \in 1 .. Len(stream'[s]) : \E f \in Frames : f = stream'[s][i][1] /\ Good(s, f)
  BY FramesKnown DEF Honest
<1>2. \A s \in Sides : \A t \in Senders[s] :
        sending'[s][t] # Silent =>
          \E f \in Frames : f = sending'[s][t].frame /\ (Good(s, f) \/ Good(s, f)')
  BY FramesKnown DEF Honest, Writes
<1> QED
  BY <1>1, <1>2, HonestStep

(* A frame is begun by a thread of a side on which nobody else writes. *)
LEMMA Begun ==
  ASSUME Types, NEW s \in Sides, NEW t \in Senders[s], NEW f \in Frames, f.kind # "none",
         Begin(s, t, f)
  PROVE  /\ DOMAIN sending' = Sides
         /\ \A r \in Sides : sending'[r] \in [Senders[r] -> Jobs]
         /\ \A r \in Sides : \A u \in Senders[r] :
              sending'[r][u] = IF r = s /\ u = t THEN [frame |-> f, done |-> 0] ELSE sending[r][u]
         /\ [frame |-> f, done |-> 0] # Silent
<1>1. sending' = [sending EXCEPT ![s][t] = [frame |-> f, done |-> 0]]
  BY DEF Begin
<1>2. [frame |-> f, done |-> 0] \in Jobs /\ [frame |-> f, done |-> 0] # Silent
  BY SilentIs DEF Jobs
<1> HIDE DEF Jobs
<1> QED
  BY <1>1, <1>2 DEF Types

LEMMA HonestBegin ==
  ASSUME Types, Honest, Kept, NEW s \in Sides, NEW t \in Senders[s], NEW f \in Frames,
         f.kind # "none", Begin(s, t, f), Good(s, f) \/ Good(s, f)', UNCHANGED stream
  PROVE  Honest'
<1>1. \A r \in Sides : \A i \in 1 .. Len(stream'[r]) : \E g \in Frames : g = stream'[r][i][1] /\ Good(r, g)
  BY FramesKnown DEF Honest
<1>2. ASSUME NEW r \in Sides, NEW u \in Senders[r], sending'[r][u] # Silent
      PROVE  \E g \in Frames : g = sending'[r][u].frame /\ (Good(r, g) \/ Good(r, g)')
  <2>1. sending'[r][u] = IF r = s /\ u = t THEN [frame |-> f, done |-> 0] ELSE sending[r][u]
    BY Begun
  <2>2. CASE r = s /\ u = t
    BY <2>1, <2>2
  <2>3. CASE ~(r = s /\ u = t)
    BY <2>1, <2>3, <1>2, FramesKnown DEF Honest, Writes
  <2> QED
    BY <2>2, <2>3
<1> QED
  BY <1>1, <1>2, HonestStep

(* The threads that write after a step: those that wrote before, and one   *)
(* that has begun.                                                         *)
LEMMA WritersBegin ==
  ASSUME Types, Writers, NEW s \in Sides, NEW t \in Senders[s], NEW f \in Frames, f.kind # "none",
         Begin(s, t, f), Free(s),
         \A r \in Sides : /\ stage'[r] # "start" \/ (r # s /\ stage[r] = "start")
                          /\ stage'[r] \in Ready \/ stage[r] \notin Ready,
         stage'[s] \in Ready \/ t = Receiver[s]
  PROVE  Writers'
<1>1. \A r \in Sides : \A u \in Senders[r] :
        Writes(r, u)' => IF r = s THEN u = t ELSE Writes(r, u)
  <2> SUFFICES ASSUME NEW r \in Sides, NEW u \in Senders[r], sending'[r][u] # Silent
               PROVE  IF r = s THEN u = t ELSE sending[r][u] # Silent
    BY DEF Writes
  <2>1. sending'[r][u] = IF r = s /\ u = t THEN [frame |-> f, done |-> 0] ELSE sending[r][u]
    BY Begun
  <2>2. \A v \in Senders[s] : sending[s][v] = Silent
    BY DEF Free, Writes
  <2> QED
    BY <2>1, <2>2
<1>2. ASSUME NEW r \in Sides
      PROVE  /\ \A u, v \in Senders[r] : Writes(r, u)' /\ Writes(r, v)' => u = v
             /\ stage'[r] = "start" => \A u \in Senders[r] : ~Writes(r, u)'
             /\ stage'[r] \notin Ready => \A u \in Senders[r] : Writes(r, u)' => u = Receiver[r]
  <2>1. CASE r = s
    <3>1. \A u \in Senders[s] : Writes(s, u)' => u = t
      BY <1>1
    <3>2. stage'[s] # "start" /\ (stage'[s] \notin Ready => t = Receiver[s])
      OBVIOUS
    <3> QED
      BY <3>1, <3>2, <2>1
  <2>2. CASE r # s
    <3>1. \A u \in Senders[r] : Writes(r, u)' => Writes(r, u)
      BY <1>1, <2>2
    <3> QED
      BY <3>1, <2>2 DEF Writers, Free
  <2> QED
    BY <2>1, <2>2
<1> QED
  BY <1>2 DEF Writers, Free

-----------------------------------------------------------------------------
(* The steps.                                                              *)

(* A step that writes nothing and makes nobody ready. *)
LEMMA QuietStep ==
  ASSUME IInv, UNCHANGED <<secret, sending, stream, said>>,
         \A r \in Sides : /\ stage'[r] \in Ready <=> stage[r] \in Ready
                          /\ stage'[r] = "start" => stage[r] = "start"
  PROVE  Writers' /\ Honest' /\ Shared'
<1>1. Types /\ Writers /\ Honest /\ Shared
  BY DEF IInv
<1>2. Writers'
  BY <1>1 DEF Writers, Free, Writes
<1>3. Kept
  BY DEF Kept
<1>4. Honest'
  BY <1>1, <1>3, HonestIdle
<1>5. Shared'
  BY <1>1, SidesAre DEF Shared
<1> QED
  BY <1>2, <1>4, <1>5

(* A side moves on from a stage it is in. *)
LEMMA Moved ==
  ASSUME Types, NEW s \in Sides, NEW x \in Stages, stage' = [stage EXCEPT ![s] = x]
  PROVE  /\ stage' \in [Sides -> Stages]
         /\ \A r \in Sides : stage'[r] = IF r = s THEN x ELSE stage[r]
<1> HIDE DEF Stages
<1> QED
  BY DEF Types

LEMMA CutStep ==
  ASSUME IInv, Cut
  PROVE  IInv'
<1>1. cut' = TRUE /\ UNCHANGED <<secret, stage, reading, writing>>
  BY DEF Cut
<1>2. UNCHANGED <<secret, stage, arrived, taken, recvSeq, heard, sending, stream, sendSeq, said, dropped>>
  BY <1>1 DEF reading, writing
<1>3. Types' /\ Counts'
  BY <1>1, <1>2 DEF IInv, Types, Counts, In
<1> QED
  BY <1>2, <1>3, QuietStep DEF IInv

(* A side gives up, or closes. *)
LEMMA OverStep ==
  ASSUME IInv, NEW s \in Sides, NEW x \in Over, stage' = [stage EXCEPT ![s] = x],
         x \in Ready <=> stage[s] \in Ready,
         UNCHANGED <<secret, cut, reading, writing>>
  PROVE  IInv'
<1>1. UNCHANGED <<secret, cut, arrived, taken, recvSeq, heard, sending, stream, sendSeq, said, dropped>>
  BY DEF reading, writing
<1>2. x \in Stages /\ x # "start"
  BY DEF Stages, Over
<1>3. stage' \in [Sides -> Stages] /\ \A r \in Sides : stage'[r] = IF r = s THEN x ELSE stage[r]
  BY <1>2, Moved DEF IInv
<1>4. Types' /\ Counts'
  BY <1>1, <1>3 DEF IInv, Types, Counts, In
<1>5. Writers' /\ Honest' /\ Shared'
  BY <1>1, <1>2, <1>3, QuietStep
<1> QED
  BY <1>4, <1>5 DEF IInv

LEMMA RecvStep ==
  ASSUME IInv, NEW s \in Sides, NEW n \in 1 .. Chunk, Recv(s, n)
  PROVE  IInv'
<1>1. /\ arrived[s] + n <= Len(In(s)) /\ arrived' = [arrived EXCEPT ![s] = @ + n]
      /\ UNCHANGED <<secret, cut, taken, recvSeq, heard, sending, stream, sendSeq, said, dropped>>
      /\ stage[s] \in {"hello", "proof", "ready"}
      /\ \/ stage' = [stage EXCEPT ![s] = IF @ = "ready" THEN "broken" ELSE "failed"]
         \/ stage' = stage
  BY DEF Recv, writing, Waits
<1>2. Types /\ Counts /\ n \in Nat /\ n > 0 /\ Chunk \in Nat
  BY ChannelAssumption DEF IInv
<1>3. /\ stage' \in [Sides -> Stages]
      /\ \A r \in Sides : /\ stage'[r] \in Ready <=> stage[r] \in Ready
                          /\ stage'[r] = "start" => stage[r] = "start"
  <2>1. CASE stage' = stage
    BY <2>1, <1>2 DEF Types
  <2>2. CASE stage' = [stage EXCEPT ![s] = IF @ = "ready" THEN "broken" ELSE "failed"]
    <3> DEFINE x == IF stage[s] = "ready" THEN "broken" ELSE "failed"
    <3>1. stage' = [stage EXCEPT ![s] = x]
      BY <2>2
    <3>2. x \in Stages /\ (x \in Ready <=> stage[s] \in Ready) /\ x # "start"
      BY <1>1 DEF Stages, Over, Ready
    <3> HIDE DEF x
    <3>3. stage' \in [Sides -> Stages] /\ \A r \in Sides : stage'[r] = IF r = s THEN x ELSE stage[r]
      BY <3>1, <3>2, <1>2, Moved
    <3> QED
      BY <3>2, <3>3
  <2> QED
    BY <1>1, <2>1, <2>2
<1>4. arrived' \in [Sides -> Nat]
      /\ \A r \in Sides : arrived'[r] = IF r = s THEN arrived[s] + n ELSE arrived[r]
  BY <1>1, <1>2 DEF Types
<1>5. Types'
  BY <1>1, <1>2, <1>3, <1>4 DEF Types
<1>6. Counts'
  <2> SUFFICES ASSUME NEW r \in Sides
               PROVE  taken[r] <= arrived'[r] /\ arrived'[r] <= Len(In(r))
    BY <1>1, <1>2 DEF Counts, In
  <2>1. taken[r] <= arrived[r] /\ arrived[r] <= Len(In(r)) /\ taken[r] \in Nat /\ arrived[r] \in Nat
    BY <1>2 DEF Counts, Types
  <2> QED
    BY <2>1, <1>1, <1>2, <1>4
<1>7. Writers' /\ Honest' /\ Shared'
  BY <1>1, <1>3, QuietStep
<1> QED
  BY <1>5, <1>6, <1>7 DEF IInv

(* A frame at the front of the buffer is one of the other side's. *)
LEMMA TakenStep ==
  ASSUME IInv, NEW s \in Sides, Taken(s)
  PROVE  /\ Front(s)[1] \in Frames /\ Good(Peer(s), Front(s)[1])
         /\ taken' \in [Sides -> Nat] /\ \A r \in Sides : taken'[r] <= arrived[r]
         /\ UNCHANGED <<secret, cut, arrived>>
         /\ stage[s] \in {"hello", "proof", "ready"} /\ ~Writes(s, Receiver[s])
<1>1. /\ Buffered(s) > 0 /\ Buffered(s) >= Front(s)[1].size + 1
      /\ taken' = [taken EXCEPT ![s] = @ + Front(s)[1].size + 1]
      /\ UNCHANGED <<secret, cut, arrived>>
      /\ stage[s] \in {"hello", "proof", "ready"} /\ ~Writes(s, Receiver[s])
  BY DEF Taken, Complete, Waits
<1>2. Types /\ Counts /\ Honest /\ Peer(s) \in Sides
  BY SidesAre DEF IInv
<1>3. /\ taken[s] \in Nat /\ arrived[s] \in Nat /\ arrived[s] <= Len(In(s))
      /\ Len(stream[Peer(s)]) \in Nat
  <2>1. taken[s] \in Nat /\ arrived[s] \in Nat
    BY <1>2 DEF Types
  <2>2. arrived[s] <= Len(In(s))
    BY <1>2 DEF Counts
  <2>3. Len(stream[Peer(s)]) \in Nat
    BY <1>2, FramesKnown
  <2> QED
    BY <2>1, <2>2, <2>3
<1>4. taken[s] + 1 \in 1 .. Len(stream[Peer(s)])
  BY <1>1, <1>3 DEF Buffered, In
<1>5. Front(s)[1] \in Frames /\ Good(Peer(s), Front(s)[1])
  BY <1>2, <1>4, FramesKnown DEF Front, In, Honest
<1>6. Front(s)[1].size \in Nat
  BY <1>5 DEF Frames
<1>7. taken' \in [Sides -> Nat]
      /\ \A r \in Sides : taken'[r] = IF r = s THEN taken[s] + Front(s)[1].size + 1 ELSE taken[r]
  <2> DEFINE x == taken[s] + Front(s)[1].size + 1
  <2>1. x \in Nat
    BY <1>3, <1>6
  <2>2. taken' = [taken EXCEPT ![s] = x] /\ taken \in [Sides -> Nat]
    BY <1>1, <1>2 DEF Types
  <2> HIDE DEF x
  <2>3. taken' \in [Sides -> Nat] /\ \A r \in Sides : taken'[r] = IF r = s THEN x ELSE taken[r]
    BY <2>1, <2>2
  <2> QED
    BY <2>3 DEF x
<1>8. ASSUME NEW r \in Sides
      PROVE  taken'[r] <= arrived[r]
  <2>1. taken[r] <= arrived[r]
    BY <1>2 DEF Counts
  <2> QED
    BY <2>1, <1>1, <1>3, <1>6, <1>7 DEF Buffered
<1> QED
  BY <1>1, <1>5, <1>7, <1>8

(* What was said under a number is there to be heard. *)
LEMMA OpensNext ==
  ASSUME IInv, NEW s \in Sides, Taken(s), Opens(s, Front(s)[1])
  PROVE  /\ Len(heard[s]) \in Nat /\ Len(heard[s]) < Len(said[Peer(s)])
         /\ Front(s)[1].msg = said[Peer(s)][Len(heard[s]) + 1]
         /\ Front(s)[1].msg \in AllSenders
<1> DEFINE f == Front(s)[1]
<1>1. f \in Frames /\ Good(Peer(s), f) /\ Peer(s) \in Sides
  BY TakenStep, SidesAre
<1>2. f.kind = "sealed" /\ f.seq = recvSeq[s]
  BY DEF Opens
<1>3. recvSeq[s] = Len(heard[s]) /\ recvSeq[s] \in Nat
  BY DEF IInv, Counts, Types
<1>4. said[Peer(s)] \in Seq(AllSenders)
  BY <1>1 DEF IInv, Types
<1>5. f.seq < Len(said[Peer(s)]) /\ f.msg = said[Peer(s)][f.seq + 1]
  BY <1>1, <1>2 DEF Good
<1>6. said[Peer(s)][f.seq + 1] \in AllSenders
  <2>1. Len(said[Peer(s)]) \in Nat /\ \A i \in 1 .. Len(said[Peer(s)]) : said[Peer(s)][i] \in AllSenders
    BY <1>4, LenProperties
  <2>2. f.seq + 1 \in 1 .. Len(said[Peer(s)])
    BY <1>2, <1>3, <1>5, <2>1
  <2> QED
    BY <2>1, <2>2
<1> HIDE DEF f
<1>7. /\ Len(heard[s]) \in Nat /\ Len(heard[s]) < Len(said[Peer(s)])
      /\ f.msg = said[Peer(s)][Len(heard[s]) + 1] /\ f.msg \in AllSenders
  BY <1>2, <1>3, <1>5, <1>6
<1> QED
  BY <1>7 DEF f

LEMMA ReceiveStep ==
  ASSUME IInv, NEW s \in Sides, Receive(s)
  PROVE  IInv'
<1> DEFINE f == Front(s)[1]
<1>1. /\ stage[s] = "ready" /\ Taken(s)
      /\ UNCHANGED <<sending, stream, sendSeq, said, dropped>>
      /\ \/ /\ Opens(s, f) /\ heard' = [heard EXCEPT ![s] = Append(@, f.msg)]
            /\ recvSeq' = [recvSeq EXCEPT ![s] = @ + 1] /\ stage' = stage
         \/ stage' = [stage EXCEPT ![s] = "broken"] /\ UNCHANGED <<recvSeq, heard>>
  BY DEF Receive, writing
<1>2. /\ taken' \in [Sides -> Nat] /\ \A r \in Sides : taken'[r] <= arrived[r]
      /\ UNCHANGED <<secret, cut, arrived>>
  BY <1>1, TakenStep
<1>3. Types /\ Counts
  BY DEF IInv
<1>4. /\ stage' \in [Sides -> Stages]
      /\ \A r \in Sides : /\ stage'[r] \in Ready <=> stage[r] \in Ready
                          /\ stage'[r] = "start" => stage[r] = "start"
  <2>1. CASE stage' = stage
    BY <2>1, <1>3 DEF Types
  <2>2. CASE stage' = [stage EXCEPT ![s] = "broken"]
    <3>1. "broken" \in Stages /\ "broken" \in Ready /\ "ready" \in Ready
      BY DEF Stages, Over, Ready
    <3> QED
      BY <1>1, <1>3, <2>2, <3>1, Moved
  <2> QED
    BY <1>1, <2>1, <2>2
<1>5. /\ heard' \in [Sides -> Seq(AllSenders)] /\ recvSeq' \in [Sides -> Nat]
      /\ \A r \in Sides : recvSeq'[r] = Len(heard'[r])
  <2>1. CASE UNCHANGED <<recvSeq, heard>>
    BY <2>1, <1>3 DEF Types, Counts
  <2>2. CASE /\ Opens(s, f) /\ heard' = [heard EXCEPT ![s] = Append(@, f.msg)]
             /\ recvSeq' = [recvSeq EXCEPT ![s] = @ + 1]
    <3>1. f.msg \in AllSenders
      BY <1>1, <2>2, OpensNext
    <3> DEFINE q == Append(heard[s], f.msg)  n == recvSeq[s] + 1
    <3>2. q \in Seq(AllSenders) /\ n \in Nat /\ n = Len(q)
      BY <1>3, <3>1, AppendProperties DEF Types, Counts
    <3>3. heard' = [heard EXCEPT ![s] = q] /\ recvSeq' = [recvSeq EXCEPT ![s] = n]
      BY <2>2
    <3> HIDE DEF q, n
    <3> QED
      BY <1>3, <3>2, <3>3 DEF Types, Counts
  <2> QED
    BY <1>1, <2>1, <2>2
<1>6. Types'
  BY <1>1, <1>2, <1>3, <1>4, <1>5 DEF Types
<1>7. Counts'
  BY <1>1, <1>2, <1>3, <1>5 DEF Counts, In
<1>8. Writers' /\ Honest' /\ Shared'
  BY <1>1, <1>2, <1>4, QuietStep
<1> QED
  BY <1>6, <1>7, <1>8 DEF IInv

LEMMA HelloStep ==
  ASSUME IInv, Hello
  PROVE  IInv'
<1>1. /\ stage["client"] = "start"
      /\ UNCHANGED <<secret, cut, arrived, taken, recvSeq, heard, stream, sendSeq, said, dropped>>
      /\ \/ Moves("client", "failed") /\ UNCHANGED sending
         \/ Moves("client", "hello") /\ Begins("client", "hello")
  BY DEF Hello, reading
<1>2. Types /\ Counts /\ Writers /\ Honest /\ Shared /\ "client" \in Sides
  BY SidesAre DEF IInv
<1>3. CASE Moves("client", "failed") /\ UNCHANGED sending
  <2>1. "failed" \in Over /\ "failed" \notin Ready /\ "start" \notin Ready
    BY DEF Over, Ready
  <2> QED
    BY <1>1, <1>2, <1>3, <2>1, OverStep DEF Moves, reading, writing
<1>4. CASE Moves("client", "hello") /\ Begins("client", "hello")
  <2> DEFINE f == Plain("hello", secret["client"])
  <2>1. /\ f \in Frames /\ f.kind = "hello" /\ f.secret = secret["client"]
        /\ Begin("client", Receiver["client"], f)
    BY <1>2, <1>4, PlainIs DEF Begins, Types, Kinds
  <2>2. /\ "hello" \in Stages /\ "hello" \notin Ready /\ "start" \notin Ready
        /\ Receiver["client"] \in Senders["client"]
    BY <1>2, ChannelAssumption DEF Stages, Ready
  <2>3. stage' \in [Sides -> Stages]
        /\ \A r \in Sides : stage'[r] = IF r = "client" THEN "hello" ELSE stage[r]
    BY <1>2, <1>4, <2>2, Moved DEF Moves
  <2> HIDE DEF f
  <2>4. Free("client")
    BY <1>1, <1>2 DEF Writers
  <2>5. Writers'
    BY <1>1, <1>2, <2>1, <2>2, <2>3, <2>4, WritersBegin
  <2>6. Kept
    BY <1>1, <2>2, <2>3 DEF Kept
  <2>7. Good("client", f)
    BY <2>1 DEF Good
  <2>8. Honest'
    BY <1>1, <1>2, <2>1, <2>2, <2>6, <2>7, HonestBegin
  <2>9. DOMAIN sending' = Sides /\ \A r \in Sides : sending'[r] \in [Senders[r] -> Jobs]
    BY <1>2, <2>1, <2>2, Begun
  <2>10. Types' /\ Counts'
    BY <1>1, <1>2, <2>3, <2>9 DEF Types, Counts, In
  <2>11. Shared'
    BY <1>1, <1>2, <2>2, <2>3, SidesAre DEF Shared
  <2> QED
    BY <2>5, <2>8, <2>10, <2>11 DEF IInv
<1> QED
  BY <1>1, <1>3, <1>4

(* A step of the handshake that begins a frame. *)
LEMMA Answers ==
  ASSUME IInv, NEW s \in Sides, Taken(s), NEW x \in Stages, NEW kind \in {"challenge", "proof"},
         Moves(s, x), Begins(s, kind), UNCHANGED <<recvSeq, heard, stream, sendSeq, said, dropped>>,
         stage[s] \notin Ready, x # "start",
         s = "server" /\ kind = "proof" => x \in Ready,
         Shared'
  PROVE  IInv'
<1>1. Types /\ Counts /\ Writers /\ Honest
  BY DEF IInv
<1>2. /\ taken' \in [Sides -> Nat] /\ \A r \in Sides : taken'[r] <= arrived[r]
      /\ UNCHANGED <<secret, cut, arrived>> /\ ~Writes(s, Receiver[s])
  BY TakenStep
<1>3. PICK f \in Frames : f.kind = kind /\ f.secret = secret[s] /\ Begin(s, Receiver[s], f)
  <2>1. secret[s] \in AllSecrets /\ kind \in Kinds
    BY <1>1 DEF Types, Kinds
  <2> QED
    BY <2>1, PlainIs DEF Begins
<1>4. PICK t \in Senders[s] : t = Receiver[s] /\ Begin(s, t, f)
  BY <1>3, ChannelAssumption
<1>5. stage' \in [Sides -> Stages] /\ \A r \in Sides : stage'[r] = IF r = s THEN x ELSE stage[r]
  BY <1>1, Moved DEF Moves
<1>6. Free(s)
  BY <1>1, <1>2 DEF Writers, Free
<1>7. \A r \in Sides : /\ stage'[r] # "start" \/ (r # s /\ stage[r] = "start")
                       /\ stage'[r] \in Ready \/ stage[r] \notin Ready
  BY <1>5
<1>8. Writers'
  <2>1. f.kind # "none"
    BY <1>3
  <2> QED
    BY <1>1, <1>4, <2>1, <1>6, <1>7, WritersBegin
<1>9. Kept
  BY <1>2, <1>7 DEF Kept
<1>10. Good(s, f)'
  BY <1>2, <1>3, <1>4, <1>5 DEF Good
<1>11. Honest'
  BY <1>1, <1>3, <1>4, <1>9, <1>10, HonestBegin
<1>12. DOMAIN sending' = Sides /\ \A r \in Sides : sending'[r] \in [Senders[r] -> Jobs]
  BY <1>1, <1>3, <1>4, Begun
<1>13. Types' /\ Counts'
  BY <1>1, <1>2, <1>5, <1>12 DEF Types, Counts, In
<1> QED
  BY <1>8, <1>11, <1>13 DEF IInv

(* A step of the handshake that begins none. *)
LEMMA Ends ==
  ASSUME IInv, NEW s \in Sides, Taken(s), NEW x \in Stages,
         Moves(s, x), UNCHANGED <<recvSeq, heard, writing>>,
         stage[s] \notin Ready, x # "start", Shared'
  PROVE  IInv'
<1>1. Types /\ Counts /\ Writers /\ Honest
  BY DEF IInv
<1>2. /\ taken' \in [Sides -> Nat] /\ \A r \in Sides : taken'[r] <= arrived[r]
      /\ UNCHANGED <<secret, cut, arrived, recvSeq, heard, sending, stream, sendSeq, said, dropped>>
  BY TakenStep DEF writing
<1>3. stage' \in [Sides -> Stages] /\ \A r \in Sides : stage'[r] = IF r = s THEN x ELSE stage[r]
  BY <1>1, Moved DEF Moves
<1>4. Writers'
  <2>1. \A r \in Sides : /\ stage'[r] = "start" => stage[r] = "start"
                         /\ stage'[r] \notin Ready => stage[r] \notin Ready
    BY <1>3
  <2>2. ASSUME NEW r \in Sides
        PROVE  /\ \A u, v \in Senders[r] : Writes(r, u)' /\ Writes(r, v)' => u = v
               /\ stage'[r] = "start" => \A u \in Senders[r] : ~Writes(r, u)'
               /\ stage'[r] \notin Ready => \A u \in Senders[r] : Writes(r, u)' => u = Receiver[r]
    <3>1. \A u \in Senders[r] : Writes(r, u)' <=> Writes(r, u)
      BY <1>2 DEF Writes
    <3>2. /\ \A u, v \in Senders[r] : Writes(r, u) /\ Writes(r, v) => u = v
          /\ stage[r] = "start" => \A u \in Senders[r] : ~Writes(r, u)
          /\ stage[r] \notin Ready => \A u \in Senders[r] : Writes(r, u) => u = Receiver[r]
      BY <1>1 DEF Writers, Free
    <3> QED
      BY <2>1, <3>1, <3>2
  <2> QED
    BY <2>2 DEF Writers, Free
<1>5. Kept
  BY <1>2, <1>3 DEF Kept
<1>6. Honest'
  BY <1>1, <1>2, <1>5, HonestIdle
<1>7. Types' /\ Counts'
  BY <1>1, <1>2, <1>3 DEF Types, Counts, In
<1> QED
  BY <1>4, <1>6, <1>7 DEF IInv

LEMMA HandshakeStep ==
  ASSUME IInv, NEW s \in Sides, Handshake(s)
  PROVE  IInv'
<1> DEFINE f == Front(s)[1]
<1>1. Taken(s) /\ UNCHANGED <<secret, recvSeq, heard, stream, sendSeq, said, dropped>>
  BY DEF Handshake, Taken
<1>2. Types /\ Shared /\ f.secret = secret[Peer(s)] /\ Good(Peer(s), f)
  BY <1>1, TakenStep DEF IInv, Good
<1>3. /\ "hello" \notin Ready /\ "proof" \notin Ready /\ "failed" \notin Ready /\ "ready" \in Ready
      /\ {"proof", "ready", "failed"} \subseteq Stages
  BY DEF Ready, Stages, Over
<1>4. ASSUME NEW x \in Stages, Moves(s, x), stage[s] \notin Ready, x \notin Ready
      PROVE  Shared'
  <2>1. \A r \in Sides : stage'[r] = IF r = s THEN x ELSE stage[r]
    BY <1>2, <1>4, Moved DEF Moves
  <2> QED
    BY <1>1, <1>2, <1>4, <2>1, SidesAre DEF Shared
<1>5. CASE s = "server" /\ stage[s] = "hello" /\ Moves(s, "proof") /\ Begins(s, "challenge")
  BY <1>1, <1>3, <1>4, <1>5, Answers
<1>6. CASE s = "client" /\ stage[s] = "hello" /\ Moves(s, "proof") /\ Begins(s, "proof")
  BY <1>1, <1>3, <1>4, <1>6, Answers
<1>7. CASE stage[s] = "proof" /\ Moves(s, "failed") /\ UNCHANGED sending
  BY <1>1, <1>3, <1>4, <1>7, Ends DEF writing
<1>8. CASE s = "server" /\ stage[s] = "proof" /\ Proves(s, "proof") /\ Moves(s, "ready")
           /\ Begins(s, "proof")
  <2>1. secret[Peer(s)] = secret[s]
    BY <1>2, <1>8 DEF Proves
  <2>2. secret["client"] = secret["server"]
    BY <1>8, <2>1 DEF Peer
  <2>3. \A r \in Sides : stage'[r] = IF r = s THEN "ready" ELSE stage[r]
    BY <1>2, <1>3, <1>8, Moved DEF Moves
  <2>4. Shared'
    BY <1>1, <1>3, <1>8, <2>2, <2>3, SidesAre DEF Shared
  <2> QED
    BY <1>1, <1>3, <1>8, <2>4, Answers
<1>9. CASE s = "client" /\ stage[s] = "proof" /\ Proves(s, "proof") /\ Moves(s, "ready")
           /\ UNCHANGED sending
  <2>1. secret[Peer(s)] = secret[s] /\ f.kind = "proof" /\ Peer(s) = "server"
    BY <1>2, <1>9 DEF Proves, Peer
  <2>2. secret["client"] = secret["server"] /\ stage["server"] \in Ready
    BY <1>2, <1>9, <2>1 DEF Good
  <2>3. \A r \in Sides : stage'[r] = IF r = s THEN "ready" ELSE stage[r]
    BY <1>2, <1>3, <1>9, Moved DEF Moves
  <2>4. Shared'
    BY <1>1, <1>3, <1>9, <2>2, <2>3, SidesAre DEF Shared
  <2> QED
    BY <1>1, <1>3, <1>9, <2>4, Ends DEF writing
<1> QED
  BY <1>5, <1>6, <1>7, <1>8, <1>9 DEF Handshake

LEMMA SendStep ==
  ASSUME IInv, NEW s \in Sides, NEW t \in Senders[s], NEW size \in Sizes, Send(s, t, size)
  PROVE  IInv'
<1>1. /\ stage[s] = "ready" \/ stage[s] \in Over \ {"failed"}
      /\ Free(s)
      /\ Begin(s, t, Frame("sealed", secret[s], sendSeq[s], t, size))
      /\ sendSeq' = [sendSeq EXCEPT ![s] = @ + 1]
      /\ said' = [said EXCEPT ![s] = Append(@, t)]
      /\ UNCHANGED <<secret, stage, cut, arrived, taken, recvSeq, heard, stream, dropped>>
  BY DEF Send, reading
<1>2. Types /\ Counts /\ Writers /\ Honest /\ Shared
  BY DEF IInv
<1>3. stage[s] \in Ready /\ stage[s] # "start"
  BY <1>1 DEF Ready, Over
<1>4. PICK f \in Frames : /\ f.kind = "sealed" /\ f.secret = secret[s] /\ f.seq = sendSeq[s]
                          /\ f.msg = t /\ Begin(s, t, f)
  <2>1. /\ secret[s] \in AllSecrets /\ sendSeq[s] \in Nat /\ size \in Nat
        /\ t \in AllSenders \cup {Nobody} /\ "sealed" \in Kinds
    BY <1>2, SidesAre, ChannelAssumption DEF Types, AllSenders, Kinds
  <2>2. Frame("sealed", secret[s], sendSeq[s], t, size) \in Frames
    BY <2>1 DEF Frame, Frames
  <2> QED
    BY <1>1, <2>2 DEF Frame
<1>5. t \in AllSenders
  BY SidesAre DEF AllSenders
<1>6. /\ said' \in [Sides -> Seq(AllSenders)] /\ sendSeq' \in [Sides -> Nat]
      /\ \A r \in Sides : sendSeq'[r] = Len(said'[r])
      /\ \A r \in Sides : said'[r] = IF r = s THEN Append(said[s], t) ELSE said[r]
  <2> DEFINE q == Append(said[s], t)  n == sendSeq[s] + 1
  <2>1. q \in Seq(AllSenders) /\ n \in Nat /\ n = Len(q)
    BY <1>2, <1>5, AppendProperties DEF Types, Counts
  <2>2. said' = [said EXCEPT ![s] = q] /\ sendSeq' = [sendSeq EXCEPT ![s] = n]
    BY <1>1
  <2> HIDE DEF q, n
  <2>3. /\ said' \in [Sides -> Seq(AllSenders)] /\ sendSeq' \in [Sides -> Nat]
        /\ \A r \in Sides : sendSeq'[r] = Len(said'[r])
        /\ \A r \in Sides : said'[r] = IF r = s THEN q ELSE said[r]
    BY <1>2, <2>1, <2>2 DEF Types, Counts
  <2> QED
    BY <2>3 DEF q
<1>7. Kept
  BY <1>1, <1>5, <1>6 DEF Kept
<1>8. Good(s, f)'
  <2>1. said[s] \in Seq(AllSenders) /\ f.seq = Len(said[s]) /\ said'[s] = Append(said[s], t)
    BY <1>2, <1>4, <1>6 DEF Types, Counts
  <2>2. f.seq < Len(said'[s]) /\ said'[s][f.seq + 1] = t
    BY <1>5, <2>1, AppendProperties
  <2> QED
    BY <1>1, <1>4, <2>2 DEF Good
<1>9. Honest'
  BY <1>1, <1>2, <1>4, <1>7, <1>8, HonestBegin
<1>10. \A r \in Sides : /\ stage'[r] # "start" \/ (r # s /\ stage[r] = "start")
                        /\ stage'[r] \in Ready \/ stage[r] \notin Ready
  BY <1>1, <1>3
<1>11. Writers'
  <2>1. f.kind # "none" /\ stage'[s] \in Ready
    BY <1>1, <1>3, <1>4
  <2> QED
    BY <1>1, <1>2, <1>4, <1>10, <2>1, WritersBegin
<1>12. DOMAIN sending' = Sides /\ \A r \in Sides : sending'[r] \in [Senders[r] -> Jobs]
  BY <1>2, <1>4, Begun
<1>13. Types' /\ Counts'
  BY <1>1, <1>2, <1>6, <1>12 DEF Types, Counts, In
<1>14. Shared'
  BY <1>1, <1>2 DEF Shared
<1> QED
  BY <1>9, <1>11, <1>13, <1>14 DEF IInv

(* A thread goes on with its frame, or is done with it. *)
LEMMA Goes ==
  ASSUME Types, Writers, NEW s \in Sides, NEW t \in Senders[s], Writes(s, t), NEW j \in Jobs,
         j = Silent \/ j.frame = sending[s][t].frame, sending' = [sending EXCEPT ![s][t] = j],
         \A r \in Sides : /\ stage'[r] = "start" => stage[r] = "start"
                          /\ stage'[r] \notin Ready => stage[r] \notin Ready
  PROVE  /\ DOMAIN sending' = Sides /\ \A r \in Sides : sending'[r] \in [Senders[r] -> Jobs]
         /\ Writers'
         /\ \A r \in Sides : \A u \in Senders[r] :
              sending'[r][u] # Silent => /\ sending[r][u] # Silent
                                         /\ sending'[r][u].frame = sending[r][u].frame
<1>1. /\ DOMAIN sending' = Sides /\ \A r \in Sides : sending'[r] \in [Senders[r] -> Jobs]
      /\ \A r \in Sides : \A u \in Senders[r] :
           sending'[r][u] = IF r = s /\ u = t THEN j ELSE sending[r][u]
  <2> HIDE DEF Jobs
  <2> QED
    BY DEF Types
<1>2. \A r \in Sides : \A u \in Senders[r] :
        sending'[r][u] # Silent => /\ sending[r][u] # Silent
                                   /\ sending'[r][u].frame = sending[r][u].frame
  BY <1>1 DEF Writes
<1>3. ASSUME NEW r \in Sides
      PROVE  /\ \A u, v \in Senders[r] : Writes(r, u)' /\ Writes(r, v)' => u = v
             /\ stage'[r] = "start" => \A u \in Senders[r] : ~Writes(r, u)'
             /\ stage'[r] \notin Ready => \A u \in Senders[r] : Writes(r, u)' => u = Receiver[r]
  <2>1. \A u \in Senders[r] : Writes(r, u)' => Writes(r, u)
    BY <1>2 DEF Writes
  <2> QED
    BY <2>1 DEF Writers, Free
<1> QED
  BY <1>1, <1>2, <1>3 DEF Writers, Free

LEMMA WriteStep ==
  ASSUME IInv, NEW s \in Sides, NEW t \in Senders[s], NEW n \in 1 .. MaxFrame + 1, Write(s, t, n)
  PROVE  IInv'
<1> DEFINE w == sending[s][t]
           more == [i \in 1 .. n |-> <<w.frame, w.done + i - 1>>]
           j == IF w.done + n = w.frame.size + 1 THEN Silent ELSE [w EXCEPT !.done = @ + n]
<1>1. /\ Writes(s, t) /\ stream' = [stream EXCEPT ![s] = @ \o more]
      /\ sending' = [sending EXCEPT ![s][t] = j]
      /\ UNCHANGED <<secret, stage, cut, arrived, taken, recvSeq, heard, sendSeq, said, dropped>>
  <2>1. /\ Writes(s, t) /\ stream' = [stream EXCEPT ![s] = @ \o more]
        /\ UNCHANGED <<secret, stage, cut, reading, sendSeq, said, dropped>>
    BY DEF Write
  <2>2. sending' = [sending EXCEPT ![s][t] = j]
    BY DEF Write
  <2> QED
    BY <2>1, <2>2 DEF reading
<1>2. Types /\ Counts /\ Writers /\ Honest /\ Shared /\ n \in Nat
  BY ChannelAssumption DEF IInv
<1>3. w \in Jobs /\ w.frame \in Frames /\ w.done \in Nat /\ Good(s, w.frame)
  BY <1>1, <1>2, FramesKnown DEF Honest
<1>4. j \in Jobs /\ (j = Silent \/ j.frame = w.frame)
  <2>1. n \in Nat /\ w \in [frame : Frames, done : Nat]
    BY <1>2, <1>3 DEF Jobs
  <2>2. [w EXCEPT !.done = @ + n] \in Jobs /\ [w EXCEPT !.done = @ + n].frame = w.frame
    BY <2>1 DEF Jobs
  <2> QED
    BY <2>2, SilentIs
<1>5. more \in Seq(Units) /\ Len(more) = n /\ \A i \in 1 .. n : more[i][1] = w.frame
  <2>1. \A i \in 1 .. n : <<w.frame, w.done + i - 1>> \in Units
    BY <1>2, <1>3 DEF Units
  <2> QED
    BY <1>2, <2>1
<1>6. w = sending[s][t]
  OBVIOUS
<1> HIDE DEF w, more, j
<1> DEFINE all == stream[s] \o more
<1>7. /\ all \in Seq(Units) /\ Len(all) \in Nat /\ Len(stream[s]) <= Len(all)
      /\ \A i \in 1 .. Len(all) : \E f \in Frames : f = all[i][1] /\ Good(s, f)
  <2>1. /\ stream[s] \in Seq(Units) /\ Len(stream[s]) \in Nat
        /\ \A i \in 1 .. Len(stream[s]) : stream[s][i][1] \in Frames
    BY <1>2, FramesKnown
  <2>2. /\ all \in Seq(Units) /\ Len(all) = Len(stream[s]) + n
        /\ \A i \in 1 .. Len(stream[s]) + n :
             all[i] = IF i <= Len(stream[s]) THEN stream[s][i] ELSE more[i - Len(stream[s])]
    BY <1>5, <2>1, ConcatProperties
  <2>3. ASSUME NEW i \in 1 .. Len(all)
        PROVE  \E f \in Frames : f = all[i][1] /\ Good(s, f)
    <3>1. CASE i <= Len(stream[s])
      <4>1. i \in 1 .. Len(stream[s]) /\ all[i] = stream[s][i]
        BY <1>2, <2>1, <2>2, <3>1
      <4> QED
        BY <1>2, <2>1, <4>1 DEF Honest
    <3>2. CASE ~(i <= Len(stream[s]))
      <4>1. i - Len(stream[s]) \in 1 .. n /\ all[i] = more[i - Len(stream[s])]
        BY <1>2, <2>1, <2>2, <3>2
      <4> QED
        BY <1>3, <1>5, <4>1
    <3> QED
      BY <3>1, <3>2
  <2> QED
    BY <1>2, <2>1, <2>2, <2>3
<1> HIDE DEF all
<1>8. /\ stream' \in [Sides -> Seq(Units)]
      /\ \A r \in Sides : stream'[r] = IF r = s THEN all ELSE stream[r]
  <2>1. stream' = [stream EXCEPT ![s] = all] /\ stream \in [Sides -> Seq(Units)]
    BY <1>1, <1>2 DEF all, Types
  <2> QED
    BY <1>7, <2>1
<1>9. /\ DOMAIN sending' = Sides /\ \A r \in Sides : sending'[r] \in [Senders[r] -> Jobs]
      /\ Writers'
      /\ \A r \in Sides : \A u \in Senders[r] :
           sending'[r][u] # Silent => /\ sending[r][u] # Silent
                                      /\ sending'[r][u].frame = sending[r][u].frame
  BY <1>1, <1>2, <1>4, <1>6, Goes
<1>10. Honest'
  <2>1. Kept
    BY <1>1 DEF Kept
  <2>2. ASSUME NEW r \in Sides, NEW i \in 1 .. Len(stream'[r])
        PROVE  \E f \in Frames : f = stream'[r][i][1] /\ Good(r, f)
    BY <1>2, <1>7, <1>8, FramesKnown DEF Honest
  <2>3. ASSUME NEW r \in Sides, NEW u \in Senders[r], sending'[r][u] # Silent
        PROVE  \E f \in Frames : f = sending'[r][u].frame /\ (Good(r, f) \/ Good(r, f)')
    BY <1>2, <1>9, <2>3, FramesKnown DEF Honest, Writes
  <2> QED
    BY <1>2, <2>1, <2>2, <2>3, HonestStep
<1>11. Types'
  BY <1>1, <1>2, <1>8, <1>9 DEF Types
<1>12. Counts'
  <2>1. \A r \in Sides : /\ Len(stream[r]) \in Nat /\ Len(stream'[r]) \in Nat
                         /\ Len(stream[r]) <= Len(stream'[r])
    BY <1>2, <1>7, <1>8, FramesKnown
  <2>2. ASSUME NEW r \in Sides
        PROVE  taken[r] <= arrived[r] /\ arrived[r] <= Len(stream'[Peer(r)])
    <3>1. taken[r] <= arrived[r] /\ arrived[r] <= Len(stream[Peer(r)]) /\ arrived[r] \in Nat
      BY <1>2 DEF Counts, In, Types
    <3> QED
      BY <2>1, <3>1, SidesAre
  <2> QED
    BY <1>1, <1>2, <2>2 DEF Counts, In
<1>13. Shared'
  BY <1>1, <1>2 DEF Shared
<1> QED
  BY <1>9, <1>10, <1>11, <1>12, <1>13 DEF IInv

LEMMA SendFailsStep ==
  ASSUME IInv, NEW s \in Sides, NEW t \in Senders[s], SendFails(s, t)
  PROVE  IInv'
<1>1. /\ Writes(s, t) /\ sending' = [sending EXCEPT ![s][t] = Silent]
      /\ cut' \in {cut, TRUE} /\ dropped' = [dropped EXCEPT ![s] = TRUE]
      /\ stage' = IF s = "client" /\ stage[s] = "ready" THEN [stage EXCEPT ![s] = "lost"] ELSE stage
      /\ UNCHANGED <<secret, arrived, taken, recvSeq, heard, stream, sendSeq, said>>
  BY DEF SendFails, reading
<1>2. Types /\ Counts /\ Writers /\ Honest /\ Shared
  BY DEF IInv
<1>3. /\ stage' \in [Sides -> Stages]
      /\ \A r \in Sides : (stage'[r] \in Ready <=> stage[r] \in Ready)
      /\ \A r \in Sides : (stage'[r] = "start" => stage[r] = "start")
  <2>1. CASE s = "client" /\ stage[s] = "ready"
    <3>1. "lost" \in Stages /\ "lost" \in Ready /\ "ready" \in Ready /\ "lost" # "start"
      BY DEF Stages, Over, Ready
    <3>2. /\ stage' \in [Sides -> Stages]
          /\ \A r \in Sides : stage'[r] = IF r = s THEN "lost" ELSE stage[r]
      BY <1>1, <1>2, <2>1, <3>1, Moved
    <3> QED
      BY <2>1, <3>1, <3>2
  <2>2. CASE stage' = stage
    BY <1>2, <2>2 DEF Types
  <2> QED
    BY <1>1, <2>1, <2>2
<1>4. /\ DOMAIN sending' = Sides /\ \A r \in Sides : sending'[r] \in [Senders[r] -> Jobs]
      /\ Writers'
      /\ \A r \in Sides : \A u \in Senders[r] :
           sending'[r][u] # Silent => /\ sending[r][u] # Silent
                                      /\ sending'[r][u].frame = sending[r][u].frame
  <2>1. \A r \in Sides : /\ stage'[r] = "start" => stage[r] = "start"
                         /\ stage'[r] \notin Ready => stage[r] \notin Ready
    BY <1>3
  <2> QED
    BY <1>1, <1>2, <2>1, SilentIs, Goes
<1>5. Kept
  BY <1>1, <1>3 DEF Kept
<1>6. Honest'
  <2>1. ASSUME NEW r \in Sides, NEW i \in 1 .. Len(stream'[r])
        PROVE  \E f \in Frames : f = stream'[r][i][1] /\ Good(r, f)
    BY <1>1, <1>2, FramesKnown DEF Honest
  <2>2. ASSUME NEW r \in Sides, NEW u \in Senders[r], sending'[r][u] # Silent
        PROVE  \E f \in Frames : f = sending'[r][u].frame /\ (Good(r, f) \/ Good(r, f)')
    BY <1>2, <1>4, <2>2, FramesKnown DEF Honest, Writes
  <2> QED
    BY <1>2, <1>5, <2>1, <2>2, HonestStep
<1>7. Types'
  <2>1. cut' \in BOOLEAN /\ dropped' \in [Sides -> BOOLEAN]
    BY <1>1, <1>2 DEF Types
  <2> QED
    BY <1>1, <1>2, <1>3, <1>4, <2>1 DEF Types
<1>8. Counts'
  BY <1>1, <1>2 DEF Counts, In
<1>9. Shared'
  BY <1>1, <1>2, <1>3, SidesAre DEF Shared
<1> QED
  BY <1>4, <1>6, <1>7, <1>8, <1>9 DEF IInv

-----------------------------------------------------------------------------
(* The invariant holds.                                                    *)

LEMMA Initially == Init => IInv
<1> SUFFICES ASSUME Init
             PROVE  IInv
  OBVIOUS
<1>1. /\ secret \in [Sides -> AllSecrets] /\ cut = FALSE
      /\ stage = [s \in Sides |-> IF s = "client" THEN "start" ELSE "hello"]
      /\ sending = [s \in Sides |-> [t \in Senders[s] |-> Silent]]
      /\ stream = [s \in Sides |-> <<>>] /\ said = [s \in Sides |-> <<>>]
      /\ heard = [s \in Sides |-> <<>>] /\ dropped = [s \in Sides |-> FALSE]
      /\ arrived = [s \in Sides |-> 0] /\ taken = [s \in Sides |-> 0]
      /\ sendSeq = [s \in Sides |-> 0] /\ recvSeq = [s \in Sides |-> 0]
  BY DEF Init
<1>2. \A s \in Sides : stage[s] \in {"start", "hello"}
  BY <1>1
<1>3. \A s \in Sides : stage[s] \notin Ready /\ stage[s] \in Stages
  BY <1>2 DEF Ready, Stages
<1>4. \A s \in Sides : \A t \in Senders[s] : sending[s][t] = Silent
  BY <1>1
<1>5. \A s \in Sides : stream[s] = <<>> /\ said[s] = <<>> /\ heard[s] = <<>>
  BY <1>1
<1>6. Types
  <2>1. /\ stage \in [Sides -> Stages]
        /\ DOMAIN sending = Sides /\ \A s \in Sides : sending[s] \in [Senders[s] -> Jobs]
    BY <1>1, <1>3, SilentIs
  <2>2. \A S : <<>> \in Seq(S)
    OBVIOUS
  <2>3. /\ stream \in [Sides -> Seq(Units)]
        /\ said \in [Sides -> Seq(AllSenders)] /\ heard \in [Sides -> Seq(AllSenders)]
    BY <1>1, <2>2
  <2> QED
    BY <1>1, <2>1, <2>3 DEF Types
<1>7. Counts
  <2>1. \A s \in Sides : Len(stream[Peer(s)]) = 0 /\ Len(said[s]) = 0 /\ Len(heard[s]) = 0
    BY <1>5, SidesAre
  <2> QED
    BY <1>1, <2>1 DEF Counts, In
<1>8. Writers
  BY <1>4 DEF Writers, Free, Writes
<1>9. Honest
  <2>1. \A s \in Sides : Len(stream[s]) = 0
    BY <1>5
  <2> QED
    BY <1>4, <2>1 DEF Honest, Writes
<1>10. Shared
  BY <1>3, SidesAre DEF Shared
<1> QED
  BY <1>6, <1>7, <1>8, <1>9, <1>10 DEF IInv

LEMMA Inductive == IInv /\ [Next]_vars => IInv'
<1> SUFFICES ASSUME IInv, [Next]_vars
             PROVE  IInv'
  OBVIOUS
<1>1. CASE Cut
  BY <1>1, CutStep
<1>2. CASE Hello
  BY <1>2, HelloStep
<1>3. ASSUME NEW s \in Sides, NEW n \in 1 .. Chunk, Recv(s, n)
      PROVE  IInv'
  BY <1>3, RecvStep
<1>4. ASSUME NEW s \in Sides, EndOfStream(s)
      PROVE  IInv'
  <2> DEFINE x == IF stage[s] = "ready" THEN "lost" ELSE "failed"
  <2>1. /\ stage' = [stage EXCEPT ![s] = x] /\ UNCHANGED <<secret, cut, reading, writing>>
        /\ stage[s] \in {"hello", "proof", "ready"}
    BY <1>4 DEF EndOfStream, Waits
  <2>2. x \in Over /\ (x \in Ready <=> stage[s] \in Ready)
    BY <2>1 DEF Over, Ready
  <2> HIDE DEF x
  <2> QED
    BY <2>1, <2>2, OverStep
<1>5. ASSUME NEW s \in Sides, Receive(s)
      PROVE  IInv'
  BY <1>5, ReceiveStep
<1>6. ASSUME NEW s \in Sides, Close(s)
      PROVE  IInv'
  <2>1. "closed" \in Over /\ "closed" \in Ready /\ "ready" \in Ready
    BY DEF Over, Ready
  <2> QED
    BY <1>6, <2>1, OverStep DEF Close
<1>7. ASSUME NEW s \in Sides, Handshake(s)
      PROVE  IInv'
  BY <1>7, HandshakeStep
<1>8. ASSUME NEW s \in Sides, TimedOut(s)
      PROVE  IInv'
  <2>1. /\ "failed" \in Over /\ "failed" \notin Ready
        /\ "hello" \notin Ready /\ "proof" \notin Ready
    BY DEF Over, Ready
  <2>2. stage[s] \notin Ready
    BY <1>8, <2>1 DEF TimedOut
  <2> QED
    BY <1>8, <2>1, <2>2, OverStep DEF TimedOut, Moves
<1>9. ASSUME NEW s \in Sides, NEW t \in Senders[s], NEW size \in Sizes, Send(s, t, size)
      PROVE  IInv'
  BY <1>9, SendStep
<1>10. ASSUME NEW s \in Sides, NEW t \in Senders[s], NEW n \in 1 .. MaxFrame + 1, Write(s, t, n)
       PROVE  IInv'
  BY <1>10, WriteStep
<1>11. ASSUME NEW s \in Sides, NEW t \in Senders[s], SendFails(s, t)
       PROVE  IInv'
  BY <1>11, SendFailsStep
<1>12. CASE UNCHANGED vars
  <2>1. UNCHANGED <<secret, stage, cut, arrived, taken, recvSeq, heard, sending, stream, sendSeq, said,
                    dropped>>
    BY <1>12 DEF vars, reading, writing
  <2>2. Types' /\ Counts'
    BY <2>1 DEF IInv, Types, Counts, In
  <2> QED
    BY <2>1, <2>2, QuietStep DEF IInv
<1> QED
  BY <1>1, <1>2, <1>3, <1>4, <1>5, <1>6, <1>7, <1>8, <1>9, <1>10, <1>11, <1>12 DEF Next

LEMMA Invariant == Spec => []IInv
<1>1. IInv /\ [Next]_vars => IInv'
  BY Inductive
<1>2. Init => IInv
  BY Initially
<1> QED
  BY <1>1, <1>2, PTL DEF Spec

(* Every variable stays in its range, the counters agree with each other,  *)
(* and sendMutex_ keeps the frames of two threads apart.                   *)
THEOREM TypeCorrect == Spec => []TypeOK
<1>1. ASSUME IInv
      PROVE  TypeOK
  <2>1. Types /\ Counts /\ Writers
    BY <1>1 DEF IInv
  <2>2. /\ secret \in [Sides -> AllSecrets] /\ cut \in BOOLEAN /\ dropped \in [Sides -> BOOLEAN]
        /\ stage \in [Sides -> {"start", "hello", "proof", "ready"} \cup Over]
    BY <2>1 DEF Types, Stages
  <2>3. ASSUME NEW s \in Sides
        PROVE  /\ \A t, u \in Senders[s] : Writes(s, t) /\ Writes(s, u) => t = u
               /\ taken[s] <= arrived[s] /\ arrived[s] <= Len(In(s))
               /\ sendSeq[s] = Len(said[s]) /\ recvSeq[s] = Len(heard[s])
    BY <2>1 DEF Counts, Writers
  <2> QED
    BY <2>2, <2>3 DEF TypeOK
<1> QED
  BY <1>1, Invariant, PTL

(* A side whose handshake has succeeded talks to a holder of its secret,   *)
(* and the agent's succeeds only after the controller's: nothing but the   *)
(* other's own proof is accepted (ClientHandshake, ServerHandshake).       *)
THEOREM AuthenticatedMutually == Spec => []MutuallyAuthenticated
<1>1. ASSUME IInv
      PROVE  MutuallyAuthenticated
  <2>1. Shared
    BY <1>1 DEF IInv
  <2>2. /\ "ready" \in Ready
        /\ "hello" \notin Ready /\ "proof" \notin Ready /\ "failed" \notin Ready
    BY DEF Ready
  <2>3. \A s \in Sides : stage[s] = "ready" => secret["client"] = secret["server"]
    BY <2>1, <2>2 DEF Shared
  <2>4. stage["client"] = "ready" => stage["server"] \notin {"hello", "proof", "failed"}
    BY <2>1, <2>2 DEF Shared
  <2> QED
    BY <2>3, <2>4 DEF MutuallyAuthenticated
<1> QED
  BY <1>1, Invariant, PTL

-----------------------------------------------------------------------------
(* The channel implements the ordered one.                                 *)

OverNow == [s \in Sides |-> stage[s] \in Over]

(* A side that is given up, or none. *)
LEMMA GivesUp ==
  ASSUME NEW s \in Sides, stage \in [Sides -> Stages], NEW x, stage' = [stage EXCEPT ![s] = x],
         stage[s] \notin Over, UNCHANGED <<secret, said, heard>>
  PROVE  Ordered!GiveUp(s) \/ UNCHANGED <<secret, said, heard, OverNow>>
<1>1. stage' = [r \in Sides |-> IF r = s THEN x ELSE stage[r]]
  BY DEF Stages
<1>2. CASE x \in Over
  <2>1. OverNow' = [OverNow EXCEPT ![s] = TRUE]
    BY <1>1, <1>2 DEF OverNow
  <2> QED
    BY <2>1 DEF Ordered!GiveUp, OverNow
<1>3. CASE x \notin Over
  <2>1. \A r \in Sides : stage'[r] \in Over <=> stage[r] \in Over
    BY <1>1, <1>3
  <2> QED
    BY <2>1 DEF OverNow
<1> QED
  BY <1>2, <1>3

LEMMA Implements ==
  ASSUME IInv, [Next]_vars
  PROVE  [Ordered!Next]_<<secret, said, heard, OverNow>>
<1> DEFINE Goal == [Ordered!Next]_<<secret, said, heard, OverNow>>
<1>1. Types /\ Counts /\ Shared /\ Ordered!Sides = Sides
  BY DEF IInv, Ordered!Sides, Sides
<1>2. \A s \in Sides : Ordered!Peer(s) = Peer(s)
  BY DEF Ordered!Peer, Peer
<1>3. {"start", "hello", "proof", "ready"} \cap Over = {}
  BY DEF Over
<1>4. ASSUME UNCHANGED <<secret, stage, said, heard>>
      PROVE  Goal
  BY <1>4 DEF OverNow
<1>5. ASSUME NEW s \in Sides, NEW x, stage' = [stage EXCEPT ![s] = x], stage[s] \notin Over,
             UNCHANGED <<secret, said, heard>>
      PROVE  Goal
  <2>1. stage \in [Sides -> Stages]
    BY <1>1 DEF Types
  <2>2. Ordered!GiveUp(s) \/ UNCHANGED <<secret, said, heard, OverNow>>
    BY <1>5, <2>1, GivesUp
  <2> QED
    BY <1>1, <2>2 DEF Ordered!Next
<1>6. CASE Cut
  BY <1>4, <1>6 DEF Cut, reading, writing
<1>7. CASE Hello
  <2>1. "client" \in Sides /\ stage["client"] \notin Over /\ UNCHANGED <<secret, said, heard>>
    BY <1>3, <1>7 DEF Hello, reading, Sides
  <2>2. PICK x \in {"failed", "hello"} : stage' = [stage EXCEPT !["client"] = x]
    BY <1>7 DEF Hello, Moves
  <2> QED
    BY <1>5, <2>1, <2>2
<1>8. ASSUME NEW s \in Sides, NEW n \in 1 .. Chunk, Recv(s, n)
      PROVE  Goal
  <2> DEFINE x == IF stage[s] = "ready" THEN "broken" ELSE "failed"
  <2>1. /\ stage[s] \notin Over /\ UNCHANGED <<secret, said, heard>>
        /\ stage' = [stage EXCEPT ![s] = x] \/ stage' = stage
    BY <1>3, <1>8 DEF Recv, Waits, writing
  <2> HIDE DEF x
  <2> QED
    BY <1>4, <1>5, <2>1
<1>9. ASSUME NEW s \in Sides, EndOfStream(s) \/ Close(s) \/ TimedOut(s)
      PROVE  Goal
  <2>1. stage[s] \notin Over /\ UNCHANGED <<secret, said, heard>>
    BY <1>3, <1>9 DEF EndOfStream, Close, TimedOut, Waits, reading, writing
  <2>2. PICK x : stage' = [stage EXCEPT ![s] = x]
    BY <1>9 DEF EndOfStream, Close, TimedOut, Moves
  <2> QED
    BY <1>5, <2>1, <2>2
<1>10. ASSUME NEW s \in Sides, Receive(s)
       PROVE  Goal
  <2>1. /\ stage[s] = "ready" /\ Taken(s) /\ UNCHANGED <<secret, said>>
        /\ \/ /\ Opens(s, Front(s)[1]) /\ heard' = [heard EXCEPT ![s] = Append(@, Front(s)[1].msg)]
              /\ stage' = stage
           \/ stage' = [stage EXCEPT ![s] = "broken"] /\ heard' = heard
    BY <1>10 DEF Receive, Taken, writing
  <2>2. CASE stage' = [stage EXCEPT ![s] = "broken"] /\ heard' = heard
    BY <1>3, <1>5, <2>1, <2>2
  <2>3. CASE /\ Opens(s, Front(s)[1]) /\ heard' = [heard EXCEPT ![s] = Append(@, Front(s)[1].msg)]
             /\ stage' = stage
    <3>1. /\ Len(heard[s]) < Len(said[Peer(s)])
          /\ Front(s)[1].msg = said[Peer(s)][Len(heard[s]) + 1]
      BY <2>1, <2>3, OpensNext
    <3>2. ~OverNow[s] /\ OverNow' = OverNow
      BY <1>3, <2>1, <2>3 DEF OverNow
    <3>3. heard' = [heard EXCEPT ![s] = Append(@, said[Ordered!Peer(s)][Len(@) + 1])]
      BY <1>2, <2>3, <3>1
    <3>4. Ordered!Hear(s)
      BY <1>2, <2>1, <3>1, <3>2, <3>3 DEF Ordered!Hear, OverNow
    <3> QED
      BY <1>1, <3>4 DEF Ordered!Next
  <2> QED
    BY <2>1, <2>2, <2>3
<1>11. ASSUME NEW s \in Sides, Handshake(s)
       PROVE  Goal
  <2>1. stage[s] \notin Over /\ UNCHANGED <<secret, said, heard>>
    BY <1>3, <1>11 DEF Handshake, Taken, Waits
  <2>2. PICK x : stage' = [stage EXCEPT ![s] = x]
    BY <1>11 DEF Handshake, Moves
  <2> QED
    BY <1>5, <2>1, <2>2
<1>12. ASSUME NEW s \in Sides, NEW t \in Senders[s], NEW size \in Sizes, Send(s, t, size)
       PROVE  Goal
  <2>1. /\ said' = [said EXCEPT ![s] = Append(@, t)] /\ UNCHANGED <<secret, stage, heard>>
        /\ stage[s] = "ready" \/ stage[s] \in Over \ {"failed"}
    BY <1>12 DEF Send, reading
  <2>2. stage[s] \in Ready
    BY <2>1 DEF Ready, Over
  <2>3. secret[s] = secret[Ordered!Peer(s)]
    BY <1>1, <1>2, <2>2 DEF Shared, Sides, Peer
  <2>4. t \in Senders["client"] \cup Senders["server"]
    BY SidesAre
  <2>5. OverNow' = OverNow
    BY <2>1 DEF OverNow
  <2>6. Ordered!Say(s, t)
    BY <2>1, <2>3, <2>5 DEF Ordered!Say, OverNow
  <2> QED
    BY <1>1, <2>4, <2>6 DEF Ordered!Next
<1>13. ASSUME NEW s \in Sides, NEW t \in Senders[s], NEW n \in 1 .. MaxFrame + 1, Write(s, t, n)
       PROVE  Goal
  BY <1>4, <1>13 DEF Write, reading
<1>14. ASSUME NEW s \in Sides, NEW t \in Senders[s], SendFails(s, t)
       PROVE  Goal
  <2>1. /\ UNCHANGED <<secret, said, heard>>
        /\ \/ stage[s] = "ready" /\ stage' = [stage EXCEPT ![s] = "lost"]
           \/ stage' = stage
    BY <1>14 DEF SendFails, reading
  <2> QED
    BY <1>3, <1>4, <1>5, <2>1
<1>15. CASE UNCHANGED vars
  BY <1>4, <1>15 DEF vars, reading, writing
<1> QED
  BY <1>6, <1>7, <1>8, <1>9, <1>10, <1>11, <1>12, <1>13, <1>14, <1>15 DEF Next

(* Each end hears what the other has said, in its order, without a gap and *)
(* nothing twice: the channel with its pieces, threads, buffers and        *)
(* numbers implements the ordered channel (Send, Receive).                 *)
THEOREM HeardInOrder == Spec => InOrder
<1>1. ASSUME Init
      PROVE  Ordered!Init
  <2>1. /\ secret \in [Sides -> AllSecrets] /\ said = [s \in Sides |-> <<>>]
        /\ heard = [s \in Sides |-> <<>>]
    BY <1>1 DEF Init
  <2>2. \A s \in Sides : stage[s] \in {"start", "hello"}
    BY <1>1 DEF Init
  <2>3. \A s \in Sides : (stage[s] \in Over) = FALSE
    BY <2>2 DEF Over
  <2>4. [s \in Sides |-> stage[s] \in Over] = [s \in Sides |-> FALSE]
    BY <2>3, Zenon
  <2>5. Ordered!Sides = Sides
    BY DEF Ordered!Sides, Sides
  <2> QED
    BY <2>1, <2>4, <2>5 DEF Ordered!Init
<1>2. IInv /\ [Next]_vars => [Ordered!Next]_<<secret, said, heard, OverNow>>
  BY Implements
<1> QED
  BY <1>1, <1>2, Invariant, PTL DEF Spec, InOrder, Ordered!Spec, OverNow

-----------------------------------------------------------------------------
(* Why a connection breaks.  As long as no frame of a side has been lost,  *)
(* its stream is a sequence of frames, one after the other, the last one   *)
(* perhaps unfinished; their numbers go up by one, those of the handshake  *)
(* counted too; and the reader stands at the beginning of the one it       *)
(* expects.                                                                *)

(* The place of a frame among those of its side. *)
Rank(f) == IF f.kind = "sealed" THEN f.seq + 2 ELSE IF f.kind = "proof" THEN 1 ELSE 0

(* The places of a side's next frame, and of the one it is writing or, if  *)
(* it writes none, writes next.                                            *)
NextRank(p) ==
  IF stage[p] \in Ready THEN sendSeq[p] + 2
  ELSE IF stage[p] = "proof" THEN (IF p = "client" THEN 2 ELSE 1)
  ELSE IF stage[p] = "hello" /\ p = "client" THEN 1 ELSE 0

Due(p) == IF Free(p) THEN NextRank(p) ELSE NextRank(p) - 1

(* The place of the frame a side reads next. *)
Expect(s) ==
  IF stage[s] = "ready" THEN recvSeq[s] + 2 ELSE IF stage[s] = "proof" THEN 1 ELSE 0

Early == \A s \in Sides : stage[s] \notin Ready => sendSeq[s] = 0 /\ recvSeq[s] = 0

(* Where frames begin; every one of them goes on for as long as its size   *)
(* says, and the next one follows.                                         *)
Starts(S) == {k \in 1 .. Len(S) : S[k][2] = 0}

Pieces(S) ==
  \A k \in Starts(S) : \A i \in 0 .. S[k][1].size : k + i <= Len(S) => S[k + i] = <<S[k][1], i>>

Numbered(S) ==
  \A k \in Starts(S) : k + S[k][1].size < Len(S) =>
    /\ k + S[k][1].size + 1 \in Starts(S)
    /\ Rank(S[k + S[k][1].size + 1][1]) = Rank(S[k][1]) + 1

(* A frame that is not out yet has a thread that is writing it. *)
Unfinished(p) ==
  \A k \in Starts(stream[p]) : k + stream[p][k][1].size > Len(stream[p]) =>
    \E t \in Senders[p] : /\ Writes(p, t) /\ sending[p][t].frame = stream[p][k][1]
                          /\ sending[p][t].done = Len(stream[p]) - k + 1

(* After the last one that is out the next one is due. *)
Finished(p) ==
  \A k \in Starts(stream[p]) :
    k + stream[p][k][1].size = Len(stream[p]) /\ stage[p] # "failed" =>
      Due(p) = Rank(stream[p][k][1]) + 1

(* What f's first d units have become of at the end of S. *)
InWork(S, f, d) ==
  d <= f.size /\ (d > 0 => d <= Len(S) /\ S[Len(S) - d + 1] = <<f, 0>>)

Writing(p) ==
  \A t \in Senders[p] : Writes(p, t) =>
    /\ InWork(stream[p], sending[p][t].frame, sending[p][t].done)
    /\ stage[p] # "failed" => Rank(sending[p][t].frame) = Due(p)

FlowAt(p) ==
  ~dropped[p] => /\ Pieces(stream[p]) /\ Numbered(stream[p])
                 /\ Unfinished(p) /\ Finished(p) /\ Writing(p)

ReaderAt(s) ==
  ~dropped[Peer(s)] /\ stage[s] \notin Over =>
    /\ taken[s] < Len(In(s)) => /\ taken[s] + 1 \in Starts(In(s))
                                /\ Rank(In(s)[taken[s] + 1][1]) = Expect(s)
    /\ taken[s] = Len(In(s)) => /\ \A t \in Senders[Peer(s)] : sending[Peer(s)][t].done = 0
                                /\ stage[Peer(s)] # "failed" => Due(Peer(s)) = Expect(s)

Flow == \A s \in Sides : FlowAt(s) /\ ReaderAt(s)

(* Behind the end of a whole frame nothing has begun. *)
LEMMA NothingBegun ==
  ASSUME NEW S \in Seq(Units), Pieces(S), NEW k \in Starts(S), S[k][1] \in Frames,
         k + S[k][1].size = Len(S), NEW f \in Frames, NEW d \in Nat, InWork(S, f, d)
  PROVE  d = 0
<1> SUFFICES ASSUME d > 0
             PROVE  FALSE
  OBVIOUS
<1>1. Len(S) \in Nat /\ S[k][1].size \in Nat /\ f.size \in Nat /\ k \in 1 .. Len(S)
  BY LenProperties DEF Frames, Starts
<1>2. d <= f.size /\ d <= Len(S) /\ S[Len(S) - d + 1] = <<f, 0>>
  BY DEF InWork
<1>3. Len(S) - d + 1 \in Starts(S)
  BY <1>1, <1>2 DEF Starts
<1>4. S[Len(S)] = <<S[k][1], S[k][1].size>>
  <2>1. S[k][1].size \in 0 .. S[k][1].size /\ k + S[k][1].size <= Len(S)
    BY <1>1
  <2> QED
    BY <2>1 DEF Pieces
<1>5. S[Len(S)] = <<f, d - 1>>
  <2> DEFINE b == Len(S) - d + 1
  <2>1. b \in Starts(S) /\ S[b][1] = f /\ d - 1 \in 0 .. f.size /\ b + (d - 1) = Len(S)
    BY <1>1, <1>2, <1>3
  <2> HIDE DEF b
  <2> QED
    BY <1>1, <2>1, Len(S) <= Len(S) DEF Pieces
<1>6. f = S[k][1] /\ d - 1 = S[k][1].size
  BY <1>4, <1>5
<1> QED
  BY <1>1, <1>2, <1>6

(* T is S and the next n units of f, of which d are out; f is the frame    *)
(* that is unfinished at the end of S, or follows the last one.            *)
Continued(S, T, f, d, n) ==
  /\ d + n <= f.size + 1 /\ Len(T) = Len(S) + n
  /\ \A i \in 1 .. Len(S) : T[i] = S[i]
  /\ \A i \in 1 .. n : T[Len(S) + i] = <<f, d + i - 1>>

Fits(S, f, d) ==
  \A k \in Starts(S) :
    /\ k + S[k][1].size > Len(S) => d = Len(S) - k + 1
    /\ k + S[k][1].size = Len(S) => Rank(f) = Rank(S[k][1]) + 1

LEMMA Continues ==
  ASSUME NEW S \in Seq(Units), NEW T \in Seq(Units), NEW f \in Frames, NEW d \in Nat,
         NEW n \in Nat \ {0}, Continued(S, T, f, d, n),
         Pieces(S), Numbered(S), InWork(S, f, d), Fits(S, f, d)
  PROVE  /\ Pieces(T) /\ Numbered(T)
         /\ \A k \in Starts(T) :
              k + T[k][1].size >= Len(T) => T[k][1] = f /\ d + n = Len(T) - k + 1
         /\ T[Len(T) - (d + n) + 1] = <<f, 0>> /\ d + n <= Len(T)
<1> DEFINE L == Len(S)
           b == L - d + 1
<1>1. /\ L \in Nat /\ Len(T) = L + n /\ Len(T) \in Nat
      /\ f.size \in Nat /\ d <= f.size /\ d + n <= f.size + 1
  BY LenProperties DEF Frames, InWork, Continued
<1>2. b \in 1 .. L + 1 /\ Len(T) = b + d + n - 1
  <2>1. d <= L
    BY <1>1 DEF InWork
  <2> QED
    BY <1>1, <2>1
<1>3. d > 0 => b \in Starts(S) /\ S[b] = <<f, 0>> /\ b <= L
  <2>1. ASSUME d > 0
        PROVE  b \in 1 .. L /\ b <= L
    BY <1>1, <1>2, <2>1
  <2>2. ASSUME d > 0
        PROVE  S[b] = <<f, 0>>
    BY <2>2 DEF InWork
  <2> HIDE DEF b
  <2> QED
    BY <2>1, <2>2 DEF Starts
<1>4. \A k \in Starts(S) : k \in 1 .. L /\ S[k] = T[k] /\ S[k][1] \in Frames /\ S[k][1].size \in Nat
  <2>1. \A u \in Units : u[1] \in Frames /\ u[1].size \in Nat
    BY DEF Units, Frames
  <2>2. \A k \in 1 .. L : S[k] \in Units
    BY LenProperties
  <2> QED
    BY <2>1, <2>2 DEF Starts, Continued
<1>5. ASSUME NEW i \in 0 .. d + n - 1
      PROVE  T[b + i] = <<f, i>>
  <2>1. CASE i < d
    <3>1. S[b][1] = f /\ b + i \in 1 .. L /\ b \in Starts(S) /\ i \in 0 .. f.size
      <4>1. d > 0 /\ b + i <= L /\ i \in 0 .. f.size
        BY <1>1, <2>1
      <4>2. b + i \in 1 .. L
        BY <1>1, <1>2, <4>1
      <4>3. b \in Starts(S) /\ S[b] = <<f, 0>>
        BY <1>3, <4>1
      <4> HIDE DEF b, L
      <4> QED
        BY <4>1, <4>2, <4>3
    <3> HIDE DEF b
    <3>2. S[b + i] = <<f, i>>
      BY <1>1, <3>1 DEF Pieces
    <3> QED
      BY <3>1, <3>2 DEF Continued
  <2>2. CASE ~(i < d)
    <3> DEFINE m == i - d + 1
    <3>1. m \in 1 .. n /\ b + i = L + m /\ d + m - 1 = i
      BY <1>1, <1>2, <2>2
    <3> HIDE DEF m, b
    <3> QED
      BY <3>1 DEF Continued
  <2> QED
    BY <2>1, <2>2
<1>6. T[b] = <<f, 0>> /\ b \in Starts(T)
  <2>1. 0 \in 0 .. d + n - 1 /\ b + 0 = b /\ b \in 1 .. Len(T)
    BY <1>1, <1>2
  <2>2. T[b] = <<f, 0>>
    BY <1>5, <2>1
  <2> QED
    BY <2>1, <2>2 DEF Starts
<1>7. ASSUME NEW k \in Starts(T), k # b
      PROVE  k \in Starts(S) /\ k + S[k][1].size <= L
  <2>1. k \in 1 .. Len(T) /\ T[k][2] = 0
    BY DEF Starts
  <2>2. k <= L
    <3> SUFFICES ASSUME k > L
                 PROVE  FALSE
      BY <1>1, <2>1
    <3> DEFINE m == k - L
    <3>1. m \in 1 .. n /\ k = L + m
      BY <1>1, <2>1
    <3>2. T[k] = <<f, d + m - 1>>
      BY <3>1 DEF Continued
    <3>3. d + m - 1 = 0
      BY <2>1, <3>2
    <3> QED
      BY <1>1, <1>7, <3>1, <3>3
  <2>3. k \in Starts(S)
    BY <1>1, <2>1, <2>2 DEF Starts, Continued
  <2>4. k + S[k][1].size > L => k = b
    BY <1>1, <2>1, <2>3 DEF Fits
  <2>5. k + S[k][1].size \in Nat
    BY <1>4, <2>3
  <2> HIDE DEF L
  <2> QED
    BY <1>1, <1>7, <2>3, <2>4, <2>5
<1>8. ASSUME NEW k \in Starts(S), k + S[k][1].size = L
      PROVE  d = 0 /\ b = L + 1
  BY <1>1, <1>4, <1>8, NothingBegun
<1> HIDE DEF b, L
<1>9. Pieces(T)
  <2> SUFFICES ASSUME NEW k \in Starts(T), NEW i \in 0 .. T[k][1].size, k + i <= Len(T)
               PROVE  T[k + i] = <<T[k][1], i>>
    BY DEF Pieces
  <2>1. CASE k = b
    <3>1. T[k][1] = f
      BY <1>6, <2>1
    <3>2. i \in 0 .. d + n - 1
      BY <1>1, <1>2, <2>1, <3>1
    <3> QED
      BY <1>5, <2>1, <3>1, <3>2
  <2>2. CASE k # b
    <3>1. k \in Starts(S) /\ k + S[k][1].size <= L /\ T[k] = S[k] /\ S[k][1].size \in Nat /\ k \in 1 .. L
      BY <1>4, <1>7, <2>2
    <3>2. i \in 0 .. S[k][1].size
      BY <3>1
    <3>3. k + i \in 1 .. L /\ k + i <= Len(S)
      <4> DEFINE z == S[k][1].size
      <4>1. z \in Nat /\ k + z <= L /\ k \in Nat /\ i \in 0 .. z /\ k >= 1
        BY <1>1, <3>1, <3>2
      <4> HIDE DEF z
      <4> QED
        BY <1>1, <4>1 DEF L
    <3>4. S[k + i] = <<S[k][1], i>>
      BY <3>1, <3>2, <3>3 DEF Pieces
    <3> QED
      BY <3>1, <3>3, <3>4 DEF L, Continued
  <2> QED
    BY <2>1, <2>2
<1>10. Numbered(T)
  <2> SUFFICES ASSUME NEW k \in Starts(T), k + T[k][1].size < Len(T)
               PROVE  /\ k + T[k][1].size + 1 \in Starts(T)
                      /\ Rank(T[k + T[k][1].size + 1][1]) = Rank(T[k][1]) + 1
    BY DEF Numbered
  <2>1. k # b
    <3> SUFFICES ASSUME k = b
                 PROVE  FALSE
      OBVIOUS
    <3>1. T[k][1] = f
      BY <1>6
    <3> QED
      BY <1>1, <1>2, <3>1
  <2>2. k \in Starts(S) /\ k + S[k][1].size <= L /\ T[k] = S[k] /\ S[k][1].size \in Nat /\ k \in 1 .. L
    BY <1>4, <1>7, <2>1
  <2>3. CASE k + S[k][1].size = L
    <3>1. b = k + S[k][1].size + 1 /\ Rank(f) = Rank(S[k][1]) + 1
      BY <1>8, <2>2, <2>3 DEF L, Fits
    <3>2. T[b][1] = f /\ b \in Starts(T)
      BY <1>6
    <3> QED
      BY <2>2, <3>1, <3>2
  <2>4. CASE k + S[k][1].size < L
    <3> DEFINE e == k + S[k][1].size + 1
    <3>1. e \in Starts(S) /\ Rank(S[e][1]) = Rank(S[k][1]) + 1
      BY <2>2, <2>4 DEF Numbered, L
    <3>2. T[e] = S[e] /\ e \in 1 .. L
      BY <1>4, <3>1
    <3>3. e \in Starts(T)
      <4>1. e \in 1 .. Len(T)
        BY <1>1, <3>2
      <4>2. S[e][2] = 0
        BY <3>1 DEF Starts
      <4> HIDE DEF e
      <4> QED
        BY <3>2, <4>1, <4>2 DEF Starts
    <3> QED
      BY <2>2, <3>1, <3>2, <3>3
  <2>5. k + S[k][1].size = L \/ k + S[k][1].size < L
    <3> DEFINE z == S[k][1].size
    <3>1. z \in Nat /\ k + z <= L /\ k \in Nat
      BY <1>1, <2>2
    <3> HIDE DEF z
    <3>2. k + z = L \/ k + z < L
      BY <1>1, <3>1
    <3> QED
      BY <3>2 DEF z
  <2> QED
    BY <2>3, <2>4, <2>5
<1>11. ASSUME NEW k \in Starts(T), k + T[k][1].size >= Len(T)
       PROVE  T[k][1] = f /\ d + n = Len(T) - k + 1
  <2>1. k = b
    <3> SUFFICES ASSUME k # b
                 PROVE  FALSE
      OBVIOUS
    <3>1. k + S[k][1].size <= L /\ T[k] = S[k] /\ S[k][1].size \in Nat /\ k \in 1 .. L
      BY <1>4, <1>7
    <3> QED
      BY <1>1, <1>11, <3>1
  <2> QED
    <3>1. Len(T) = k + d + n - 1 /\ k \in Nat
      BY <1>1, <1>2, <2>1
    <3> QED
      BY <1>1, <1>6, <2>1, <3>1
<1>12. T[Len(T) - (d + n) + 1] = <<f, 0>> /\ d + n <= Len(T)
  <2>1. Len(T) - (d + n) + 1 = b
    BY <1>1, <1>2
  <2>2. d + n <= Len(T)
    BY <1>1, <1>2
  <2> QED
    BY <1>6, <2>1, <2>2
<1> QED
  BY <1>9, <1>10, <1>11, <1>12

(* What a step may do to a side that writes nothing in it: its stream      *)
(* stays, and the frame that is due next.                                  *)
Unwritten(p) ==
  /\ stream'[p] = stream[p] /\ (dropped[p] => dropped'[p])
  /\ stage'[p] # "failed" => stage[p] # "failed" /\ Due(p)' = Due(p)
  /\ \A t \in Senders[p] : sending[p][t].done = 0 => sending'[p][t].done = 0

(* A side that does nothing, or only gives up or closes. *)
LEMMA FlowStays ==
  ASSUME NEW p \in Sides, FlowAt(p), sending'[p] = sending[p], stream'[p] = stream[p],
         dropped[p] => dropped'[p],
         stage'[p] # "failed" => stage[p] # "failed" /\ NextRank(p)' = NextRank(p)
  PROVE  FlowAt(p)' /\ Unwritten(p)
<1>1. \A t \in Senders[p] : Writes(p, t)' <=> Writes(p, t)
  BY DEF Writes
<1>2. Free(p)' <=> Free(p)
  BY <1>1 DEF Free
<1>3. stage'[p] # "failed" => Due(p)' = Due(p)
  BY <1>2 DEF Due
<1>4. Unwritten(p)
  BY <1>3 DEF Unwritten
<1>5. ASSUME ~dropped'[p]
      PROVE  /\ Pieces(stream'[p]) /\ Numbered(stream'[p])
             /\ Unfinished(p)' /\ Finished(p)' /\ Writing(p)'
  <2>1. /\ Pieces(stream[p]) /\ Numbered(stream[p])
        /\ Unfinished(p) /\ Finished(p) /\ Writing(p)
    BY <1>5 DEF FlowAt
  <2>2. Unfinished(p)'
    BY <1>1, <2>1 DEF Unfinished
  <2>3. Finished(p)'
    BY <1>3, <2>1 DEF Finished
  <2>4. Writing(p)'
    BY <1>1, <1>3, <2>1 DEF Writing
  <2> QED
    BY <2>1, <2>2, <2>3, <2>4
<1> QED
  BY <1>4, <1>5 DEF FlowAt

(* A side begins the frame that was due. *)
LEMMA FlowBegins ==
  ASSUME Types, NEW p \in Sides, FlowAt(p), NEW t \in Senders[p], NEW f \in Frames,
         f.kind # "none", Begin(p, t, f), Free(p), Rank(f) = NextRank(p),
         NextRank(p)' = NextRank(p) + 1, NextRank(p) \in Nat, stream'[p] = stream[p],
         dropped'[p] = dropped[p], stage[p] # "failed"
  PROVE  FlowAt(p)' /\ Unwritten(p)
<1>1. \A u \in Senders[p] : sending'[p][u] = IF u = t THEN [frame |-> f, done |-> 0] ELSE sending[p][u]
  BY Begun
<1>2. [frame |-> f, done |-> 0] # Silent
  BY Begun
<1>3. \A u \in Senders[p] : (Writes(p, u)' <=> u = t) /\ ~Writes(p, u)
  BY <1>1, <1>2 DEF Free, Writes
<1>4. ~Free(p)'
  BY <1>3 DEF Free
<1>5. Due(p)' = Due(p) /\ Due(p) = Rank(f)
  BY <1>4 DEF Due
<1>6. \A u \in Senders[p] : sending[p][u].done = 0 => sending'[p][u].done = 0
  BY <1>1
<1>7. Unwritten(p)
  BY <1>5, <1>6 DEF Unwritten
<1>8. ASSUME ~dropped'[p]
      PROVE  /\ Pieces(stream'[p]) /\ Numbered(stream'[p])
             /\ Unfinished(p)' /\ Finished(p)' /\ Writing(p)'
  <2>1. /\ Pieces(stream[p]) /\ Numbered(stream[p])
        /\ Unfinished(p) /\ Finished(p)
    BY <1>8 DEF FlowAt
  <2>2. Unfinished(p)'
    BY <1>3, <2>1 DEF Unfinished
  <2>3. Finished(p)'
    BY <1>5, <2>1 DEF Finished
  <2>4. Writing(p)'
    <3> SUFFICES ASSUME NEW u \in Senders[p], Writes(p, u)'
                 PROVE  /\ InWork(stream'[p], sending'[p][u].frame, sending'[p][u].done)
                        /\ Rank(sending'[p][u].frame) = Due(p)'
      BY DEF Writing
    <3>1. sending'[p][u].frame = f /\ sending'[p][u].done = 0
      BY <1>1, <1>3
    <3>2. 0 <= f.size
      BY DEF Frames
    <3> QED
      BY <1>5, <3>1, <3>2 DEF InWork
  <2> QED
    BY <2>1, <2>2, <2>3, <2>4
<1> QED
  BY <1>7, <1>8 DEF FlowAt

(* A thread writes the next units of its frame f, of which d are out. *)
WritesOn(p, t, n, f, d) ==
  /\ f = sending[p][t].frame /\ d = sending[p][t].done /\ d + n <= f.size + 1
  /\ stream'[p] = stream[p] \o [i \in 1 .. n |-> <<f, d + i - 1>>]
  /\ \A u \in Senders[p] \ {t} : sending'[p][u] = sending[p][u]
  /\ d + n = f.size + 1 => sending'[p][t] = Silent
  /\ d + n # f.size + 1 => sending'[p][t] = [frame |-> f, done |-> d + n]

LEMMA FlowWrites ==
  ASSUME Types, Writers, NEW p \in Sides, FlowAt(p), NEW t \in Senders[p], Writes(p, t),
         NEW n \in Nat \ {0}, NEW f \in Frames, NEW d \in Nat, WritesOn(p, t, n, f, d),
         NextRank(p)' = NextRank(p), NextRank(p) \in Nat, dropped'[p] = dropped[p],
         stage'[p] = stage[p], stage[p] # "failed"
  PROVE  /\ FlowAt(p)'
         /\ stream[p] \in Seq(Units) /\ stream'[p] \in Seq(Units)
         /\ Continued(stream[p], stream'[p], f, d, n)
<1> DEFINE S == stream[p]
           more == [i \in 1 .. n |-> <<f, d + i - 1>>]
           T == S \o more
<1>1. S \in Seq(Units) /\ more \in Seq(Units) /\ Len(more) = n
  <2>1. \A i \in 1 .. n : <<f, d + i - 1>> \in Units
    BY DEF Units
  <2> HIDE DEF Units
  <2>2. more \in Seq(Units) /\ Len(more) = n
    BY <2>1
  <2> QED
    BY <2>2 DEF Types
<1>2. T \in Seq(Units) /\ Len(T) = Len(S) + n /\ Len(S) \in Nat
      /\ \A i \in 1 .. Len(S) + n : T[i] = IF i <= Len(S) THEN S[i] ELSE more[i - Len(S)]
  <2> HIDE DEF more, S, Units
  <2> QED
    BY <1>1, ConcatProperties, LenProperties
<1>3. Continued(S, T, f, d, n)
  <2>1. \A i \in 1 .. Len(S) : T[i] = S[i]
    BY <1>2
  <2>2. ASSUME NEW i \in 1 .. n
        PROVE  T[Len(S) + i] = <<f, d + i - 1>>
    <3>1. Len(S) + i \in 1 .. Len(S) + n /\ ~(Len(S) + i <= Len(S)) /\ Len(S) + i - Len(S) = i
      BY <1>2
    <3>2. T[Len(S) + i] = more[i]
      BY <1>2, <3>1
    <3> QED
      BY <3>2
  <2> QED
    BY <1>2, <2>1, <2>2 DEF Continued, WritesOn
<1>4. stream'[p] = T /\ f = sending[p][t].frame /\ d = sending[p][t].done
  BY DEF WritesOn
<1>5. \A u \in Senders[p] : Writes(p, u) => u = t
  BY DEF Writers
<1>6. ASSUME ~dropped'[p]
      PROVE  /\ Pieces(stream'[p]) /\ Numbered(stream'[p])
             /\ Unfinished(p)' /\ Finished(p)' /\ Writing(p)'
  <2>1. Pieces(S) /\ Numbered(S) /\ Unfinished(p) /\ Finished(p) /\ Writing(p)
    BY <1>6 DEF FlowAt
  <2>2. InWork(S, f, d) /\ Rank(f) = Due(p)
    BY <1>4, <2>1 DEF Writing
  <2>3. Fits(S, f, d)
    BY <1>4, <1>5, <2>1, <2>2 DEF Fits, Unfinished, Finished
  <2> HIDE DEF S, T, more
  <2>4. /\ Pieces(T) /\ Numbered(T)
        /\ \A k \in Starts(T) :
             k + T[k][1].size >= Len(T) => T[k][1] = f /\ d + n = Len(T) - k + 1
        /\ T[Len(T) - (d + n) + 1] = <<f, 0>> /\ d + n <= Len(T)
    <3>1. S \in Seq(Units) /\ T \in Seq(Units)
      BY <1>1, <1>2
    <3>2. Pieces(S) /\ Numbered(S)
      BY <2>1
    <3> QED
      BY <1>3, <2>2, <2>3, <3>1, <3>2, Continues
  <2>5. \A u \in Senders[p] : Writes(p, u)' => u = t
    BY <1>5 DEF Writes, WritesOn
  <2>6. Due(p) = NextRank(p) - 1
    BY DEF Due, Free
  <2>7. /\ f.size \in Nat /\ d + n <= f.size + 1 /\ Len(T) \in Nat
        /\ \A k \in Starts(T) : k \in Nat /\ T[k][1].size \in Nat
    <3>1. \A g \in Frames : g.size \in Nat
      BY DEF Frames
    <3>2. \A i \in 1 .. Len(T) : T[i] \in Units
      BY <1>2, LenProperties
    <3>3. \A u \in Units : u[1] \in Frames
      BY DEF Units
    <3>4. Len(T) \in Nat
      BY <1>2, LenProperties
    <3>5. f.size \in Nat /\ d + n <= f.size + 1
      BY <1>2, <3>1 DEF WritesOn
    <3>6. \A k \in Starts(T) : k \in 1 .. Len(T)
      BY DEF Starts
    <3> QED
      BY <3>1, <3>2, <3>3, <3>4, <3>5, <3>6
  <2>8. CASE d + n = f.size + 1
    <3>1. sending'[p][t] = Silent /\ Free(p)'
      BY <2>5, <2>8 DEF Free, Writes, WritesOn
    <3>2. Due(p)' = Rank(f) + 1
      BY <2>2, <2>6, <3>1 DEF Due
    <3>3. Unfinished(p)'
      <4> SUFFICES ASSUME NEW k \in Starts(T), k + T[k][1].size > Len(T)
                   PROVE  FALSE
        BY <1>4 DEF Unfinished
      <4>1. k + T[k][1].size >= Len(T)
        BY <2>7
      <4>2. T[k][1] = f /\ d + n = Len(T) - k + 1
        BY <2>4, <4>1
      <4> QED
        BY <2>7, <2>8, <4>2
    <3>4. Finished(p)'
      <4> SUFFICES ASSUME NEW k \in Starts(T), k + T[k][1].size = Len(T)
                   PROVE  Due(p)' = Rank(T[k][1]) + 1
        BY <1>4 DEF Finished
      <4>1. k + T[k][1].size >= Len(T)
        BY <2>7
      <4>2. T[k][1] = f
        BY <2>4, <4>1
      <4> QED
        BY <3>2, <4>2
    <3>5. Writing(p)'
      BY <3>1 DEF Writing, Free
    <3> QED
      BY <1>4, <2>4, <3>3, <3>4, <3>5
  <2>9. CASE d + n # f.size + 1
    <3>1. sending'[p][t] = [frame |-> f, done |-> d + n]
      BY <2>9 DEF WritesOn
    <3>2. Writes(p, t)'
      BY <3>1 DEF Writes, Silent
    <3>3. Due(p)' = Rank(f)
      BY <2>2, <2>6, <3>2 DEF Due, Free
    <3>4. Unfinished(p)'
      <4> SUFFICES ASSUME NEW k \in Starts(T), k + T[k][1].size > Len(T)
                   PROVE  f = T[k][1] /\ d + n = Len(T) - k + 1
        <5>1. sending'[p][t].frame = f /\ sending'[p][t].done = d + n
          BY <3>1
        <5> QED
          BY <1>4, <3>2, <5>1 DEF Unfinished
      <4>1. k + T[k][1].size >= Len(T)
        BY <2>7
      <4> QED
        BY <2>4, <4>1
    <3>5. Finished(p)'
      <4> SUFFICES ASSUME NEW k \in Starts(T), k + T[k][1].size = Len(T)
                   PROVE  FALSE
        BY <1>4 DEF Finished
      <4>1. k + T[k][1].size >= Len(T)
        BY <2>7
      <4>2. T[k][1] = f /\ d + n = Len(T) - k + 1
        BY <2>4, <4>1
      <4> QED
        BY <2>7, <2>9, <4>2
    <3>6. Writing(p)'
      <4>1. d + n <= f.size
        BY <2>7, <2>9
      <4>2. InWork(T, f, d + n)
        BY <2>4, <4>1 DEF InWork
      <4>3. sending'[p][t].frame = f /\ sending'[p][t].done = d + n
        BY <3>1
      <4>4. ASSUME NEW u \in Senders[p], Writes(p, u)'
            PROVE  /\ InWork(stream'[p], sending'[p][u].frame, sending'[p][u].done)
                   /\ Rank(sending'[p][u].frame) = Due(p)'
        <5>1. u = t
          BY <2>5, <4>4
        <5> QED
          BY <1>4, <3>3, <4>2, <4>3, <5>1
      <4> QED
        BY <4>4 DEF Writing
    <3> QED
      BY <1>4, <2>4, <3>4, <3>5, <3>6
  <2> QED
    BY <2>8, <2>9
<1> QED
  BY <1>1, <1>2, <1>3, <1>4, <1>6 DEF FlowAt

-----------------------------------------------------------------------------
(* The reader's side.                                                      *)

(* Nothing is written, and the reader takes nothing out, or gives up. *)
LEMMA ReaderStays ==
  ASSUME NEW s \in Sides, ReaderAt(s), Unwritten(Peer(s)), taken'[s] = taken[s],
         stage'[s] \notin Over => stage[s] \notin Over /\ Expect(s)' = Expect(s)
  PROVE  ReaderAt(s)'
<1>1. PICK p \in Sides : p = Peer(s)
  BY SidesAre
<1>2. /\ stream'[p] = stream[p] /\ (dropped[p] => dropped'[p])
      /\ stage'[p] # "failed" => stage[p] # "failed" /\ Due(p)' = Due(p)
      /\ \A t \in Senders[p] : sending[p][t].done = 0 => sending'[p][t].done = 0
  BY <1>1 DEF Unwritten
<1>3. ~dropped[p] /\ stage[s] \notin Over =>
        /\ taken[s] < Len(stream[p]) => /\ taken[s] + 1 \in Starts(stream[p])
                                        /\ Rank(stream[p][taken[s] + 1][1]) = Expect(s)
        /\ taken[s] = Len(stream[p]) => /\ \A t \in Senders[p] : sending[p][t].done = 0
                                        /\ stage[p] # "failed" => Due(p) = Expect(s)
  BY <1>1 DEF ReaderAt, In
<1>4. ASSUME ~dropped'[p], stage'[s] \notin Over
      PROVE  /\ taken'[s] < Len(stream'[p]) => /\ taken'[s] + 1 \in Starts(stream'[p])
                                               /\ Rank(stream'[p][taken'[s] + 1][1]) = Expect(s)'
             /\ taken'[s] = Len(stream'[p]) => /\ \A t \in Senders[p] : sending'[p][t].done = 0
                                               /\ stage'[p] # "failed" => Due(p)' = Expect(s)'
  BY <1>2, <1>3, <1>4
<1> QED
  BY <1>1, <1>4 DEF ReaderAt, In

(* A whole frame is at the front, and is taken out. *)
LEMMA FrontIsWhole ==
  ASSUME Types, Counts, NEW s \in Sides, FlowAt(Peer(s)), ReaderAt(s), Complete(s),
         ~dropped[Peer(s)], stage[s] \notin Over
  PROVE  /\ taken[s] + 1 \in Starts(In(s)) /\ Rank(Front(s)[1]) = Expect(s)
         /\ taken[s] + 1 + Front(s)[1].size <= Len(In(s)) /\ Front(s)[1] \in Frames
         /\ taken[s] \in Nat /\ Front(s)[1].size \in Nat
         /\ Whole(s, Front(s)[1])
<1>1. PICK p \in Sides : p = Peer(s)
  BY SidesAre
<1> DEFINE S == stream[p]
           k == taken[s] + 1
<1>2. /\ S \in Seq(Units) /\ Len(S) \in Nat /\ taken[s] \in Nat /\ arrived[s] \in Nat
      /\ arrived[s] <= Len(S) /\ In(s) = S
      /\ \A i \in 1 .. Len(S) : S[i][1] \in Frames
  BY <1>1, FramesKnown DEF Types, Counts, In
<1>3. taken[s] < arrived[s] /\ arrived[s] - taken[s] >= S[k][1].size + 1
  BY <1>1, <1>2 DEF Complete, Buffered, Front, In
<1>4. k \in Starts(S) /\ Rank(S[k][1]) = Expect(s)
  <2>1. taken[s] < Len(S)
    BY <1>2, <1>3
  <2> QED
    BY <1>1, <2>1 DEF ReaderAt, In
<1>5. S[k][1] \in Frames /\ S[k][1].size \in Nat
  <2>1. S[k][1] \in Frames
    BY <1>2, <1>3
  <2> QED
    BY <2>1 DEF Frames
<1>6. k + S[k][1].size <= Len(S)
  <2> DEFINE z == S[k][1].size
  <2>1. z \in Nat /\ arrived[s] - taken[s] >= z + 1
    BY <1>3, <1>5
  <2>2. taken[s] \in Nat /\ arrived[s] \in Nat /\ Len(S) \in Nat /\ arrived[s] <= Len(S)
    BY <1>2
  <2> HIDE DEF z, S
  <2>3. taken[s] + 1 + z <= Len(S)
    BY <2>1, <2>2
  <2> QED
    BY <2>3 DEF z
<1>7. \A i \in 0 .. S[k][1].size : S[k + i] = <<S[k][1], i>>
  <2>1. Pieces(S)
    BY <1>1 DEF FlowAt
  <2>2. \A i \in 0 .. S[k][1].size : k + i <= Len(S)
    BY <1>2, <1>5, <1>6
  <2> QED
    BY <1>4, <2>1, <2>2 DEF Pieces
<1>8. Front(s) = S[k]
  BY <1>2 DEF Front
<1>9. Whole(s, Front(s)[1])
  BY <1>2, <1>7, <1>8 DEF Whole
<1> QED
  BY <1>2, <1>4, <1>5, <1>6, <1>8, <1>9

LEMMA ReaderTakes ==
  ASSUME Types, Counts, NEW s \in Sides, FlowAt(Peer(s)), ReaderAt(s), Unwritten(Peer(s)),
         Complete(s), taken'[s] = taken[s] + Front(s)[1].size + 1,
         stage[s] \notin Over, stage'[s] \notin Over => Expect(s)' = Expect(s) + 1
  PROVE  ReaderAt(s)'
<1>1. PICK p \in Sides : p = Peer(s)
  BY SidesAre
<1> SUFFICES ASSUME ~dropped'[p], stage'[s] \notin Over
             PROVE  /\ taken'[s] < Len(stream'[p]) =>
                         /\ taken'[s] + 1 \in Starts(stream'[p])
                         /\ Rank(stream'[p][taken'[s] + 1][1]) = Expect(s)'
                    /\ taken'[s] = Len(stream'[p]) =>
                         /\ \A t \in Senders[p] : sending'[p][t].done = 0
                         /\ stage'[p] # "failed" => Due(p)' = Expect(s)'
  BY <1>1 DEF ReaderAt, In
<1> DEFINE S == stream[p]
           k == taken[s] + 1
           f == S[k][1]
<1>2. /\ stream'[p] = S /\ ~dropped[p]
      /\ stage'[p] # "failed" => stage[p] # "failed" /\ Due(p)' = Due(p)
      /\ \A t \in Senders[p] : sending[p][t].done = 0 => sending'[p][t].done = 0
  BY <1>1 DEF Unwritten
<1>3. In(s) = S /\ Front(s)[1] = f
  BY <1>1 DEF In, Front
<1>4. /\ k \in Starts(S) /\ Rank(f) = Expect(s) /\ k + f.size <= Len(S)
      /\ f \in Frames /\ k \in Nat /\ f.size \in Nat
  <2>1. taken[s] + 1 + Front(s)[1].size <= Len(In(s)) /\ taken[s] \in Nat
    BY <1>1, <1>2, FrontIsWhole
  <2>2. taken[s] + 1 \in Starts(In(s)) /\ Rank(Front(s)[1]) = Expect(s) /\ Front(s)[1] \in Frames
        /\ Front(s)[1].size \in Nat
    BY <1>1, <1>2, FrontIsWhole
  <2> QED
    BY <1>3, <2>1, <2>2
<1>5. taken'[s] = k + f.size
  <2>1. taken[s] \in Nat
    BY DEF Types
  <2> HIDE DEF f
  <2> QED
    BY <1>3, <1>4, <2>1
<1>6. Pieces(S) /\ Numbered(S) /\ Finished(p) /\ Writing(p) /\ S \in Seq(Units)
  BY <1>1, <1>2 DEF FlowAt, Types
<1> HIDE DEF S, k, f
<1>7. CASE taken'[s] < Len(S)
  <2>1. k + f.size + 1 \in Starts(S) /\ Rank(S[k + f.size + 1][1]) = Rank(f) + 1
    BY <1>4, <1>5, <1>6, <1>7 DEF Numbered, f
  <2>2. Len(S) \in Nat /\ ~(taken'[s] = Len(S))
    BY <1>4, <1>5, <1>6, <1>7, LenProperties
  <2> QED
    BY <1>2, <1>4, <1>5, <2>1, <2>2
<1>8. CASE taken'[s] = Len(S)
  <2>1. ASSUME NEW t \in Senders[p]
        PROVE  sending[p][t].done = 0
    <3>1. CASE Writes(p, t)
      <4>1. sending[p][t].frame \in Frames /\ sending[p][t].done \in Nat
        BY FramesKnown
      <4>2. InWork(S, sending[p][t].frame, sending[p][t].done)
        BY <1>6, <3>1 DEF Writing, S
      <4> QED
        BY <1>4, <1>5, <1>6, <1>8, <4>1, <4>2, NothingBegun DEF f
    <3>2. CASE ~Writes(p, t)
      BY <3>2 DEF Writes, Silent
    <3> QED
      BY <3>1, <3>2
  <2>2. stage[p] # "failed" => Due(p) = Rank(f) + 1
    BY <1>4, <1>5, <1>6, <1>8 DEF Finished, S, f
  <2>3. Len(S) \in Nat
    BY <1>6, LenProperties
  <2>4. ~(taken'[s] < Len(S))
    BY <1>8, <2>3
  <2> QED
    BY <1>2, <1>4, <1>8, <2>1, <2>2, <2>4
<1>9. CASE ~(taken'[s] < Len(S)) /\ taken'[s] # Len(S)
  BY <1>2, <1>9
<1> QED
  BY <1>7, <1>8, <1>9

(* More is written behind what the reader has taken. *)
LEMMA ReaderAwaits ==
  ASSUME Types, Counts, NEW s \in Sides, NEW p \in Sides, p = Peer(s), FlowAt(p), ReaderAt(s),
         NEW t \in Senders[p], Writes(p, t), NEW n \in Nat \ {0}, NEW f \in Frames, NEW d \in Nat,
         WritesOn(p, t, n, f, d), stream'[p] \in Seq(Units),
         Continued(stream[p], stream'[p], f, d, n),
         taken'[s] = taken[s], stage'[s] = stage[s], Expect(s)' = Expect(s), stage[p] # "failed",
         dropped'[p] = dropped[p]
  PROVE  ReaderAt(s)'
<1> SUFFICES ASSUME ~dropped[p], stage[s] \notin Over
             PROVE  /\ taken[s] < Len(stream'[p]) =>
                         /\ taken[s] + 1 \in Starts(stream'[p])
                         /\ Rank(stream'[p][taken[s] + 1][1]) = Expect(s)
                    /\ taken[s] # Len(stream'[p])
  BY DEF ReaderAt, In
<1> DEFINE S == stream[p]
           T == stream'[p]
<1>1. S \in Seq(Units) /\ Len(S) \in Nat /\ taken[s] \in Nat /\ taken[s] <= Len(S)
  <2>1. S \in Seq(Units) /\ Len(S) \in Nat
    BY FramesKnown
  <2>2. taken[s] <= arrived[s] /\ arrived[s] <= Len(S) /\ taken[s] \in Nat /\ arrived[s] \in Nat
    BY DEF Counts, Types, In
  <2> QED
    BY <2>1, <2>2
<1>2. /\ Len(T) = Len(S) + n
      /\ \A i \in 1 .. Len(S) : T[i] = S[i]
      /\ \A i \in 1 .. n : T[Len(S) + i] = <<f, d + i - 1>>
  BY DEF Continued
<1>3. /\ taken[s] < Len(S) => taken[s] + 1 \in Starts(S) /\ Rank(S[taken[s] + 1][1]) = Expect(s)
      /\ taken[s] = Len(S) => d = 0 /\ Due(p) = Expect(s)
  <2>1. d = sending[p][t].done
    BY DEF WritesOn
  <2> QED
    BY <2>1 DEF ReaderAt, In
<1>4. Rank(f) = Due(p)
  BY DEF FlowAt, Writing, WritesOn
<1> HIDE DEF S, T
<1>5. taken[s] + 1 \in 1 .. Len(T) /\ taken[s] # Len(T)
  BY <1>1, <1>2
<1>6. CASE taken[s] < Len(S)
  <2>1. taken[s] + 1 \in 1 .. Len(S)
    BY <1>1, <1>6
  <2>2. T[taken[s] + 1] = S[taken[s] + 1]
    BY <1>2, <2>1
  <2>3. taken[s] + 1 \in Starts(T)
    BY <1>3, <1>5, <1>6, <2>2 DEF Starts
  <2> QED
    BY <1>3, <1>5, <1>6, <2>2, <2>3 DEF T
<1>7. CASE taken[s] = Len(S)
  <2>1. T[taken[s] + 1] = <<f, 0>>
    <3>1. 1 \in 1 .. n /\ d + 1 - 1 = 0
      BY <1>3, <1>7
    <3> QED
      BY <1>2, <1>7, <3>1
  <2>2. taken[s] + 1 \in Starts(T)
    BY <1>5, <2>1 DEF Starts
  <2> QED
    BY <1>3, <1>4, <1>5, <1>7, <2>1, <2>2 DEF T
<1> QED
  BY <1>1, <1>6, <1>7

-----------------------------------------------------------------------------
(* The steps once more.                                                    *)

(* Why s has given up on the connection. *)
Reason(s) ==
  stage[s] = "broken" =>
    dropped[Peer(s)] \/ \E i \in DOMAIN In(s) : In(s)[i][1].size > MaxFrame - Chunk + 1

Explained == Early /\ Flow /\ \A s \in Sides : Reason(s)

(* A step leaves a side alone. *)
Away(r) ==
  /\ stage'[r] = stage[r] /\ sending'[r] = sending[r] /\ stream'[r] = stream[r]
  /\ sendSeq'[r] = sendSeq[r] /\ recvSeq'[r] = recvSeq[r] /\ taken'[r] = taken[r]
  /\ dropped'[r] = dropped[r]

LEMMA AwayStays ==
  ASSUME NEW r \in Sides, Away(r)
  PROVE  /\ NextRank(r)' = NextRank(r) /\ Expect(r)' = Expect(r)
         /\ FlowAt(r) => FlowAt(r)' /\ Unwritten(r)
         /\ ReaderAt(r) /\ Unwritten(Peer(r)) => ReaderAt(r)'
<1>1. NextRank(r)' = NextRank(r) /\ Expect(r)' = Expect(r)
  BY DEF Away, NextRank, Expect
<1>2. FlowAt(r) => FlowAt(r)' /\ Unwritten(r)
  BY <1>1, FlowStays DEF Away
<1>3. ReaderAt(r) /\ Unwritten(Peer(r)) => ReaderAt(r)'
  BY <1>1, ReaderStays DEF Away
<1> QED
  BY <1>1, <1>2, <1>3

(* What the steps of side s have to show. *)
LEMMA SideStep ==
  ASSUME Flow, NEW s \in Sides, Away(Peer(s)), FlowAt(s)', ReaderAt(s)', ReaderAt(Peer(s))'
  PROVE  Flow'
<1>1. FlowAt(Peer(s))'
  BY AwayStays, SidesAre DEF Flow
<1>2. \A r \in Sides : r = s \/ r = Peer(s)
  BY DEF Sides, Peer
<1> QED
  BY <1>1, <1>2 DEF Flow

LEMMA UnwrittenStep ==
  ASSUME Flow, NEW s \in Sides, Away(Peer(s)), FlowAt(s)', Unwritten(s),
         Unwritten(Peer(s)) => ReaderAt(s)'
  PROVE  Flow'
<1>1. Peer(s) \in Sides /\ Peer(Peer(s)) = s
  BY SidesAre
<1>2. Unwritten(Peer(s)) /\ ReaderAt(Peer(s))'
  BY <1>1, AwayStays DEF Flow
<1> QED
  BY <1>2, SideStep

(* A reason stays one. *)
LEMMA ReasonStays ==
  ASSUME NEW s \in Sides, Reason(s), stage'[s] = "broken" => stage[s] = "broken",
         dropped[Peer(s)] => dropped'[Peer(s)], stream'[Peer(s)] = stream[Peer(s)]
  PROVE  Reason(s)'
<1>1. PICK p \in Sides : p = Peer(s)
  BY SidesAre
<1> QED
  BY <1>1 DEF Reason, In

(* A step that writes nothing, and after which nobody has broken off. *)
LEMMA ReasonsStay ==
  ASSUME Explained, \A s \in Sides : stage'[s] = "broken" => stage[s] = "broken",
         dropped' = dropped, stream' = stream
  PROVE  \A s \in Sides : Reason(s)'
BY ReasonStays DEF Explained

(* A step of side s in which it gives up, closes or waits on. *)
LEMMA OverExplained ==
  ASSUME IInv, Explained, NEW s \in Sides, NEW x \in Over \cup {stage[s]},
         stage' = [stage EXCEPT ![s] = x], x \in Ready <=> stage[s] \in Ready,
         UNCHANGED <<sending, stream, sendSeq, recvSeq, taken, dropped>>
  PROVE  Early' /\ Flow'
<1>1. Early /\ Flow /\ Peer(s) \in Sides /\ Peer(s) # s
  BY SidesAre DEF Explained
<1>2. \A r \in Sides : stage'[r] = IF r = s THEN x ELSE stage[r]
  BY DEF IInv, Types, Stages
<1>3. Early'
  BY <1>1, <1>2 DEF Early
<1>4. Away(Peer(s))
  BY <1>1, <1>2 DEF Away
<1>5. stage'[s] # "failed" => stage[s] # "failed" /\ NextRank(s)' = NextRank(s)
  <2>1. CASE x = stage[s]
    BY <1>2, <2>1 DEF NextRank
  <2>2. CASE x \in Over \ {"failed"}
    <3>1. x \in Ready /\ "failed" \notin Ready
      BY <2>2 DEF Over, Ready
    <3> QED
      BY <1>2, <3>1 DEF NextRank
  <2> QED
    BY <1>2, <2>1, <2>2
<1>6. FlowAt(s)' /\ Unwritten(s)
  BY <1>1, <1>5, FlowStays DEF Flow
<1>7. stage'[s] \notin Over => stage[s] \notin Over /\ Expect(s)' = Expect(s)
  <2> SUFFICES ASSUME stage'[s] \notin Over
               PROVE  stage'[s] = stage[s]
    BY DEF Expect
  <2> QED
    BY <1>2
<1>8. Unwritten(Peer(s)) => ReaderAt(s)'
  BY <1>1, <1>7, ReaderStays DEF Flow
<1> QED
  BY <1>1, <1>3, <1>4, <1>6, <1>8, UnwrittenStep

(* recv() brings more than the buffer may hold only behind a long frame. *)
LEMMA RecvExplained ==
  ASSUME IInv, Explained, NEW s \in Sides, NEW n \in 1 .. Chunk, Recv(s, n)
  PROVE  Explained'
<1>1. /\ Waits(s) /\ ~Complete(s) /\ arrived[s] + n <= Len(In(s))
      /\ stage' = IF TooFull(Buffered(s) + n)
                  THEN [stage EXCEPT ![s] = IF @ = "ready" THEN "broken" ELSE "failed"] ELSE stage
      /\ UNCHANGED <<taken, recvSeq, sending, stream, sendSeq, dropped>>
  BY DEF Recv, writing
<1>2. Types /\ Counts /\ n \in Nat /\ n > 0 /\ n <= Chunk /\ Chunk \in Nat /\ MaxFrame \in Nat
  BY ChannelAssumption DEF IInv
<1>3. PICK x \in Over \cup {stage[s]} :
        /\ stage' = [stage EXCEPT ![s] = x] /\ (x \in Ready <=> stage[s] \in Ready)
        /\ x = "broken" => stage[s] = "broken" \/ TooFull(Buffered(s) + n)
  <2>1. CASE TooFull(Buffered(s) + n)
    <3> DEFINE x == IF stage[s] = "ready" THEN "broken" ELSE "failed"
    <3>1. x \in Over /\ (x \in Ready <=> stage[s] \in Ready)
      BY <1>1 DEF Waits, Over, Ready
    <3>2. stage' = [stage EXCEPT ![s] = x]
      BY <1>1, <2>1
    <3> QED
      BY <2>1, <3>1, <3>2
  <2>2. CASE ~TooFull(Buffered(s) + n)
    <3>1. stage' = [stage EXCEPT ![s] = stage[s]]
      BY <1>1, <1>2, <2>2 DEF Types
    <3> QED
      BY <3>1
  <2> QED
    BY <2>1, <2>2
<1>4. Early' /\ Flow'
  BY <1>1, <1>3, OverExplained
<1>5. \A r \in Sides : stage'[r] = IF r = s THEN x ELSE stage[r]
  BY <1>2, <1>3 DEF Types, Stages
<1>6. ASSUME TooFull(Buffered(s) + n)
      PROVE  \E i \in 1 .. Len(In(s)) : In(s)[i][1].size > MaxFrame - Chunk + 1
  <2> DEFINE S == In(s)
  <2>1. /\ S \in Seq(Units) /\ Len(S) \in Nat
        /\ \A i \in 1 .. Len(S) : S[i][1] \in Frames
    BY <1>2, FramesKnown, SidesAre DEF In
  <2>2. /\ taken[s] \in Nat /\ arrived[s] \in Nat /\ taken[s] <= arrived[s]
        /\ arrived[s] + n <= Len(S)
    BY <1>1, <1>2 DEF Types, Counts
  <2> HIDE DEF S
  <2>3. \A f \in Frames : f.size \in Nat
    BY DEF Frames
  <2>4. arrived[s] - taken[s] + n > MaxFrame + 1
    BY <1>6 DEF TooFull, Buffered
  <2>5. CASE taken[s] = arrived[s]
    <3>1. 1 \in 1 .. Len(S) /\ S[1][1].size \in Nat
      BY <1>2, <2>1, <2>2, <2>3
    <3>2. MaxFrame - Chunk + 1 < 0
      BY <1>2, <2>2, <2>4, <2>5
    <3>3. S[1][1].size > MaxFrame - Chunk + 1
      BY <1>2, <3>1, <3>2
    <3> QED
      BY <3>1, <3>3 DEF S
  <2>6. CASE taken[s] < arrived[s]
    <3> DEFINE k == taken[s] + 1
    <3>1. k \in 1 .. Len(S) /\ S[k][1].size \in Nat
      BY <1>2, <2>1, <2>2, <2>3, <2>6
    <3>2. arrived[s] - taken[s] < S[k][1].size + 1
      BY <1>1, <2>2, <2>6, <3>1 DEF Complete, Buffered, Front, S
    <3>3. S[k][1].size > MaxFrame - Chunk + 1
      <4> DEFINE z == S[k][1].size
                 b == arrived[s] - taken[s]
      <4>1. z \in Nat /\ b \in Nat /\ b <= z /\ b + n > MaxFrame + 1
        <5>1. z \in Nat /\ b < z + 1 /\ b + n > MaxFrame + 1
          BY <2>4, <3>1, <3>2
        <5>2. b \in Nat
          BY <2>2
        <5> HIDE DEF z, b
        <5> QED
          BY <5>1, <5>2
      <4>3. n \in Nat /\ n <= Chunk /\ MaxFrame \in Nat /\ Chunk \in Nat
        BY <1>2
      <4> HIDE DEF z, b
      <4>2. z > MaxFrame - Chunk + 1
        BY <4>1, <4>3
      <4> QED
        BY <4>2 DEF z
    <3> QED
      BY <3>1, <3>3 DEF S
  <2> QED
    BY <2>2, <2>5, <2>6
<1>7. DOMAIN In(s) = 1 .. Len(In(s))
  <2>1. In(s) \in Seq(Units)
    BY <1>2, FramesKnown, SidesAre DEF In
  <2> QED
    BY <2>1, LenProperties
<1>8. ASSUME NEW r \in Sides
      PROVE  Reason(r)'
  <2>1. CASE r = s /\ TooFull(Buffered(s) + n)
    <3>1. \E i \in DOMAIN In(s) : In(s)[i][1].size > MaxFrame - Chunk + 1
      BY <1>6, <1>7, <2>1
    <3> QED
      BY <1>1, <2>1, <3>1 DEF Reason, In
  <2>2. CASE ~(r = s /\ TooFull(Buffered(s) + n))
    <3>1. stage'[r] = "broken" => stage[r] = "broken"
      BY <1>3, <1>5, <2>2
    <3> QED
      BY <1>1, <3>1, ReasonStays DEF Explained
  <2> QED
    BY <2>1, <2>2
<1> QED
  BY <1>4, <1>8 DEF Explained

(* While no frame has been lost the next one opens. *)
LEMMA FrontOpens ==
  ASSUME IInv, Flow, NEW s \in Sides, stage[s] = "ready", Taken(s), ~dropped[Peer(s)]
  PROVE  Opens(s, Front(s)[1])
<1> DEFINE f == Front(s)[1]
<1>1. stage[s] \notin Over /\ stage[s] \in Ready
  BY DEF Over, Ready
<1>2. Peer(s) \in Sides /\ Complete(s)
  BY SidesAre DEF Taken
<1>3. Whole(s, f) /\ Rank(f) = Expect(s) /\ f \in Frames
  BY <1>1, <1>2, FrontIsWhole DEF IInv, Flow
<1>4. f.secret = secret[Peer(s)]
  BY TakenStep DEF Good
<1>5. secret[Peer(s)] = secret[s]
  BY <1>1, SidesAre DEF IInv, Shared
<1>6. Expect(s) = recvSeq[s] + 2 /\ recvSeq[s] \in Nat
  BY DEF Expect, IInv, Types
<1> HIDE DEF f
<1>7. f.seq \in Nat
  BY <1>3 DEF Frames
<1>8. f.kind = "sealed" /\ f.seq = recvSeq[s]
  BY <1>3, <1>6, <1>7 DEF Rank
<1>9. Opens(s, f)
  BY <1>3, <1>4, <1>5, <1>8 DEF Opens
<1> QED
  BY <1>9 DEF f

LEMMA ReceiveExplained ==
  ASSUME IInv, Explained, NEW s \in Sides, Receive(s)
  PROVE  Explained'
<1> DEFINE f == Front(s)[1]
<1>1. /\ stage[s] = "ready" /\ Taken(s) /\ UNCHANGED <<sending, stream, sendSeq, dropped>>
      /\ \/ /\ Opens(s, f) /\ recvSeq' = [recvSeq EXCEPT ![s] = @ + 1] /\ stage' = stage
         \/ /\ ~Opens(s, f) /\ stage' = [stage EXCEPT ![s] = "broken"] /\ recvSeq' = recvSeq
  BY DEF Receive, writing
<1>2. Complete(s) /\ taken' = [taken EXCEPT ![s] = @ + f.size + 1]
  BY <1>1 DEF Taken
<1>3. Types /\ Counts /\ Early /\ Flow /\ Peer(s) \in Sides /\ Peer(s) # s
  BY SidesAre DEF IInv, Explained
<1>4. taken'[s] = taken[s] + f.size + 1 /\ \A r \in Sides \ {s} : taken'[r] = taken[r]
  BY <1>2, <1>3 DEF Types
<1> HIDE DEF f
<1>5. /\ \A r \in Sides \ {s} : stage'[r] = stage[r] /\ recvSeq'[r] = recvSeq[r]
      /\ stage'[s] \in {"ready", "broken"}
      /\ stage'[s] = "ready" => recvSeq'[s] = recvSeq[s] + 1
      /\ stage'[s] = "broken" => ~Opens(s, f)
  BY <1>1, <1>3 DEF Types, Stages
<1>6. "ready" \in Ready /\ "broken" \in Ready /\ "broken" \in Over /\ "ready" \notin Over
  BY DEF Ready, Over
<1>7. Early'
  BY <1>1, <1>3, <1>5, <1>6 DEF Early
<1>8. Away(Peer(s))
  BY <1>1, <1>3, <1>4, <1>5 DEF Away
<1>9. NextRank(s)' = NextRank(s)
  BY <1>1, <1>5, <1>6 DEF NextRank
<1>10. FlowAt(s)' /\ Unwritten(s)
  BY <1>1, <1>3, <1>9, FlowStays DEF Flow
<1>11. stage'[s] \notin Over => Expect(s)' = Expect(s) + 1
  <2>1. recvSeq[s] \in Nat
    BY <1>3 DEF Types
  <2>2. Expect(s) = recvSeq[s] + 2
    BY <1>1 DEF Expect
  <2>3. stage'[s] \notin Over => Expect(s)' = recvSeq[s] + 1 + 2
    BY <1>5, <1>6 DEF Expect
  <2> QED
    BY <2>1, <2>2, <2>3
<1>12. Unwritten(Peer(s)) => ReaderAt(s)'
  BY <1>1, <1>2, <1>3, <1>4, <1>6, <1>11, ReaderTakes DEF Flow, f
<1>13. Flow'
  BY <1>3, <1>8, <1>10, <1>12, UnwrittenStep
<1>14. ASSUME NEW r \in Sides
       PROVE  Reason(r)'
  <2>1. CASE r = s
    <3>1. stage'[s] = "broken" => dropped[Peer(s)]
      BY <1>1, <1>3, <1>5, FrontOpens DEF f
    <3> QED
      BY <1>1, <2>1, <3>1 DEF Reason
  <2>2. CASE r # s
    BY <1>1, <1>5, <2>2, ReasonStays DEF Explained
  <2> QED
    BY <2>1, <2>2
<1> QED
  BY <1>7, <1>13, <1>14 DEF Explained

(* A side sends a frame of the handshake, or none, and goes on to the next *)
(* stage: the frame is the one that was due, and the next one follows it.  *)
LEMMA RankOfPlain ==
  ASSUME NEW k \in AllSecrets
  PROVE  /\ Rank(Plain("hello", k)) = 0 /\ Rank(Plain("challenge", k)) = 0
         /\ Rank(Plain("proof", k)) = 1
BY DEF Plain, Frame, Rank

LEMMA HelloExplained ==
  ASSUME IInv, Explained, Hello
  PROVE  Explained'
<1>1. /\ stage["client"] = "start"
      /\ UNCHANGED <<taken, recvSeq, stream, sendSeq, dropped>>
      /\ \/ stage' = [stage EXCEPT !["client"] = "failed"] /\ UNCHANGED sending
         \/ /\ stage' = [stage EXCEPT !["client"] = "hello"]
            /\ Begin("client", Receiver["client"], Plain("hello", secret["client"]))
  BY DEF Hello, Moves, Begins, reading
<1>2. /\ Types /\ Writers /\ Early /\ Flow
      /\ "client" \in Sides /\ "server" \in Sides /\ Peer("client") = "server"
  BY SidesAre DEF IInv, Explained, Peer
<1>3. /\ \A r \in Sides \ {"client"} : stage'[r] = stage[r]
      /\ stage'["client"] \in {"failed", "hello"}
  BY <1>1, <1>2 DEF Types, Stages
<1>4. \A s \in Sides : Reason(s)'
  BY <1>1, <1>3, ReasonsStay
<1>5. CASE stage' = [stage EXCEPT !["client"] = "failed"] /\ UNCHANGED sending
  <2>1. "failed" \in Over /\ "failed" \notin Ready /\ "start" \notin Ready
    BY DEF Over, Ready
  <2>2. Early' /\ Flow'
    BY <1>1, <1>2, <1>5, <2>1, OverExplained
  <2> QED
    BY <1>4, <2>2 DEF Explained
<1>6. CASE /\ stage' = [stage EXCEPT !["client"] = "hello"]
           /\ Begin("client", Receiver["client"], Plain("hello", secret["client"]))
  <2>1. PICK t \in Senders["client"] : t = Receiver["client"]
    BY <1>2, ChannelAssumption
  <2>2. PICK f \in Frames : /\ f.kind = "hello" /\ Rank(f) = 0 /\ Begin("client", t, f)
    BY <1>2, <1>6, <2>1, PlainIs, RankOfPlain DEF Types, Kinds
  <2>3. stage'["client"] = "hello"
    BY <1>2, <1>6 DEF Types
  <2>4. NextRank("client") = 0 /\ NextRank("client")' = 1
    BY <1>1, <2>3 DEF NextRank, Ready
  <2>5. Free("client")
    BY <1>1, <1>2 DEF Writers
  <2>6. FlowAt("client")' /\ Unwritten("client")
    <3>1. f.kind # "none" /\ NextRank("client")' = NextRank("client") + 1
          /\ NextRank("client") \in Nat /\ stage["client"] # "failed"
      BY <1>1, <2>2, <2>4
    <3> QED
      BY <1>1, <1>2, <2>2, <2>4, <2>5, <3>1, FlowBegins DEF Flow
  <2>7. Away("server")
    <3>1. sending'["server"] = sending["server"]
      BY <1>2, <2>2 DEF Begin, Types
    <3> QED
      BY <1>1, <1>2, <1>3, <3>1 DEF Away
  <2>8. stage["client"] \notin Over /\ Expect("client")' = Expect("client")
    BY <1>1, <2>3 DEF Over, Expect
  <2>9. Unwritten("server") => ReaderAt("client")'
    BY <1>1, <1>2, <2>8, ReaderStays DEF Flow
  <2>10. Flow'
    BY <1>2, <2>6, <2>7, <2>9, UnwrittenStep
  <2>11. Early'
    BY <1>1, <1>2, <1>3, <2>3 DEF Early, Ready
  <2> QED
    BY <1>4, <2>10, <2>11 DEF Explained
<1> QED
  BY <1>1, <1>5, <1>6

(* A step of the handshake, if it succeeds: a frame is taken, and the one  *)
(* that was due begun, or none is.                                         *)
LEMMA HandshakeOn ==
  ASSUME IInv, Explained, NEW s \in Sides, Taken(s), NEW x \in {"proof", "ready"},
         stage[s] \in {"hello", "proof"}, stage' = [stage EXCEPT ![s] = x],
         UNCHANGED <<recvSeq, stream, sendSeq, dropped>>,
         \/ UNCHANGED sending /\ NextRank(s)' = NextRank(s)
         \/ \E kind \in {"challenge", "proof"} :
              /\ Begins(s, kind)
              /\ NextRank(s) = (IF kind = "proof" THEN 1 ELSE 0)
              /\ NextRank(s)' = NextRank(s) + 1,
         Expect(s)' = Expect(s) + 1
  PROVE  Explained'
<1>1. Types /\ Counts /\ Writers /\ Early /\ Flow /\ Peer(s) \in Sides /\ Peer(s) # s
  BY SidesAre DEF IInv, Explained
<1>2. /\ Complete(s) /\ taken'[s] = taken[s] + Front(s)[1].size + 1
      /\ \A r \in Sides \ {s} : taken'[r] = taken[r]
      /\ ~Writes(s, Receiver[s])
  BY <1>1 DEF Taken, Types, Waits
<1>3. \A r \in Sides : stage'[r] = IF r = s THEN x ELSE stage[r]
  BY <1>1 DEF Types, Stages
<1>4. /\ stage[s] \notin Over /\ stage[s] \notin Ready /\ stage[s] # "failed"
  BY DEF Over, Ready
<1>5. sending'[Peer(s)] = sending[Peer(s)] /\ FlowAt(s)' /\ Unwritten(s)
  <2>1. CASE UNCHANGED sending /\ NextRank(s)' = NextRank(s)
    BY <1>1, <1>4, <2>1, FlowStays DEF Flow
  <2>2. CASE \E kind \in {"challenge", "proof"} :
               /\ Begins(s, kind)
               /\ NextRank(s) = (IF kind = "proof" THEN 1 ELSE 0)
               /\ NextRank(s)' = NextRank(s) + 1
    <3>1. PICK kind \in {"challenge", "proof"} :
               /\ Begins(s, kind)
               /\ NextRank(s) = (IF kind = "proof" THEN 1 ELSE 0)
               /\ NextRank(s)' = NextRank(s) + 1
      BY <2>2
    <3>2. PICK t \in Senders[s] : t = Receiver[s]
      BY ChannelAssumption
    <3>3. secret[s] \in AllSecrets
      BY <1>1 DEF Types
    <3>4. PICK f \in Frames : /\ f.kind # "none" /\ Begin(s, t, f)
                              /\ Rank(f) = (IF kind = "proof" THEN 1 ELSE 0)
      <4>1. kind \in Kinds /\ kind # "none"
        BY DEF Kinds
      <4>2. Rank(Plain(kind, secret[s])) = IF kind = "proof" THEN 1 ELSE 0
        BY <3>3, RankOfPlain
      <4> QED
        BY <3>1, <3>2, <3>3, <4>1, <4>2, PlainIs DEF Begins
    <3>5. Free(s)
      BY <1>1, <1>2, <1>4 DEF Writers, Free
    <3>6. Rank(f) = NextRank(s) /\ NextRank(s) \in Nat
      BY <3>1, <3>4
    <3>7. FlowAt(s)' /\ Unwritten(s)
      BY <1>1, <1>4, <3>1, <3>4, <3>5, <3>6, FlowBegins DEF Flow
    <3>8. sending'[Peer(s)] = sending[Peer(s)]
      BY <1>1, <3>4 DEF Begin, Types
    <3> QED
      BY <3>7, <3>8
  <2> QED
    BY <2>1, <2>2
<1>6. Away(Peer(s))
  BY <1>1, <1>2, <1>3, <1>5 DEF Away
<1>7. Unwritten(Peer(s)) => ReaderAt(s)'
  BY <1>1, <1>2, <1>4, ReaderTakes DEF Flow
<1>8. Flow'
  BY <1>1, <1>5, <1>6, <1>7, UnwrittenStep
<1>9. Early'
  BY <1>1, <1>3, <1>4 DEF Early
<1>10. \A r \in Sides : Reason(r)'
  BY <1>3, ReasonsStay
<1> QED
  BY <1>8, <1>9, <1>10 DEF Explained

LEMMA HandshakeExplained ==
  ASSUME IInv, Explained, NEW s \in Sides, Handshake(s)
  PROVE  Explained'
<1>1. Taken(s) /\ UNCHANGED <<recvSeq, stream, sendSeq, dropped>>
  BY DEF Handshake
<1>2. Types /\ Early
  BY DEF IInv, Explained
<1>3. ASSUME NEW x \in Stages, Moves(s, x)
      PROVE  stage' = [stage EXCEPT ![s] = x] /\ stage'[s] = x
  BY <1>2, <1>3 DEF Moves, Types
<1>4. stage[s] \in {"hello", "proof"} => sendSeq[s] = 0 /\ recvSeq[s] = 0
  BY <1>2 DEF Early, Ready
<1>5. "proof" \in Stages /\ "ready" \in Stages /\ "failed" \in Stages
  BY DEF Stages, Over
<1>6. CASE s = "server" /\ stage[s] = "hello" /\ Moves(s, "proof") /\ Begins(s, "challenge")
  <2>1. stage' = [stage EXCEPT ![s] = "proof"] /\ stage'[s] = "proof"
    BY <1>3, <1>5, <1>6
  <2>2. NextRank(s) = 0 /\ NextRank(s)' = 1 /\ Expect(s) = 0 /\ Expect(s)' = 1
    BY <1>6, <2>1 DEF NextRank, Expect, Ready
  <2>3. \E kind \in {"challenge", "proof"} :
          /\ Begins(s, kind)
          /\ NextRank(s) = (IF kind = "proof" THEN 1 ELSE 0)
          /\ NextRank(s)' = NextRank(s) + 1
    BY <1>6, <2>2
  <2>4. Expect(s)' = Expect(s) + 1 /\ stage[s] \in {"hello", "proof"}
    BY <1>6, <2>2
  <2> QED
    BY <1>1, <2>1, <2>3, <2>4, HandshakeOn
<1>7. CASE s = "client" /\ stage[s] = "hello" /\ Moves(s, "proof") /\ Begins(s, "proof")
  <2>1. stage' = [stage EXCEPT ![s] = "proof"] /\ stage'[s] = "proof"
    BY <1>3, <1>5, <1>7
  <2>2. NextRank(s) = 1 /\ NextRank(s)' = 2 /\ Expect(s) = 0 /\ Expect(s)' = 1
    BY <1>7, <2>1 DEF NextRank, Expect, Ready
  <2>3. \E kind \in {"challenge", "proof"} :
          /\ Begins(s, kind)
          /\ NextRank(s) = (IF kind = "proof" THEN 1 ELSE 0)
          /\ NextRank(s)' = NextRank(s) + 1
    BY <1>7, <2>2
  <2>4. Expect(s)' = Expect(s) + 1 /\ stage[s] \in {"hello", "proof"}
    BY <1>7, <2>2
  <2> QED
    BY <1>1, <2>1, <2>3, <2>4, HandshakeOn
<1>8. CASE s = "server" /\ stage[s] = "proof" /\ Moves(s, "ready") /\ Begins(s, "proof")
  <2>1. stage' = [stage EXCEPT ![s] = "ready"] /\ stage'[s] = "ready"
    BY <1>3, <1>5, <1>8
  <2>2. NextRank(s) = 1 /\ NextRank(s)' = 2 /\ Expect(s) = 1 /\ Expect(s)' = 2
    BY <1>1, <1>4, <1>8, <2>1 DEF NextRank, Expect, Ready
  <2>3. \E kind \in {"challenge", "proof"} :
          /\ Begins(s, kind)
          /\ NextRank(s) = (IF kind = "proof" THEN 1 ELSE 0)
          /\ NextRank(s)' = NextRank(s) + 1
    BY <1>8, <2>2
  <2>4. Expect(s)' = Expect(s) + 1 /\ stage[s] \in {"hello", "proof"}
    BY <1>8, <2>2
  <2> QED
    BY <1>1, <2>1, <2>3, <2>4, HandshakeOn
<1>9. CASE s = "client" /\ stage[s] = "proof" /\ Moves(s, "ready") /\ UNCHANGED sending
  <2>1. stage' = [stage EXCEPT ![s] = "ready"] /\ stage'[s] = "ready"
    BY <1>3, <1>5, <1>9
  <2>2. NextRank(s) = 2 /\ NextRank(s)' = 2 /\ Expect(s) = 1 /\ Expect(s)' = 2
    BY <1>1, <1>4, <1>9, <2>1 DEF NextRank, Expect, Ready
  <2>3. NextRank(s)' = NextRank(s) /\ Expect(s)' = Expect(s) + 1
    BY <2>2
  <2> QED
    BY <1>1, <1>9, <2>1, <2>3, HandshakeOn
<1>10. CASE stage[s] = "proof" /\ Moves(s, "failed") /\ UNCHANGED sending
  <2>1. stage' = [stage EXCEPT ![s] = "failed"] /\ stage'[s] = "failed"
    BY <1>3, <1>5, <1>10
  <2>2. \A r \in Sides \ {s} : stage'[r] = stage[r] /\ taken'[r] = taken[r]
    BY <1>1, <1>2, <2>1 DEF Types, Taken
  <2>3. Peer(s) \in Sides /\ Peer(s) # s /\ Flow
    BY SidesAre DEF Explained
  <2>4. Away(Peer(s))
    BY <1>1, <1>10, <2>2, <2>3 DEF Away
  <2>5. FlowAt(s)' /\ Unwritten(s)
    BY <1>1, <1>10, <2>1, <2>3, FlowStays DEF Flow
  <2>6. ReaderAt(s)'
    BY <2>1 DEF ReaderAt, Over
  <2>7. Flow'
    BY <2>3, <2>4, <2>5, <2>6, UnwrittenStep
  <2>8. Early'
    BY <1>1, <1>2, <1>4, <1>10, <2>1, <2>2 DEF Early
  <2>9. \A r \in Sides : Reason(r)'
    BY <1>1, <2>1, <2>2, ReasonsStay
  <2> QED
    BY <2>7, <2>8, <2>9 DEF Explained
<1> QED
  BY <1>6, <1>7, <1>8, <1>9, <1>10 DEF Handshake

LEMMA SendExplained ==
  ASSUME IInv, Explained, NEW s \in Sides, NEW t \in Senders[s], NEW size \in Sizes,
         Send(s, t, size)
  PROVE  Explained'
<1>1. /\ stage[s] = "ready" \/ stage[s] \in Over \ {"failed"}
      /\ Free(s)
      /\ Begin(s, t, Frame("sealed", secret[s], sendSeq[s], t, size))
      /\ sendSeq' = [sendSeq EXCEPT ![s] = @ + 1]
      /\ UNCHANGED <<stage, taken, recvSeq, stream, dropped>>
  BY DEF Send, reading
<1>2. Types /\ Early /\ Flow /\ Peer(s) \in Sides /\ Peer(s) # s
  BY SidesAre DEF IInv, Explained
<1>3. stage[s] \in Ready /\ stage[s] # "failed"
  BY <1>1 DEF Ready, Over
<1>4. sendSeq[s] \in Nat /\ sendSeq'[s] = sendSeq[s] + 1
      /\ \A r \in Sides \ {s} : sendSeq'[r] = sendSeq[r]
  BY <1>1, <1>2 DEF Types
<1>5. PICK f \in Frames : f.kind # "none" /\ Rank(f) = sendSeq[s] + 2 /\ Begin(s, t, f)
  <2>1. /\ secret[s] \in AllSecrets /\ size \in Nat
        /\ t \in AllSenders \cup {Nobody} /\ "sealed" \in Kinds
    BY <1>2, SidesAre, ChannelAssumption DEF Types, AllSenders, Kinds
  <2>2. Frame("sealed", secret[s], sendSeq[s], t, size) \in Frames
    BY <1>4, <2>1 DEF Frame, Frames
  <2>3. Rank(Frame("sealed", secret[s], sendSeq[s], t, size)) = sendSeq[s] + 2
        /\ Frame("sealed", secret[s], sendSeq[s], t, size).kind # "none"
    BY DEF Rank, Frame
  <2> QED
    BY <1>1, <2>2, <2>3
<1>6. /\ NextRank(s) = sendSeq[s] + 2 /\ NextRank(s)' = NextRank(s) + 1
      /\ NextRank(s) \in Nat
  <2>1. NextRank(s) = sendSeq[s] + 2 /\ NextRank(s)' = sendSeq[s] + 1 + 2
    BY <1>1, <1>3, <1>4 DEF NextRank
  <2> QED
    BY <1>4, <2>1
<1>7. FlowAt(s)' /\ Unwritten(s)
  BY <1>1, <1>2, <1>3, <1>5, <1>6, FlowBegins DEF Flow
<1>8. Away(Peer(s))
  <2>1. sending'[Peer(s)] = sending[Peer(s)]
    BY <1>2, <1>5 DEF Begin, Types
  <2> QED
    BY <1>1, <1>2, <1>4, <2>1 DEF Away
<1>9. Unwritten(Peer(s)) => ReaderAt(s)'
  <2>1. Expect(s)' = Expect(s)
    BY <1>1 DEF Expect
  <2> QED
    BY <1>1, <1>2, <2>1, ReaderStays DEF Flow
<1>10. Flow'
  BY <1>2, <1>7, <1>8, <1>9, UnwrittenStep
<1>11. Early'
  BY <1>1, <1>2, <1>3, <1>4 DEF Early
<1>12. \A r \in Sides : Reason(r)'
  BY <1>1, ReasonsStay
<1> QED
  BY <1>10, <1>11, <1>12 DEF Explained

LEMMA WriteExplained ==
  ASSUME IInv, Explained, NEW s \in Sides, NEW t \in Senders[s], NEW n \in 1 .. MaxFrame + 1,
         Write(s, t, n)
  PROVE  Explained'
<1>1. PICK f \in Frames, d \in Nat : f = sending[s][t].frame /\ d = sending[s][t].done
  BY FramesKnown DEF IInv
<1>2. Types /\ Counts /\ Writers /\ Early /\ Flow /\ Peer(s) \in Sides /\ Peer(s) # s
      /\ Peer(Peer(s)) = s /\ n \in Nat \ {0} /\ sending[s][t] \in Jobs
  BY SidesAre, FramesKnown, ChannelAssumption DEF IInv, Explained
<1>3. /\ Writes(s, t) /\ stage[s] \notin Over
      /\ UNCHANGED <<stage, taken, recvSeq, sendSeq, dropped>>
      /\ \A r \in Sides \ {s} : stream'[r] = stream[r] /\ sending'[r] = sending[r]
  BY <1>2 DEF Write, reading, Types
<1>4. WritesOn(s, t, n, f, d)
  <2>1. d + n <= f.size + 1
    BY <1>1 DEF Write
  <2>2. stream'[s] = stream[s] \o [i \in 1 .. n |-> <<f, d + i - 1>>]
    <3>1. stream' = [stream EXCEPT ![s] = @ \o [i \in 1 .. n |-> <<f, d + i - 1>>]]
      BY <1>1 DEF Write
    <3> QED
      BY <1>2, <3>1 DEF Types
  <2>3. sending' = [sending EXCEPT ![s][t] =
                      IF d + n = f.size + 1 THEN Silent
                      ELSE [sending[s][t] EXCEPT !.done = @ + n]]
    BY <1>1 DEF Write
  <2>4. [sending[s][t] EXCEPT !.done = @ + n] = [frame |-> f, done |-> d + n]
    BY <1>1, <1>2 DEF Jobs
  <2>5. /\ \A u \in Senders[s] \ {t} : sending'[s][u] = sending[s][u]
        /\ sending'[s][t] = IF d + n = f.size + 1 THEN Silent ELSE [frame |-> f, done |-> d + n]
    BY <1>2, <2>3, <2>4 DEF Types
  <2> QED
    BY <1>1, <2>1, <2>2, <2>5 DEF WritesOn
<1>5. stage[s] # "failed"
  BY <1>3 DEF Over
<1>6. NextRank(s)' = NextRank(s) /\ NextRank(s) \in Nat
  <2>1. sendSeq[s] \in Nat
    BY <1>2 DEF Types
  <2> QED
    BY <1>3, <2>1 DEF NextRank
<1>7. /\ FlowAt(s)' /\ stream'[s] \in Seq(Units) /\ stream[s] \in Seq(Units)
      /\ Continued(stream[s], stream'[s], f, d, n)
  BY <1>2, <1>3, <1>4, <1>5, <1>6, FlowWrites DEF Flow
<1>8. Away(Peer(s))
  BY <1>2, <1>3 DEF Away
<1>9. ReaderAt(Peer(s))'
  <2>1. Expect(Peer(s))' = Expect(Peer(s))
    BY <1>3 DEF Expect
  <2> QED
    BY <1>2, <1>3, <1>4, <1>5, <1>7, <2>1, ReaderAwaits DEF Flow
<1>10. ReaderAt(s)'
  <2>1. Expect(s)' = Expect(s) /\ Unwritten(Peer(s))
    BY <1>2, <1>3, <1>8, AwayStays DEF Flow, Expect
  <2> QED
    BY <1>2, <1>3, <2>1, ReaderStays DEF Flow
<1>11. Flow'
  BY <1>2, <1>7, <1>8, <1>9, <1>10, SideStep
<1>12. Early'
  BY <1>2, <1>3 DEF Early
<1>13. ASSUME NEW r \in Sides
       PROVE  Reason(r)'
  <2>1. CASE Peer(r) = s
    <3>1. Len(stream'[s]) = Len(stream[s]) + n /\ Len(stream[s]) \in Nat
          /\ \A i \in 1 .. Len(stream[s]) : stream'[s][i] = stream[s][i]
      BY <1>7, LenProperties DEF Continued
    <3>2. DOMAIN stream[s] = 1 .. Len(stream[s]) /\ DOMAIN stream'[s] = 1 .. Len(stream'[s])
      BY <1>7, LenProperties
    <3>3. \A i \in DOMAIN stream[s] : i \in DOMAIN stream'[s] /\ stream'[s][i] = stream[s][i]
      BY <1>2, <3>1, <3>2
    <3>4. Reason(r)
      BY DEF Explained
    <3>5. ASSUME NEW i \in DOMAIN stream[s], stream[s][i][1].size > MaxFrame - Chunk + 1
          PROVE  \E k \in DOMAIN stream'[s] : stream'[s][k][1].size > MaxFrame - Chunk + 1
      BY <3>3, <3>5
    <3> QED
      BY <1>3, <2>1, <3>4, <3>5 DEF Reason, In
  <2>2. CASE Peer(r) # s
    <3>1. Peer(r) \in Sides /\ stream'[Peer(r)] = stream[Peer(r)]
      BY <1>3, <2>2, SidesAre
    <3> QED
      BY <1>3, <3>1, ReasonStays DEF Explained
  <2> QED
    BY <2>1, <2>2
<1> QED
  BY <1>11, <1>12, <1>13 DEF Explained

(* From here on nothing is promised of what s sends. *)
LEMMA SendFailsExplained ==
  ASSUME IInv, Explained, NEW s \in Sides, NEW t \in Senders[s], SendFails(s, t)
  PROVE  Explained'
<1>1. /\ sending' = [sending EXCEPT ![s][t] = Silent] /\ dropped' = [dropped EXCEPT ![s] = TRUE]
      /\ stage' = IF s = "client" /\ stage[s] = "ready" THEN [stage EXCEPT ![s] = "lost"] ELSE stage
      /\ UNCHANGED <<taken, recvSeq, stream, sendSeq>>
  BY DEF SendFails, reading
<1>2. Types /\ Early /\ Flow /\ Peer(s) \in Sides /\ Peer(s) # s /\ Peer(Peer(s)) = s
  BY SidesAre DEF IInv, Explained
<1>3. /\ dropped'[s] /\ (stage'[s] = stage[s] \/ (stage[s] = "ready" /\ stage'[s] = "lost"))
      /\ \A r \in Sides \ {s} : /\ stage'[r] = stage[r] /\ dropped'[r] = dropped[r]
                                /\ sending'[r] = sending[r]
  BY <1>1, <1>2 DEF Types, Stages
<1>4. "lost" \in Ready /\ "ready" \in Ready /\ "lost" \in Over
  BY DEF Ready, Over
<1>5. dropped'[s]
  BY <1>1, <1>2 DEF Types
<1>6. Away(Peer(s)) /\ Unwritten(Peer(s))
  <2>1. Away(Peer(s))
    BY <1>1, <1>2, <1>3 DEF Away
  <2> QED
    BY <1>2, <2>1, AwayStays DEF Flow
<1>7. FlowAt(s)' /\ ReaderAt(Peer(s))'
  BY <1>2, <1>5 DEF FlowAt, ReaderAt
<1>8. ReaderAt(s)'
  <2>1. stage'[s] \notin Over => stage[s] \notin Over /\ Expect(s)' = Expect(s)
    BY <1>1, <1>3, <1>4 DEF Expect
  <2> QED
    BY <1>1, <1>2, <1>6, <2>1, ReaderStays DEF Flow
<1>9. Flow'
  BY <1>2, <1>6, <1>7, <1>8, SideStep
<1>10. Early'
  BY <1>1, <1>2, <1>3, <1>4 DEF Early
<1>11. ASSUME NEW r \in Sides
       PROVE  Reason(r)'
  <2>1. /\ dropped[Peer(r)] => dropped'[Peer(r)]
        /\ stage'[r] = "broken" => stage[r] = "broken"
    BY <1>3, <1>5, SidesAre
  <2> QED
    BY <1>1, <2>1, ReasonStays DEF Explained
<1> QED
  BY <1>9, <1>10, <1>11 DEF Explained

LEMMA ExplainedFirst == Init => Explained
<1> SUFFICES ASSUME Init
             PROVE  Explained
  OBVIOUS
<1>1. IInv
  BY Initially
<1>2. /\ stage = [s \in Sides |-> IF s = "client" THEN "start" ELSE "hello"]
      /\ sending = [s \in Sides |-> [t \in Senders[s] |-> Silent]]
      /\ stream = [s \in Sides |-> <<>>] /\ dropped = [s \in Sides |-> FALSE]
      /\ taken = [s \in Sides |-> 0]
      /\ sendSeq = [s \in Sides |-> 0] /\ recvSeq = [s \in Sides |-> 0]
  BY DEF Init
<1>3. \A s \in Sides : /\ stage[s] = (IF s = "client" THEN "start" ELSE "hello")
                       /\ stream[s] = <<>> /\ taken[s] = 0 /\ sendSeq[s] = 0 /\ recvSeq[s] = 0
                       /\ \A t \in Senders[s] : sending[s][t] = Silent
  BY <1>2
<1>4. Early
  BY <1>3 DEF Early
<1>5. ASSUME NEW s \in Sides
      PROVE  /\ NextRank(s) = 0 /\ Due(s) = 0 /\ Expect(s) = 0 /\ Free(s)
             /\ \A t \in Senders[s] : sending[s][t].done = 0
             /\ Len(stream[s]) = 0 /\ Starts(stream[s]) = {}
  <2>1. NextRank(s) = 0 /\ Expect(s) = 0
    BY <1>3 DEF NextRank, Expect, Ready
  <2>2. Free(s) /\ \A t \in Senders[s] : sending[s][t].done = 0
    BY <1>3 DEF Free, Writes, Silent
  <2>3. Due(s) = 0
    BY <2>1, <2>2 DEF Due
  <2>4. Len(stream[s]) = 0 /\ Starts(stream[s]) = {}
    BY <1>3 DEF Starts
  <2> QED
    BY <2>1, <2>2, <2>3, <2>4
<1>6. ASSUME NEW s \in Sides
      PROVE  FlowAt(s)
  BY <1>5 DEF FlowAt, Pieces, Numbered, Unfinished, Finished, Writing, Free
<1>7. ASSUME NEW s \in Sides
      PROVE  ReaderAt(s)
  <2>1. taken[s] = 0 /\ Len(In(s)) = 0
    BY <1>3, <1>5, SidesAre DEF In
  <2> QED
    BY <1>5, <2>1, SidesAre DEF ReaderAt
<1>8. \A s \in Sides : Reason(s)
  BY <1>3 DEF Reason
<1> QED
  BY <1>4, <1>6, <1>7, <1>8 DEF Explained, Flow

LEMMA ExplainedNext == IInv /\ Explained /\ [Next]_vars => Explained'
<1> SUFFICES ASSUME IInv, Explained, [Next]_vars
             PROVE  Explained'
  OBVIOUS
<1>1. ASSUME UNCHANGED <<stage, sending, stream, sendSeq, recvSeq, taken, dropped>>
      PROVE  Explained'
  <2>1. Early'
    BY <1>1 DEF Explained, Early
  <2>2. \A s \in Sides : Away(s)
    BY <1>1 DEF Away
  <2>3. \A s \in Sides : FlowAt(s)' /\ Unwritten(s)
    BY <2>2, AwayStays DEF Explained, Flow
  <2>4. \A s \in Sides : ReaderAt(s)'
    BY <2>2, <2>3, AwayStays, SidesAre DEF Explained, Flow
  <2>5. \A s \in Sides : Reason(s)'
    BY <1>1, ReasonsStay
  <2> QED
    BY <2>1, <2>3, <2>4, <2>5 DEF Explained, Flow
<1>2. ASSUME NEW s \in Sides, NEW x \in Over, stage' = [stage EXCEPT ![s] = x], x # "broken",
             x \in Ready <=> stage[s] \in Ready, UNCHANGED <<reading, writing>>
      PROVE  Explained'
  <2>1. UNCHANGED <<sending, stream, sendSeq, recvSeq, taken, dropped>>
    BY <1>2 DEF reading, writing
  <2>2. Early' /\ Flow'
    BY <1>2, <2>1, OverExplained
  <2>3. \A r \in Sides : stage'[r] = "broken" => stage[r] = "broken"
    BY <1>2 DEF IInv, Types, Stages
  <2>4. \A r \in Sides : Reason(r)'
    BY <2>1, <2>3, ReasonsStay
  <2> QED
    BY <2>2, <2>4 DEF Explained
<1>3. CASE Cut \/ UNCHANGED vars
  BY <1>1, <1>3 DEF Cut, vars, reading, writing
<1>4. ASSUME NEW s \in Sides, EndOfStream(s)
      PROVE  Explained'
  <2> DEFINE x == IF stage[s] = "ready" THEN "lost" ELSE "failed"
  <2>1. stage' = [stage EXCEPT ![s] = x] /\ UNCHANGED <<reading, writing>>
        /\ stage[s] \in {"hello", "proof", "ready"}
    BY <1>4 DEF EndOfStream, Waits
  <2>2. x \in Over /\ x # "broken" /\ (x \in Ready <=> stage[s] \in Ready)
    BY <2>1 DEF Over, Ready
  <2> HIDE DEF x
  <2> QED
    BY <1>2, <2>1, <2>2
<1>5. ASSUME NEW s \in Sides, Close(s)
      PROVE  Explained'
  <2>1. "closed" \in Over /\ "closed" \in Ready /\ "ready" \in Ready
    BY DEF Over, Ready
  <2> QED
    BY <1>2, <1>5, <2>1 DEF Close
<1>6. ASSUME NEW s \in Sides, TimedOut(s)
      PROVE  Explained'
  <2>1. /\ "failed" \in Over /\ "failed" \notin Ready
        /\ "hello" \notin Ready /\ "proof" \notin Ready
    BY DEF Over, Ready
  <2>2. stage[s] \notin Ready
    BY <1>6, <2>1 DEF TimedOut
  <2> QED
    BY <1>2, <1>6, <2>1, <2>2 DEF TimedOut, Moves
<1>7. CASE Hello
  BY <1>7, HelloExplained
<1>8. ASSUME NEW s \in Sides, NEW n \in 1 .. Chunk, Recv(s, n)
      PROVE  Explained'
  BY <1>8, RecvExplained
<1>9. ASSUME NEW s \in Sides, Receive(s) \/ Handshake(s)
      PROVE  Explained'
  BY <1>9, ReceiveExplained, HandshakeExplained
<1>10. ASSUME NEW s \in Sides, NEW t \in Senders[s], NEW size \in Sizes, Send(s, t, size)
       PROVE  Explained'
  BY <1>10, SendExplained
<1>11. ASSUME NEW s \in Sides, NEW t \in Senders[s], NEW n \in 1 .. MaxFrame + 1, Write(s, t, n)
       PROVE  Explained'
  BY <1>11, WriteExplained
<1>12. ASSUME NEW s \in Sides, NEW t \in Senders[s], SendFails(s, t)
       PROVE  Explained'
  BY <1>12, SendFailsExplained
<1> QED
  BY <1>3, <1>4, <1>5, <1>6, <1>7, <1>8, <1>9, <1>10, <1>11, <1>12 DEF Next

(* Whatever the pieces in which the frames travel and the threads that     *)
(* write them: Receive() finds every frame again and opens it, and gives   *)
(* up on a connection only for a frame the other side has failed to send,  *)
(* or for one that is legal and too long for the buffer (ReceiveFrame).    *)
THEOREM BrokenOnlyForAReason == Spec => []BrokenForAReason
<1>1. ASSUME Explained
      PROVE  BrokenForAReason
  BY <1>1 DEF Explained, Reason, BrokenForAReason
<1>2. Init => Explained
  BY ExplainedFirst
<1>3. IInv /\ Explained /\ [Next]_vars => Explained'
  BY ExplainedNext
<1> QED
  BY <1>1, <1>2, <1>3, Invariant, PTL DEF Spec
=============================================================================
