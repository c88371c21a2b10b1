------------------------------ MODULE Channel -------------------------------
(***************************************************************************)
(* A secure channel over one connection between an agent (the client) and  *)
(* the controller (the server): the handshake, the frames both sides write *)
(* piece by piece from several threads, and the buffer from which they are *)
(* read in other pieces.  A frame is one unit of length and as many units  *)
(* of body as its size says.  Cryptography is symbolic: a proof is checked *)
(* against the secret of the one who checks it, and a frame opens under    *)
(* the secret, direction and number it was sealed with; the nonces of the  *)
(* handshake make every connection a world of its own.  The connection is  *)
(* in order (TCP) until it is cut, and nobody but its two ends writes into *)
(* it.                                                                     *)
(***************************************************************************)
EXTENDS Naturals, Sequences

CONSTANTS
  Senders,    \* the threads that send, for each side
  Receiver,   \* the one of them that also receives
  Nobody,     \* no thread
  Secrets,    \* the secrets long enough to be used
  Short,      \* one that is not
  MaxFrame,   \* kMaxFrame
  Chunk,      \* the size of ReceiveFrame()'s buffer
  Sizes,      \* the sizes of the frames of messages
  MaxSays     \* bound: messages sealed on each side

Sides == {"client", "server"}
Peer(s) == IF s = "client" THEN "server" ELSE "client"

ASSUME ChannelAssumption ==
  /\ \A s \in Sides : Receiver[s] \in Senders[s] /\ Nobody \notin Senders[s]
  /\ Short \notin Secrets
  /\ Chunk \in Nat \ {0} /\ MaxFrame \in Nat \ {0} /\ Sizes \subseteq Nat
  /\ MaxSays \in Nat

VARIABLES
  secret,   \* the secret each side was configured with
  stage,    \* where each side is
  sending,  \* the frame each thread is writing, and how many of its units are out
  stream,   \* every unit each side has written
  arrived,  \* how many of the other side's units each side has read from the socket
  taken,    \* how many of these are out of rxBuffer_
  sendSeq,  \* sendSeq_
  recvSeq,  \* recvSeq_
  cut,      \* the connection is broken
  said,     \* history: what each side has sealed
  heard,    \* history: what each side's Receive() has returned
  dropped   \* history: a SendFrame() of this side has failed

reading == <<arrived, taken, recvSeq, heard>>
writing == <<sending, stream, sendSeq, said, dropped>>
vars    == <<secret, stage, cut, reading, writing>>

AllSecrets == Secrets \cup {Short}
Over == {"failed", "closed", "lost", "broken"}

Frame(kind, k, seq, m, size) == [kind |-> kind, secret |-> k, seq |-> seq, msg |-> m, size |-> size]
Plain(kind, k) == Frame(kind, k, 0, Nobody, 1)

Silent == [frame |-> Plain("none", Short), done |-> 0]

Init ==
  /\ secret \in [Sides -> AllSecrets] /\ secret["server"] # Short
  /\ stage = [s \in Sides |-> IF s = "client" THEN "start" ELSE "hello"]
  /\ sending = [s \in Sides |-> [t \in Senders[s] |-> Silent]]
  /\ stream = [s \in Sides |-> <<>>]
  /\ arrived = [s \in Sides |-> 0] /\ taken = [s \in Sides |-> 0]
  /\ sendSeq = [s \in Sides |-> 0] /\ recvSeq = [s \in Sides |-> 0]
  /\ cut = FALSE
  /\ said = [s \in Sides |-> <<>>] /\ heard = [s \in Sides |-> <<>>]
  /\ dropped = [s \in Sides |-> FALSE]

Cut == ~cut /\ cut' = TRUE /\ UNCHANGED <<secret, stage, reading, writing>>

-----------------------------------------------------------------------------
(* Sending.                                                                *)

(* A thread has a frame to write. *)
Writes(s, t) == sending[s][t] # Silent

(* SendFrame() begins. *)
Begin(s, t, f) == sending' = [sending EXCEPT ![s][t] = [frame |-> f, done |-> 0]]

(* Mutant: nothing keeps two threads from writing at once. *)
Unlocked(s) == TRUE

(* sendMutex_ is free. *)
Free(s) == \A t \in Senders[s] : ~Writes(s, t)

(* Mutant: a message takes the number of the one before it. *)
SendUnnumbered(s, t, size) ==
  /\ stage[s] = "ready" \/ (t # Receiver[s] /\ stage[s] \in Over \ {"failed"})
  /\ Free(s) /\ Len(said[s]) < MaxSays
  /\ Begin(s, t, Frame("sealed", secret[s], sendSeq[s], t, size))
  /\ said' = [said EXCEPT ![s] = Append(@, t)]
  /\ UNCHANGED <<secret, stage, cut, reading, stream, sendSeq, dropped>>

(* Send(): the message is sealed under the next number, which is used up   *)
(* whatever becomes of the frame.  A thread that does not receive may send *)
(* after the one that does has closed the socket.                          *)
Send(s, t, size) ==
  /\ stage[s] = "ready" \/ (t # Receiver[s] /\ stage[s] \in Over \ {"failed"})
  /\ Free(s) /\ Len(said[s]) < MaxSays
  /\ Begin(s, t, Frame("sealed", secret[s], sendSeq[s], t, size))
  /\ sendSeq' = [sendSeq EXCEPT ![s] = @ + 1]
  /\ said' = [said EXCEPT ![s] = Append(@, t)]
  /\ UNCHANGED <<secret, stage, cut, reading, stream, dropped>>

(* send() accepts the next n units. *)
Write(s, t, n) ==
  LET w == sending[s][t]
  IN  /\ Writes(s, t) /\ ~cut /\ stage[s] \notin Over
      /\ w.frame.size <= MaxFrame /\ w.done + n <= w.frame.size + 1
      /\ stream' = [stream EXCEPT ![s] = @ \o [i \in 1 .. n |-> <<w.frame, w.done + i - 1>>]]
      /\ sending' = [sending EXCEPT ![s][t] =
                       IF w.done + n = w.frame.size + 1 THEN Silent ELSE [w EXCEPT !.done = @ + n]]
      /\ UNCHANGED <<secret, stage, cut, reading, sendSeq, said, dropped>>

(* SendFrame() refuses the frame, or send() fails for good, as it does on  *)
(* a socket that was closed and whose handle is free.  The agent's session *)
(* ends there (Coordination.cpp:146, :158, :180), the controller does not  *)
(* look (controller/main.cpp:129, :265).                                   *)
SendFails(s, t) ==
  /\ Writes(s, t)
  /\ \/ sending[s][t].frame.size > MaxFrame /\ UNCHANGED cut
     \/ (cut \/ stage[s] \in Over \/ stage[Peer(s)] \in Over) /\ cut' = TRUE
  /\ sending' = [sending EXCEPT ![s][t] = Silent]
  /\ dropped' = [dropped EXCEPT ![s] = TRUE]
  /\ stage' = IF s = "client" /\ stage[s] = "ready" THEN [stage EXCEPT ![s] = "lost"] ELSE stage
  /\ UNCHANGED <<secret, reading, stream, sendSeq, said>>

-----------------------------------------------------------------------------
(* Receiving: ReceiveFrame(), whose buffer outlives its time-outs.         *)

In(s) == stream[Peer(s)]
Waits(s) == stage[s] \in {"hello", "proof", "ready"} /\ ~Writes(s, Receiver[s])
Buffered(s) == arrived[s] - taken[s]

(* The length at the front of the buffer, and whether a frame is there.    *)
Front(s) == In(s)[taken[s] + 1]
Complete(s) == Buffered(s) > 0 /\ Buffered(s) >= Front(s)[1].size + 1

(* Mutant: the length is not counted. *)
TooFullWithLength(n) == n > MaxFrame

TooFull(n) == n > MaxFrame + 1

(* recv() returns the next n units of those on their way. *)
Recv(s, n) ==
  /\ Waits(s) /\ ~Complete(s)
  /\ arrived[s] + n <= Len(In(s))
  /\ arrived' = [arrived EXCEPT ![s] = @ + n]
  /\ stage' = IF TooFull(Buffered(s) + n)
              THEN [stage EXCEPT ![s] = IF @ = "ready" THEN "broken" ELSE "failed"] ELSE stage
  /\ UNCHANGED <<secret, cut, taken, recvSeq, heard, writing>>

(* recv() returns nothing: the connection is cut, or the other end closed, *)
(* perhaps before all it had sent was read.                                *)
EndOfStream(s) ==
  /\ Waits(s) /\ ~Complete(s) /\ (cut \/ stage[Peer(s)] \in Over)
  /\ stage' = [stage EXCEPT ![s] = IF @ = "ready" THEN "lost" ELSE "failed"]
  /\ UNCHANGED <<secret, cut, reading, writing>>

(* The frame f is at the front of the buffer, whole.                       *)
Whole(s, f) ==
  /\ f = Front(s)[1]
  /\ \A i \in 0 .. f.size : In(s)[taken[s] + 1 + i] = <<f, i>>

(* It is taken out. *)
Taken(s) == /\ Waits(s) /\ Complete(s)
            /\ taken' = [taken EXCEPT ![s] = @ + Front(s)[1].size + 1]
            /\ UNCHANGED <<secret, cut, arrived>>

Opens(s, f) == Whole(s, f) /\ f.kind = "sealed" /\ f.secret = secret[s] /\ f.seq = recvSeq[s]

(* Receive() of a session. *)
Receive(s) ==
  /\ stage[s] = "ready" /\ Taken(s)
  /\ LET f == Front(s)[1]
     IN  IF Opens(s, f)
         THEN /\ heard' = [heard EXCEPT ![s] = Append(@, f.msg)]
              /\ recvSeq' = [recvSeq EXCEPT ![s] = @ + 1]
              /\ UNCHANGED stage
         ELSE stage' = [stage EXCEPT ![s] = "broken"] /\ UNCHANGED <<recvSeq, heard>>
  /\ UNCHANGED writing

(* Session() is stopped, the controller quits. *)
Close(s) ==
  /\ stage[s] = "ready" /\ ~Writes(s, Receiver[s])
  /\ stage' = [stage EXCEPT ![s] = "closed"]
  /\ UNCHANGED <<secret, cut, reading, writing>>

-----------------------------------------------------------------------------
(* The handshake, each step of which waits for five seconds.               *)

Begins(s, kind) == Begin(s, Receiver[s], Plain(kind, secret[s]))

Moves(s, to) == stage' = [stage EXCEPT ![s] = to]

Hello ==
  /\ stage["client"] = "start"
  /\ IF secret["client"] = Short THEN Moves("client", "failed") /\ UNCHANGED sending
     ELSE Moves("client", "hello") /\ Begins("client", "hello")
  /\ UNCHANGED <<secret, cut, reading, stream, sendSeq, said, dropped>>

(* Mutant: the controller's proof comes before the agent's is looked at. *)
ProvesAnyway(s, kind) == Whole(s, Front(s)[1]) /\ Front(s)[1].kind = kind

Proves(s, kind) ==
  Whole(s, Front(s)[1]) /\ Front(s)[1].kind = kind /\ Front(s)[1].secret = secret[s]

(* ServerHandshake() answers a hello with a challenge and a proof with its *)
(* own, ClientHandshake() a challenge with its proof.                      *)
Handshake(s) ==
  /\ Taken(s)
  /\ \/ /\ s = "server" /\ stage[s] = "hello"
        /\ Moves(s, "proof") /\ Begins(s, "challenge")
     \/ /\ s = "client" /\ stage[s] = "hello"
        /\ Moves(s, "proof") /\ Begins(s, "proof")
     \/ /\ s = "server" /\ stage[s] = "proof"
        /\ IF Proves(s, "proof") THEN Moves(s, "ready") /\ Begins(s, "proof")
           ELSE Moves(s, "failed") /\ UNCHANGED sending
     \/ /\ s = "client" /\ stage[s] = "proof"
        /\ IF Proves(s, "proof") THEN Moves(s, "ready") ELSE Moves(s, "failed")
        /\ UNCHANGED sending
  /\ UNCHANGED <<recvSeq, heard, stream, sendSeq, said, dropped>>

(* No frame in five seconds. *)
TimedOut(s) ==
  /\ stage[s] \in {"hello", "proof"} /\ Waits(s) /\ ~Complete(s)
  /\ Moves(s, "failed")
  /\ UNCHANGED <<secret, cut, reading, writing>>

Next ==
  \/ Cut \/ Hello
  \/ \E s \in Sides :
       \/ \E n \in 1 .. Chunk : Recv(s, n)
       \/ EndOfStream(s) \/ Receive(s) \/ Close(s) \/ Handshake(s) \/ TimedOut(s)
       \/ \E t \in Senders[s] :
            \/ \E size \in Sizes : Send(s, t, size)
            \/ \E n \in 1 .. MaxFrame + 1 : Write(s, t, n)
            \/ SendFails(s, t)

Spec == Init /\ [][Next]_vars

-----------------------------------------------------------------------------
(* Every variable stays in its range; one thread of a side writes at a     *)
(* time.                                                                   *)
TypeOK ==
  /\ secret \in [Sides -> AllSecrets]
  /\ stage \in [Sides -> {"start", "hello", "proof", "ready"} \cup Over]
  /\ \A s \in Sides :
       /\ \A t, u \in Senders[s] : Writes(s, t) /\ Writes(s, u) => t = u
       /\ taken[s] <= arrived[s] /\ arrived[s] <= Len(In(s))
       /\ sendSeq[s] = Len(said[s]) /\ recvSeq[s] = Len(heard[s])
  /\ cut \in BOOLEAN /\ dropped \in [Sides -> BOOLEAN]

(* What has been heard is what was said, in its order, without a gap and   *)
(* nothing twice, between holders of one secret: whatever the pieces in    *)
(* which the frames travel, the threads that send, and the end the         *)
(* connection takes.                                                       *)
Ordered == INSTANCE OrderedChannel
  WITH Messages <- Senders["client"] \cup Senders["server"],
       Secrets <- AllSecrets, over <- [s \in Sides |-> stage[s] \in Over]

InOrder == Ordered!Spec

(* A side is ready only when the other holds the secret: the controller    *)
(* when it has seen the agent's proof, which may have given up by then,    *)
(* and the agent when it has seen the controller's (SecureChannel.h:23).   *)
MutuallyAuthenticated ==
  /\ \A s \in Sides : stage[s] = "ready" => secret["client"] = secret["server"]
  /\ stage["client"] = "ready" => stage["server"] \notin {"hello", "proof", "failed"}

(* Frames are found again in whatever pieces they come: Receive() gives up *)
(* on a connection that is neither closed nor cut (SecureChannel.h:45)     *)
(* only if a Send() of the other side has failed, or if a frame came that  *)
(* is legal but too long to be read beside the beginning of the next one.  *)
BrokenForAReason ==
  \A s \in Sides :
    stage[s] = "broken" =>
      dropped[Peer(s)] \/ \E i \in DOMAIN In(s) : In(s)[i][1].size > MaxFrame - Chunk + 1
=============================================================================
