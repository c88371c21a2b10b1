-------------------------- MODULE Coordination_proofs --------------------------
(***************************************************************************)
(* Proofs about multi-server coordination, for any servers, connections,   *)
(* cluster percentage and bounds.                                          *)
(***************************************************************************)
EXTENDS Coordination, SequenceTheorems, TLAPS

-----------------------------------------------------------------------------
(* The inductive invariant.                                                *)

(* The local variables of Rebalance(). *)
Locals == [todo : SUBSET Conns, bias : BOOLEAN, telling : Conns \cup {NoConn}]

Messages == {"proof", "bias", "no_bias"}

Types ==
  /\ agent \in [Hosts -> {"apart", "handshake", "session"}]
  /\ conn \in [Hosts -> Conns \cup {NoConn}]
  /\ bias \in [Hosts -> BOOLEAN]
  /\ DOMAIN down = Conns
  /\ \A c \in Conns : down[c] \in Seq(Messages) /\ Len(down[c]) <= QueueCap
  /\ serve \in [Conns -> {"none", "handshake", "serving", "rebalance", "computing", "telling"}]
  /\ leaving \subseteq Rebalancing
  /\ heartbeat \in [Conns -> {"none", "hot", "cool"}]
  /\ sent \in [Conns -> BOOLEAN]
  /\ agents \in [Hosts -> Conns \cup {NoConn}]
  /\ round \in [Conns -> Locals]
  /\ crashed \in BOOLEAN /\ overlapped \in BOOLEAN

(* An agent has a connection of its own host unless it is apart, and a     *)
(* bias only in a session.                                                 *)
Ends ==
  \A h \in Hosts :
    /\ agent[h] = "apart" <=> conn[h] = NoConn
    /\ conn[h] # NoConn => Host(conn[h]) = h
    /\ agent[h] # "session" => ~bias[h]

(* The table holds each host's agent, and none whose thread has ended or   *)
(* is past its receive loop.                                               *)
Table ==
  \A h \in Hosts : agents[h] # NoConn =>
    /\ Host(agents[h]) = h
    /\ serve[agents[h]] \notin {"none", "handshake"} /\ agents[h] \notin leaving

(* Before it is registered an agent is nobody's business.                  *)
Handshakes ==
  \A c \in Conns : serve[c] = "handshake" =>
    ~sent[c] /\ down[c] = <<>> /\ \A d \in Conns : c \notin round[d].todo

(* A thread tells somebody only while it rebalances, and one of its        *)
(* snapshot.                                                               *)
Rounds ==
  \A c \in Conns : round[c].telling # NoConn =>
    /\ serve[c] = "telling" /\ round[c].telling \in round[c].todo

(* The bias the agent behind c will have once it has read everything.      *)
Told(c) == IF down[c] = <<>> THEN bias[Host(c)] ELSE down[c][Len(down[c])] = "bias"

(* While no two threads rebalance at once: there is one at most, what it   *)
(* is telling is what it has marked, and every other mark is what the      *)
(* agent has been told.                                                    *)
Remembered ==
  ~overlapped =>
    /\ \A c, d \in Rebalancing : c = d
    /\ \A c \in Conns : round[c].telling # NoConn => sent[round[c].telling] = round[c].bias
    /\ \A c \in Conns : Listening(c) /\ serve[c] \notin {"none", "handshake"} =>
         sent[c] = Told(c) \/ \E d \in Conns : round[d].telling = c

IInv == Types /\ Ends /\ Table /\ Handshakes /\ Rounds /\ Remembered

-----------------------------------------------------------------------------
(* Helpers.                                                                *)

LEMMA IdleIs ==
  Idle \in Locals
BY DEF Idle, Locals

(* Channel::Receive() takes the head, and leaves the last message if there *)
(* is another one.                                                         *)
LEMMA Received ==
  ASSUME Types, NEW c \in Conns, NEW m, Receive(c, m)
  PROVE  /\ DOMAIN down' = Conns
         /\ \A d \in Conns \ {c} : down'[d] = down[d]
         /\ m \in Messages /\ m = down[c][1] /\ down[c] # <<>>
         /\ down'[c] \in Seq(Messages) /\ Len(down'[c]) <= QueueCap
         /\ down'[c] = <<>> => m = down[c][Len(down[c])]
         /\ down'[c] # <<>> => down'[c][Len(down'[c])] = down[c][Len(down[c])]
<1>1. /\ down[c] \in Seq(Messages) /\ down[c] # <<>> /\ Len(down[c]) <= QueueCap
      /\ m = Head(down[c]) /\ down' = [down EXCEPT ![c] = Tail(@)] /\ DOMAIN down = Conns
  BY DEF Receive, Types
<1>2. down'[c] = Tail(down[c])
  BY <1>1
<1>3. /\ Head(down[c]) = down[c][1] /\ down[c][1] \in Messages
      /\ Tail(down[c]) \in Seq(Messages) /\ Len(Tail(down[c])) = Len(down[c]) - 1
      /\ \A i \in 1 .. Len(down[c]) - 1 : Tail(down[c])[i] = down[c][i + 1]
      /\ Len(down[c]) \in Nat \ {0}
  BY <1>1, HeadTailProperties, EmptySeq, LenProperties
<1>4. Tail(down[c]) = <<>> <=> Len(down[c]) = 1
  <2>1. \A q \in Seq(Messages) : q = <<>> <=> Len(q) = 0
    BY EmptySeq
  <2>2. Tail(down[c]) = <<>> <=> Len(Tail(down[c])) = 0
    BY <1>3, <2>1
  <2> QED
    BY <1>3, <2>2
<1>5. QueueCap \in Nat
  BY CoordinationAssumption
<1>6. /\ Tail(down[c]) = <<>> => Head(down[c]) = down[c][Len(down[c])]
      /\ Tail(down[c]) # <<>> =>
           Tail(down[c])[Len(Tail(down[c]))] = down[c][Len(down[c])]
  <2>1. Tail(down[c]) # <<>> => Len(down[c]) - 1 \in 1 .. Len(down[c]) - 1
    BY <1>3, <1>4
  <2> QED
    BY <1>3, <1>4, <2>1
<1>7. Len(Tail(down[c])) <= QueueCap
  BY <1>1, <1>3, <1>5
<1> HIDE DEF Messages
<1> QED
  BY <1>1, <1>2, <1>3, <1>6, <1>7

(* Channel::Send() appends, where somebody listens. *)
LEMMA Sent ==
  ASSUME Types, NEW c \in Conns, NEW m \in Messages, Send(c, m),
         Listening(c) => Len(down[c]) < QueueCap
  PROVE  /\ DOMAIN down' = Conns
         /\ \A d \in Conns \ {c} : down'[d] = down[d]
         /\ ~Listening(c) => down' = down
         /\ down'[c] \in Seq(Messages) /\ Len(down'[c]) <= QueueCap
         /\ Listening(c) => down'[c] # <<>> /\ down'[c][Len(down'[c])] = m
<1>1. down[c] \in Seq(Messages) /\ Len(down[c]) <= QueueCap /\ DOMAIN down = Conns
  BY DEF Types
<1>2. CASE Listening(c)
  <2>1. down' = [down EXCEPT ![c] = Append(@, m)] /\ down'[c] = Append(down[c], m)
    BY <1>1, <1>2 DEF Send
  <2>2. /\ Append(down[c], m) \in Seq(Messages) /\ Append(down[c], m) # <<>>
        /\ Len(Append(down[c], m)) = Len(down[c]) + 1
        /\ Append(down[c], m)[Len(down[c]) + 1] = m
    BY <1>1, AppendProperties
  <2>3. Len(down[c]) \in Nat /\ QueueCap \in Nat
    BY <1>1, LenProperties, CoordinationAssumption
  <2> QED
    BY <1>1, <1>2, <2>1, <2>2, <2>3
<1>3. CASE ~Listening(c)
  BY <1>1, <1>3 DEF Send
<1> QED
  BY <1>2, <1>3

-----------------------------------------------------------------------------
(* The agent's steps.                                                      *)

(* A connection begins afresh: nothing is on its way, nobody has marked it *)
(* and no thread is about to tell it anything.                             *)
LEMMA ConnectStep ==
  ASSUME IInv, NEW h \in Hosts, NEW c \in Conns, Connect(h, c)
  PROVE  IInv'
<1>1. /\ agent[h] = "apart" /\ Host(c) = h /\ serve[c] = "none"
      /\ \A g \in Hosts : conn[g] # c
      /\ \A d \in Conns : c \notin round[d].todo /\ round[d].telling # c
      /\ agent' = [agent EXCEPT ![h] = "handshake"]
      /\ conn' = [conn EXCEPT ![h] = c]
      /\ down' = [down EXCEPT ![c] = <<>>]
      /\ serve' = [serve EXCEPT ![c] = "handshake"]
      /\ heartbeat' = [heartbeat EXCEPT ![c] = "none"]
      /\ sent' = [sent EXCEPT ![c] = FALSE]
      /\ UNCHANGED <<bias, leaving, agents, round, crashed, overlapped>>
  BY DEF Connect, Free
<1>2. Rebalancing' = Rebalancing /\ c \notin Rebalancing /\ c \notin leaving
  BY <1>1 DEF IInv, Types, Rebalancing
<1>3. c # NoConn
  BY CoordinationAssumption
<1>4. Types'
  <2>1. <<>> \in Seq(Messages) /\ Len(<<>>) = 0 /\ QueueCap \in Nat
    BY EmptySeq, CoordinationAssumption
  <2>2. \A d \in Conns : down'[d] \in Seq(Messages) /\ Len(down'[d]) <= QueueCap
    BY <1>1, <2>1 DEF IInv, Types
  <2> QED
    BY <1>1, <1>2, <2>2 DEF IInv, Types
<1>5. Ends'
  BY <1>1, <1>3 DEF IInv, Types, Ends
<1>6. Table'
  BY <1>1 DEF IInv, Types, Table
<1>7. Handshakes'
  BY <1>1 DEF IInv, Types, Handshakes
<1>8. Rounds'
  BY <1>1 DEF IInv, Types, Rounds
<1>9. Remembered'
  <2>1. \A d \in Conns \ {c} : /\ serve'[d] = serve[d] /\ sent'[d] = sent[d] /\ down'[d] = down[d]
    BY <1>1 DEF IInv, Types
  <2>2. serve'[c] = "handshake"
    BY <1>1 DEF IInv, Types
  <2>3. \A d \in Conns \ {c} : Listening(d)' => Listening(d)
    BY <1>1 DEF IInv, Types, Listening
  <2>4. \A d \in Conns \ {c} : Told(d)' = Told(d)
    BY <1>1, <2>1 DEF Told
  <2>5. \A d \in Conns : round[d].telling \in Conns \cup {NoConn} /\ round[d].telling # c
    BY <1>1 DEF IInv, Types, Locals
  <2>6. UNCHANGED <<overlapped, round>> /\ c \notin Rebalancing
    BY <1>1, <1>2
  <2>7. ASSUME ~overlapped, NEW d \in Conns, round[d].telling # NoConn
        PROVE  sent'[round[d].telling] = round[d].bias
    <3>1. round[d].telling \in Conns \ {c} /\ sent[round[d].telling] = round[d].bias
      BY <2>5, <2>7 DEF IInv, Remembered
    <3> QED
      BY <2>1, <3>1
  <2>8. ASSUME ~overlapped, NEW d \in Conns, Listening(d)', serve'[d] \notin {"none", "handshake"}
        PROVE  sent'[d] = Told(d)' \/ \E e \in Conns : round[e].telling = d
    <3>1. d # c
      BY <2>2, <2>8
    <3>2. Listening(d) /\ serve[d] \notin {"none", "handshake"}
      BY <2>1, <2>3, <2>8, <3>1
    <3>3. sent[d] = Told(d) \/ \E e \in Conns : round[e].telling = d
      BY <2>8, <3>2 DEF IInv, Remembered
    <3> QED
      BY <2>1, <2>4, <3>1, <3>3
  <2> QED
    BY <1>2, <2>6, <2>7, <2>8 DEF IInv, Remembered
<1> QED
  BY <1>4, <1>5, <1>6, <1>7, <1>8, <1>9 DEF IInv

(* An agent reads: what it has read and what is left add up to the same. *)
LEMMA ReadsStep ==
  ASSUME IInv, NEW h \in Hosts, SessionBegins(h) \/ ReceiveBias(h)
  PROVE  IInv'
<1> DEFINE c == conn[h]
<1>1. c \in Conns /\ Host(c) = h /\ agent[h] # "apart"
  BY DEF SessionBegins, ReceiveBias, IInv, Types, Ends
<1>2. PICK m : /\ Receive(c, m)
               /\ \/ /\ agent[h] = "handshake" /\ m = "proof"
                     /\ bias' = bias
                     /\ agent' = [agent EXCEPT ![h] = "session"]
                  \/ /\ agent[h] = "session" /\ m \in {"bias", "no_bias"}
                     /\ bias' = [bias EXCEPT ![h] = m = "bias"]
                     /\ agent' = agent
  BY DEF SessionBegins, ReceiveBias
<1>3. UNCHANGED <<conn, serve, leaving, heartbeat, sent, agents, round, crashed, overlapped>>
  BY DEF SessionBegins, ReceiveBias, server
<1>4. /\ DOMAIN down' = Conns
      /\ \A d \in Conns \ {c} : down'[d] = down[d]
      /\ down[c] # <<>>
      /\ down'[c] \in Seq(Messages) /\ Len(down'[c]) <= QueueCap
      /\ down'[c] = <<>> => m = down[c][Len(down[c])]
      /\ down'[c] # <<>> => down'[c][Len(down'[c])] = down[c][Len(down[c])]
  BY <1>1, <1>2, Received DEF IInv
<1> HIDE DEF c
<1>5. Rebalancing' = Rebalancing
  BY <1>3 DEF Rebalancing
<1>6. Types'
  <2>1. \A d \in Conns : down'[d] \in Seq(Messages) /\ Len(down'[d]) <= QueueCap
    BY <1>4 DEF IInv, Types
  <2>2. agent' \in [Hosts -> {"apart", "handshake", "session"}] /\ bias' \in [Hosts -> BOOLEAN]
    BY <1>2 DEF IInv, Types
  <2> QED
    BY <1>3, <1>4, <1>5, <2>1, <2>2 DEF IInv, Types
<1>7. Ends'
  BY <1>1, <1>2, <1>3 DEF c, IInv, Types, Ends
<1>8. Table' /\ Rounds'
  BY <1>3 DEF IInv, Table, Rounds
<1>9. Handshakes'
  BY <1>3, <1>4 DEF IInv, Handshakes
<1>10. Remembered'
  <2>1. ASSUME NEW d \in Conns, Listening(d)
        PROVE  Listening(d)' /\ Told(d)' = Told(d)
    <3>1. CASE d = c
      <4>1. bias[h] \in BOOLEAN /\ (agent[h] = "handshake" => ~bias[h])
        BY DEF IInv, Types, Ends
      <4>2. down'[c] = <<>> => bias'[h] = (m = "bias")
        BY <1>2, <4>1 DEF IInv, Types
      <4>3. Listening(d)'
        BY <1>3, <2>1 DEF Listening
      <4>4. Told(d) = (down[c][Len(down[c])] = "bias")
        BY <1>4, <3>1 DEF Told
      <4>5. Told(d)' = (down[c][Len(down[c])] = "bias")
        BY <1>1, <1>4, <3>1, <4>2 DEF Told
      <4> QED
        BY <4>3, <4>4, <4>5
    <3>2. CASE d # c
      <4>1. Host(d) # h
        BY <2>1, <3>2 DEF Listening, c
      <4>2. bias'[Host(d)] = bias[Host(d)]
        BY <1>2, <4>1, CoordinationAssumption DEF IInv, Types
      <4> QED
        BY <2>1, <1>3, <1>4, <3>2, <4>2 DEF Told, Listening
    <3> QED
      BY <3>1, <3>2
  <2>2. \A d \in Conns : Listening(d)' => Listening(d)
    BY <1>3 DEF Listening
  <2> QED
    BY <1>3, <1>5, <2>1, <2>2 DEF IInv, Remembered
<1> QED
  BY <1>6, <1>7, <1>8, <1>9, <1>10 DEF IInv

LEMMA SessionEndsStep ==
  ASSUME IInv, NEW h \in Hosts, SessionEnds(h)
  PROVE  IInv'
<1> DEFINE c == conn[h]
<1>1. c \in Conns /\ Host(c) = h
  BY DEF SessionEnds, IInv, Types, Ends
<1>2. /\ agent' = [agent EXCEPT ![h] = "apart"] /\ conn' = [conn EXCEPT ![h] = NoConn]
      /\ bias' = [bias EXCEPT ![h] = FALSE] /\ down' = [down EXCEPT ![c] = <<>>]
      /\ UNCHANGED <<serve, leaving, heartbeat, sent, agents, round, crashed, overlapped>>
  BY DEF SessionEnds, server
<1>3. Rebalancing' = Rebalancing
  BY <1>2 DEF Rebalancing
<1>4. Types'
  <2>1. <<>> \in Seq(Messages) /\ Len(<<>>) = 0 /\ QueueCap \in Nat
    BY EmptySeq, CoordinationAssumption
  <2>2. DOMAIN down' = Conns /\ \A d \in Conns : down'[d] \in Seq(Messages) /\ Len(down'[d]) <= QueueCap
    BY <1>1, <1>2, <2>1 DEF IInv, Types
  <2> QED
    BY <1>2, <1>3, <2>2 DEF IInv, Types
<1>5. Ends'
  BY <1>2 DEF IInv, Types, Ends
<1>6. Table' /\ Rounds'
  BY <1>2 DEF IInv, Table, Rounds
<1>7. Handshakes'
  BY <1>1, <1>2 DEF IInv, Types, Handshakes
<1>8. Remembered'
  <2>1. ASSUME NEW d \in Conns, Listening(d)'
        PROVE  Listening(d) /\ Told(d)' = Told(d)
    <3>1. Host(d) # h
      <4>1. conn'[h] = NoConn /\ d # NoConn
        BY <1>2, CoordinationAssumption DEF IInv, Types
      <4> QED
        BY <2>1, <4>1 DEF Listening
    <3>2. d # c /\ Host(d) \in Hosts
      BY <1>1, <3>1, CoordinationAssumption
    <3>3. bias'[Host(d)] = bias[Host(d)] /\ conn'[Host(d)] = conn[Host(d)] /\ down'[d] = down[d]
      BY <1>2, <3>1, <3>2 DEF IInv, Types
    <3> QED
      BY <2>1, <3>3 DEF Listening, Told
  <2> QED
    BY <1>2, <1>3, <2>1 DEF IInv, Remembered
<1> QED
  BY <1>4, <1>5, <1>6, <1>7, <1>8 DEF IInv

-----------------------------------------------------------------------------
(* The controller's steps.                                                 *)

LEMMA RefuseStep ==
  ASSUME IInv, NEW c \in Conns, Refuse(c)
  PROVE  IInv'
<1>1. /\ serve[c] = "handshake" /\ serve' = [serve EXCEPT ![c] = "none"]
      /\ UNCHANGED <<agent, conn, bias, down, leaving, heartbeat, sent, agents, round, crashed,
                     overlapped>>
  BY DEF Refuse, client
<1>2. Rebalancing' = Rebalancing
  BY <1>1 DEF IInv, Types, Rebalancing
<1>3. \A d \in Conns : serve'[d] = IF d = c THEN "none" ELSE serve[d]
  BY <1>1 DEF IInv, Types
<1>4. Types'
  BY <1>1, <1>2 DEF IInv, Types
<1>5. Ends'
  BY <1>1 DEF IInv, Ends
<1>6. Table' /\ Handshakes' /\ Rounds'
  BY <1>1, <1>3 DEF IInv, Types, Table, Handshakes, Rounds
<1>7. \A d \in Conns : (Listening(d)' <=> Listening(d)) /\ Told(d)' = Told(d)
  BY <1>1 DEF Listening, Told
<1>8. Remembered'
  BY <1>1, <1>2, <1>3, <1>7 DEF IInv, Remembered
<1> QED
  BY <1>4, <1>5, <1>6, <1>8 DEF IInv

(* The proof is the first message on its way, and tells of no bias. *)
LEMMA RegisterStep ==
  ASSUME IInv, NEW c \in Conns, Register(c)
  PROVE  IInv'
<1>1. /\ serve[c] = "handshake" /\ serve' = [serve EXCEPT ![c] = "serving"]
      /\ agents' = [agents EXCEPT ![Host(c)] = c] /\ Send(c, "proof")
      /\ UNCHANGED <<agent, conn, bias, leaving, heartbeat, sent, round, crashed, overlapped>>
  BY DEF Register, client
<1>2. Rebalancing' = Rebalancing /\ c \notin Rebalancing /\ c \notin leaving
  BY <1>1 DEF IInv, Types, Rebalancing
<1>3. /\ ~sent[c] /\ down[c] = <<>> /\ sent[c] \in BOOLEAN /\ Host(c) \in Hosts
      /\ Len(down[c]) < QueueCap
  <2>1. Len(<<>>) = 0 /\ QueueCap \in Nat \ {0}
    BY CoordinationAssumption
  <2> QED
    BY <1>1, <2>1, CoordinationAssumption DEF IInv, Types, Handshakes
<1>4. /\ DOMAIN down' = Conns
      /\ \A d \in Conns \ {c} : down'[d] = down[d]
      /\ ~Listening(c) => down' = down
      /\ down'[c] \in Seq(Messages) /\ Len(down'[c]) <= QueueCap
      /\ Listening(c) => down'[c] # <<>> /\ down'[c][Len(down'[c])] = "proof"
  <2>1. "proof" \in Messages
    BY DEF Messages
  <2> QED
    BY <1>1, <1>3, <2>1, Sent DEF IInv
<1>5. \A d \in Conns : serve'[d] = IF d = c THEN "serving" ELSE serve[d]
  BY <1>1 DEF IInv, Types
<1>6. Types'
  <2>1. \A d \in Conns : down'[d] \in Seq(Messages) /\ Len(down'[d]) <= QueueCap
    BY <1>4 DEF IInv, Types
  <2>2. agents' \in [Hosts -> Conns \cup {NoConn}]
    BY <1>1 DEF IInv, Types
  <2> QED
    BY <1>1, <1>2, <1>4, <2>1, <2>2 DEF IInv, Types
<1>7. Ends'
  BY <1>1 DEF IInv, Ends
<1>8. Table'
  BY <1>1, <1>2, <1>3, <1>5 DEF IInv, Types, Table
<1>9. Handshakes' /\ Rounds'
  BY <1>1, <1>4, <1>5 DEF IInv, Types, Handshakes, Rounds
<1>10. Remembered'
  <2>1. \A d \in Conns : Listening(d)' <=> Listening(d)
    BY <1>1 DEF Listening
  <2>2. \A d \in Conns \ {c} : Told(d)' = Told(d)
    BY <1>1, <1>4 DEF Told
  <2>3. Listening(c) => Told(c)' = FALSE
    BY <1>4 DEF Told
  <2>4. ASSUME ~overlapped, NEW d \in Conns, Listening(d)', serve'[d] \notin {"none", "handshake"}
        PROVE  sent[d] = Told(d)' \/ \E e \in Conns : round[e].telling = d
    <3>1. CASE d = c
      <4>1. sent[c] = FALSE
        BY <1>3
      <4> QED
        BY <2>1, <2>3, <2>4, <3>1, <4>1
    <3>2. CASE d # c
      <4>1. sent[d] = Told(d) \/ \E e \in Conns : round[e].telling = d
        BY <1>5, <2>1, <2>4, <3>2 DEF IInv, Remembered
      <4> QED
        BY <2>2, <3>2, <4>1
    <3> QED
      BY <3>1, <3>2
  <2> QED
    BY <1>1, <1>2, <2>4 DEF IInv, Remembered
<1> QED
  BY <1>6, <1>7, <1>8, <1>9, <1>10 DEF IInv

(* A thread sets out to rebalance: while nothing has overlapped it is then *)
(* the only one.                                                           *)
LEMMA SetsOutStep ==
  ASSUME IInv, NEW c \in Conns, (\E x \in {"hot", "cool"} : TakeHeartbeat(c, x)) \/ Leave(c)
  PROVE  IInv'
<1>1. /\ serve[c] = "serving" /\ serve' = [serve EXCEPT ![c] = "rebalance"]
      /\ overlapped' = (overlapped \/ Rebalancing # {})
      /\ heartbeat' \in [Conns -> {"none", "hot", "cool"}]
      /\ UNCHANGED <<agent, conn, bias, down, sent, round, crashed>>
      /\ \/ leaving' = leaving /\ agents' = agents
         \/ /\ leaving' = leaving \cup {c}
            /\ agents' = IF agents[Host(c)] = c THEN [agents EXCEPT ![Host(c)] = NoConn] ELSE agents
  <2>1. ASSUME NEW x \in {"hot", "cool"}, TakeHeartbeat(c, x)
        PROVE  heartbeat' \in [Conns -> {"none", "hot", "cool"}]
    BY <2>1 DEF TakeHeartbeat, IInv, Types
  <2>2. Leave(c) => heartbeat' \in [Conns -> {"none", "hot", "cool"}]
    BY DEF Leave, IInv, Types
  <2> QED
    BY <2>1, <2>2 DEF TakeHeartbeat, Leave, client
<1>2. \A d \in Conns : serve'[d] = IF d = c THEN "rebalance" ELSE serve[d]
  BY <1>1 DEF IInv, Types
<1>3. Rebalancing' = Rebalancing \cup {c} /\ c \notin Rebalancing
  BY <1>1, <1>2 DEF Rebalancing
<1>4. Types'
  <2>1. agents' \in [Hosts -> Conns \cup {NoConn}]
    BY <1>1 DEF IInv, Types
  <2>2. leaving' \subseteq Rebalancing'
    BY <1>1, <1>3 DEF IInv, Types
  <2>3. overlapped' \in BOOLEAN
    BY <1>1 DEF IInv, Types
  <2>4. serve' \in [Conns -> {"none", "handshake", "serving", "rebalance", "computing", "telling"}]
    BY <1>1 DEF IInv, Types
  <2> QED
    BY <1>1, <2>1, <2>2, <2>3, <2>4 DEF IInv, Types
<1>5. Ends'
  BY <1>1 DEF IInv, Ends
<1>6. Table'
  <2>1. ASSUME NEW h \in Hosts, agents'[h] # NoConn
        PROVE  agents'[h] = agents[h] /\ agents[h] # NoConn /\ (leaving' # leaving => agents[h] # c)
    <3>1. agents[h] = c => Host(c) = h
      BY CoordinationAssumption DEF IInv, Table
    <3> QED
      BY <1>1, <2>1, <3>1 DEF IInv, Types
  <2>2. ASSUME NEW h \in Hosts, agents'[h] # NoConn
        PROVE  /\ Host(agents'[h]) = h
               /\ serve'[agents'[h]] \notin {"none", "handshake"} /\ agents'[h] \notin leaving'
    BY <1>1, <1>2, <2>1, <2>2 DEF IInv, Types, Table
  <2> QED
    BY <2>2 DEF Table
<1>7. Handshakes' /\ Rounds'
  BY <1>1, <1>2 DEF IInv, Types, Handshakes, Rounds
<1>8. \A d \in Conns : (Listening(d)' <=> Listening(d)) /\ Told(d)' = Told(d)
  BY <1>1 DEF Listening, Told
<1>9. Remembered'
  <2>1. ~overlapped' => ~overlapped /\ Rebalancing' = {c}
    BY <1>1, <1>3
  <2> QED
    BY <1>1, <1>2, <1>8, <2>1 DEF IInv, Remembered
<1> QED
  BY <1>4, <1>5, <1>6, <1>7, <1>9 DEF IInv

-----------------------------------------------------------------------------
(* Rebalance().                                                            *)

(* A thread that has told everybody goes back to its loop or ends, and its *)
(* agent's marks with it.                                                  *)
LEMMA ReturnsStep ==
  ASSUME IInv, NEW c \in Conns, serve[c] \in {"rebalance", "telling"}, round[c].telling = NoConn,
         Returns(c), UNCHANGED <<client, down, agents, crashed, overlapped>>
  PROVE  IInv'
<1>1. /\ serve' = [serve EXCEPT ![c] = IF c \in leaving THEN "none" ELSE "serving"]
      /\ round' = [round EXCEPT ![c] = Idle]
      /\ leaving' = leaving \ {c}
      /\ heartbeat' \in [Conns -> {"none", "hot", "cool"}]
      /\ \/ sent' = sent
         \/ /\ sent' = [sent EXCEPT ![c] = FALSE] /\ c \in leaving
            /\ \A d \in Conns \ {c} : c \notin round[d].todo
      /\ UNCHANGED <<agent, conn, bias, down, agents, crashed, overlapped>>
  BY DEF Returns, client, IInv, Types
<1>2. \A d \in Conns : /\ serve'[d] = IF d = c THEN (IF c \in leaving THEN "none" ELSE "serving")
                                      ELSE serve[d]
                       /\ round'[d] = IF d = c THEN Idle ELSE round[d]
  BY <1>1 DEF IInv, Types
<1>3. Rebalancing' = Rebalancing \ {c} /\ c \in Rebalancing
  BY <1>2 DEF Rebalancing
<1>4. Idle.todo = {} /\ Idle.telling = NoConn
  BY DEF Idle
<1>5. Types'
  <2>1. round' \in [Conns -> Locals]
    BY <1>1, IdleIs DEF IInv, Types
  <2>2. sent' \in [Conns -> BOOLEAN]
    BY <1>1 DEF IInv, Types
  <2>3. leaving' \subseteq Rebalancing'
    BY <1>1, <1>3 DEF IInv, Types
  <2> QED
    BY <1>1, <2>1, <2>2, <2>3 DEF IInv, Types
<1>6. Ends'
  BY <1>1 DEF IInv, Ends
<1>7. Table'
  BY <1>1, <1>2 DEF IInv, Types, Table
<1>8. Handshakes'
  <2>1. ASSUME NEW d \in Conns, serve'[d] = "handshake"
        PROVE  ~sent'[d] /\ down'[d] = <<>> /\ \A e \in Conns : d \notin round'[e].todo
    BY <1>1, <1>2, <1>4, <2>1 DEF IInv, Types, Handshakes
  <2> QED
    BY <2>1 DEF Handshakes
<1>9. Rounds'
  BY <1>2, <1>4 DEF IInv, Rounds
<1>10. Remembered'
  <2>1. \A d \in Conns : (Listening(d)' <=> Listening(d)) /\ Told(d)' = Told(d)
    BY <1>1 DEF Listening, Told
  <2>2. ASSUME ~overlapped, NEW d \in Conns, round'[d].telling # NoConn
        PROVE  sent'[round'[d].telling] = round'[d].bias
    <3>1. d # c /\ round'[d] = round[d] /\ round[d].telling # NoConn
      BY <1>2, <1>4, <2>2
    <3>2. sent[round[d].telling] = round[d].bias /\ round[d].telling \in round[d].todo
          /\ round[d].telling \in Conns
      BY <2>2, <3>1 DEF IInv, Types, Locals, Remembered, Rounds
    <3>3. sent'[round[d].telling] = sent[round[d].telling]
      BY <1>1, <3>1, <3>2 DEF IInv, Types
    <3> QED
      BY <3>1, <3>2, <3>3
  <2>3. ASSUME ~overlapped, NEW d \in Conns, Listening(d)', serve'[d] \notin {"none", "handshake"}
        PROVE  sent'[d] = Told(d)' \/ \E e \in Conns : round'[e].telling = d
    <3>1. serve[d] \notin {"none", "handshake"} /\ sent'[d] = sent[d]
      BY <1>1, <1>2, <2>3 DEF IInv, Types
    <3>2. sent[d] = Told(d) \/ \E e \in Conns : round[e].telling = d
      BY <2>1, <2>3, <3>1 DEF IInv, Remembered
    <3>3. \A e \in Conns : round[e].telling = d => e # c
      BY CoordinationAssumption
    <3> QED
      BY <1>2, <2>1, <3>1, <3>2, <3>3
  <2> QED
    BY <1>1, <1>3, <2>2, <2>3 DEF IInv, Remembered
<1> QED
  BY <1>5, <1>6, <1>7, <1>8, <1>9, <1>10 DEF IInv

(* A thread goes on with its rebalance, and has told nobody anything. *)
LEMMA GoesOn ==
  ASSUME IInv, NEW c \in Conns, NEW s \in {"computing", "telling"}, NEW r \in Locals,
         serve[c] \in {"rebalance", "computing", "telling"},
         round[c].telling = NoConn, r.telling = NoConn, \A d \in r.todo : serve[d] # "handshake",
         serve' = [serve EXCEPT ![c] = s], round' = [round EXCEPT ![c] = r],
         UNCHANGED <<agent, conn, bias, down, leaving, heartbeat, sent, agents, crashed, overlapped>>
  PROVE  IInv'
<1>1. \A d \in Conns : /\ serve'[d] = IF d = c THEN s ELSE serve[d]
                       /\ round'[d] = IF d = c THEN r ELSE round[d]
  BY DEF IInv, Types
<1>2. Rebalancing' = Rebalancing
  BY <1>1 DEF Rebalancing
<1>3. Types'
  <2>1. round' \in [Conns -> Locals]
    BY DEF IInv, Types, Locals
  <2>2. serve' \in [Conns -> {"none", "handshake", "serving", "rebalance", "computing", "telling"}]
    BY DEF IInv, Types
  <2> QED
    BY <1>2, <2>1, <2>2 DEF IInv, Types, Locals
<1>4. Ends'
  BY DEF IInv, Ends
<1>5. Table'
  BY <1>1 DEF IInv, Types, Table
<1>6. Handshakes'
  BY <1>1 DEF IInv, Handshakes
<1>7. Rounds'
  BY <1>1 DEF IInv, Rounds
<1>8. Remembered'
  <2>1. \A d \in Conns : (Listening(d)' <=> Listening(d)) /\ Told(d)' = Told(d)
    BY DEF Listening, Told
  <2>2. \A d \in Conns : round'[d].telling = round[d].telling
    BY <1>1
  <2>3. ASSUME ~overlapped, NEW d \in Conns, round'[d].telling # NoConn
        PROVE  sent[round'[d].telling] = round'[d].bias
    BY <1>1, <2>3 DEF IInv, Remembered
  <2>4. ASSUME ~overlapped, NEW d \in Conns, Listening(d)', serve'[d] \notin {"none", "handshake"}
        PROVE  sent[d] = Told(d)' \/ \E e \in Conns : round'[e].telling = d
    <3>1. serve[d] \notin {"none", "handshake"}
      BY <1>1, <2>4
    <3>2. sent[d] = Told(d) \/ \E e \in Conns : round[e].telling = d
      BY <2>1, <2>4, <3>1 DEF IInv, Remembered
    <3> QED
      BY <2>1, <2>2, <3>2
  <2> QED
    BY <1>2, <2>3, <2>4 DEF IInv, Remembered
<1> QED
  BY <1>3, <1>4, <1>5, <1>6, <1>7, <1>8 DEF IInv

LEMMA SnapshotStep ==
  ASSUME IInv, NEW c \in Conns, Snapshot(c)
  PROVE  IInv'
<1> DEFINE table == {d \in Conns : \E h \in Hosts : agents[h] = d}
           r     == [todo |-> table, bias |-> round[c].bias, telling |-> NoConn]
<1>1. serve[c] = "rebalance" /\ UNCHANGED <<client, down, agents, crashed, overlapped>>
  BY DEF Snapshot
<1>2. round[c].telling = NoConn
  BY <1>1 DEF IInv, Rounds
<1>3. CASE Returns(c)
  BY <1>1, <1>2, <1>3, ReturnsStep
<1>4. CASE /\ serve' = [serve EXCEPT ![c] = "computing"]
           /\ round' = [round EXCEPT ![c].todo = table]
           /\ UNCHANGED <<leaving, heartbeat, sent>>
  <2>1. r \in Locals /\ r.telling = NoConn /\ r.todo = table
    BY DEF IInv, Types, Locals
  <2>2. \A d \in table : serve[d] # "handshake"
    BY CoordinationAssumption DEF IInv, Table
  <2>3. round' = [round EXCEPT ![c] = r]
    <3>1. round[c] = [todo |-> round[c].todo, bias |-> round[c].bias, telling |-> NoConn]
      BY <1>2 DEF IInv, Types, Locals
    <3>2. [round[c] EXCEPT !.todo = table] = r
      BY <3>1
    <3> QED
      BY <1>4, <3>2
  <2> HIDE DEF r, table
  <2> QED
    BY <1>1, <1>2, <1>4, <2>1, <2>2, <2>3, GoesOn DEF client
<1> QED
  BY <1>3, <1>4 DEF Snapshot

(* An uncaught exception forgets everything, the overlaps too. *)
LEMMA CrashStep ==
  ASSUME IInv, Crash, UNCHANGED <<client, down>>
  PROVE  IInv'
<1>1. /\ UNCHANGED <<agent, conn, bias, down>>
      /\ crashed' = TRUE /\ overlapped' = FALSE /\ leaving' = {}
      /\ serve' = [c \in Conns |-> "none"] /\ heartbeat' = [c \in Conns |-> "none"]
      /\ sent' = [c \in Conns |-> FALSE] /\ agents' = [h \in Hosts |-> NoConn]
      /\ round' = [c \in Conns |-> Idle]
  BY DEF Crash, client
<1>2. Types'
  BY <1>1, IdleIs DEF IInv, Types
<1>3. Ends'
  BY <1>1 DEF IInv, Ends
<1>4. Table' /\ Handshakes'
  BY <1>1 DEF Table, Handshakes
<1>5. Idle.telling = NoConn
  BY DEF Idle
<1>6. Rounds'
  BY <1>1, <1>5 DEF Rounds
<1>7. Remembered'
  <2>1. Rebalancing' = {}
    BY <1>1 DEF Rebalancing
  <2> QED
    BY <1>1, <1>5, <2>1 DEF Remembered
<1> QED
  BY <1>2, <1>3, <1>4, <1>6, <1>7 DEF IInv

LEMMA ComputeStep ==
  ASSUME IInv, NEW c \in Conns, Compute(c)
  PROVE  IInv'
<1> DEFINE hot == ClusterIsHot(round[c].todo)
           r   == [todo |-> round[c].todo, bias |-> hot, telling |-> NoConn]
<1>1. CASE Crash
  BY <1>1, CrashStep DEF Compute
<1>2. CASE /\ serve' = [serve EXCEPT ![c] = "telling"]
           /\ round' = [round EXCEPT ![c].bias = ClusterIsHot(round[c].todo)]
           /\ UNCHANGED <<leaving, heartbeat, sent, agents, crashed, overlapped>>
  <2>1. serve[c] = "computing" /\ UNCHANGED <<client, down>>
    BY <1>2 DEF Compute
  <2>2. round[c].telling = NoConn
    BY <2>1 DEF IInv, Rounds
  <2>3. ClusterIsHot(round[c].todo) \in BOOLEAN
    BY DEF ClusterIsHot
  <2>4. r \in Locals /\ r.telling = NoConn /\ r.todo = round[c].todo
    BY <2>3 DEF IInv, Types, Locals
  <2>5. \A d \in r.todo : serve[d] # "handshake"
    BY <2>4 DEF IInv, Types, Locals, Handshakes
  <2>6. round' = [round EXCEPT ![c] = r]
    <3>1. round[c] = [todo |-> round[c].todo, bias |-> round[c].bias, telling |-> NoConn]
      BY <2>2 DEF IInv, Types, Locals
    <3>2. [round[c] EXCEPT !.bias = hot] = r
      BY <3>1
    <3> QED
      BY <1>2, <3>2
  <2> HIDE DEF r
  <2> QED
    BY <1>2, <2>1, <2>2, <2>4, <2>5, <2>6, GoesOn DEF client
<1> QED
  BY <1>1, <1>2 DEF Compute

(* As long as nothing has overlapped, nobody but the thread that rebalances *)
(* is telling anybody anything.                                            *)
LEMMA NobodyElse ==
  ASSUME IInv, ~overlapped, NEW c \in Conns, serve[c] = "telling", NEW e \in Conns \ {c}
  PROVE  round[e].telling = NoConn
<1>1. c \in Rebalancing /\ (serve[e] = "telling" => e \in Rebalancing)
  BY DEF Rebalancing
<1> QED
  BY <1>1 DEF IInv, Rounds, Remembered

LEMMA MarkStep ==
  ASSUME IInv, NEW c \in Conns, NEW d \in Conns, Mark(c, d)
  PROVE  IInv'
<1>1. /\ serve[c] = "telling" /\ round[c].telling = NoConn /\ d \in round[c].todo
      /\ UNCHANGED <<agent, conn, bias, down, serve, leaving, heartbeat, agents, crashed, overlapped>>
  BY DEF Mark, client
<1>2. /\ round[c] = [todo |-> round[c].todo, bias |-> round[c].bias, telling |-> NoConn]
      /\ round[c].todo \subseteq Conns /\ round[c].bias \in BOOLEAN
  BY <1>1 DEF IInv, Types, Locals
<1>3. \A e \in Conns : d # NoConn /\ (e \in round[c].todo => serve[e] # "handshake")
  BY CoordinationAssumption DEF IInv, Handshakes
<1>4. CASE sent[d] = round[c].bias
  <2> DEFINE r == [todo |-> round[c].todo \ {d}, bias |-> round[c].bias, telling |-> NoConn]
  <2>1. r \in Locals /\ r.telling = NoConn /\ \A e \in r.todo : serve[e] # "handshake"
    BY <1>2, <1>3 DEF Locals
  <2>2. round' = [round EXCEPT ![c] = r] /\ UNCHANGED sent
    <3>1. [round[c] EXCEPT !.todo = @ \ {d}] = r
      BY <1>2
    <3> QED
      BY <1>4, <3>1 DEF Mark
  <2>3. serve' = [serve EXCEPT ![c] = "telling"]
    BY <1>1 DEF IInv, Types
  <2> HIDE DEF r
  <2> QED
    BY <1>1, <2>1, <2>2, <2>3, GoesOn
<1>5. CASE sent[d] # round[c].bias
  <2> DEFINE r == [todo |-> round[c].todo, bias |-> round[c].bias, telling |-> d]
  <2>1. r \in Locals
    BY <1>2 DEF Locals
  <2>2. round' = [round EXCEPT ![c] = r] /\ sent' = [sent EXCEPT ![d] = round[c].bias]
    <3>1. [round[c] EXCEPT !.telling = d] = r
      BY <1>2
    <3> QED
      BY <1>5, <3>1 DEF Mark
  <2>3. \A e \in Conns : /\ round'[e] = IF e = c THEN r ELSE round[e]
                         /\ e # d => sent'[e] = sent[e]
    BY <2>2 DEF IInv, Types
  <2>4. sent'[d] = round[c].bias
    BY <2>2 DEF IInv, Types
  <2>5. Rebalancing' = Rebalancing
    BY <1>1 DEF Rebalancing
  <2>6. Types'
    <3>1. round' \in [Conns -> Locals] /\ sent' \in [Conns -> BOOLEAN]
      BY <1>2, <2>1, <2>2 DEF IInv, Types
    <3> QED
      BY <1>1, <2>5, <3>1 DEF IInv, Types
  <2>7. Ends' /\ Table'
    BY <1>1 DEF IInv, Ends, Table
  <2>8. Handshakes'
    BY <1>1, <1>3, <2>3 DEF IInv, Handshakes
  <2>9. Rounds'
    BY <1>1, <2>3 DEF IInv, Rounds
  <2>10. Remembered'
    <3>1. \A e \in Conns : (Listening(e)' <=> Listening(e)) /\ Told(e)' = Told(e)
      BY <1>1 DEF Listening, Told
    <3>2. ASSUME ~overlapped, NEW e \in Conns, round'[e].telling # NoConn
          PROVE  sent'[round'[e].telling] = round'[e].bias
      <4>1. e = c
        BY <1>1, <2>3, <3>2, NobodyElse
      <4>2. round'[e].telling = d /\ round'[e].bias = round[c].bias
        BY <2>3, <4>1
      <4> QED
        BY <2>4, <4>2
    <3>3. ASSUME ~overlapped, NEW e \in Conns, Listening(e)', serve'[e] \notin {"none", "handshake"}
          PROVE  sent'[e] = Told(e)' \/ \E x \in Conns : round'[x].telling = e
      <4>1. CASE e = d
        BY <2>3, <4>1
      <4>2. CASE e # d
        <5>1. \A x \in Conns : round[x].telling # e
          BY <1>1, <3>3, NobodyElse, CoordinationAssumption
        <5>2. sent[e] = Told(e)
          BY <1>1, <3>1, <3>3, <5>1 DEF IInv, Remembered
        <5> QED
          BY <2>3, <3>1, <4>2, <5>2
      <4> QED
        BY <4>1, <4>2
    <3> QED
      BY <1>1, <2>5, <3>2, <3>3 DEF IInv, Remembered
  <2> QED
    BY <2>6, <2>7, <2>8, <2>9, <2>10 DEF IInv
<1> QED
  BY <1>4, <1>5

(* What was marked is what is sent. *)
LEMMA TellStep ==
  ASSUME IInv, NEW c \in Conns, NEW d \in Conns, round[c].telling = d, Tell(c)
  PROVE  IInv'
<1> DEFINE m == IF round[c].bias THEN "bias" ELSE "no_bias"
           r == [todo |-> round[c].todo \ {d}, bias |-> round[c].bias, telling |-> NoConn]
<1>1. /\ d # NoConn /\ Send(d, m) /\ (Listening(d) => Len(down[d]) < QueueCap)
      /\ round' = [round EXCEPT ![c].telling = NoConn, ![c].todo = @ \ {d}]
      /\ UNCHANGED <<agent, conn, bias, serve, leaving, heartbeat, sent, agents, crashed, overlapped>>
  BY DEF Tell, client
<1>2. /\ round[c] = [todo |-> round[c].todo, bias |-> round[c].bias, telling |-> d]
      /\ round[c].todo \subseteq Conns /\ round[c].bias \in BOOLEAN
      /\ round \in [Conns -> Locals] /\ sent \in [Conns -> BOOLEAN]
  BY <1>1 DEF IInv, Types, Locals
<1>3. serve[c] = "telling" /\ d \in round[c].todo
  BY <1>1 DEF IInv, Rounds
<1>4. r \in Locals /\ r.telling = NoConn /\ r.todo = round[c].todo \ {d} /\ r.bias = round[c].bias
  BY <1>2 DEF Locals
<1>5. \A e \in Conns : round'[e] = IF e = c THEN r ELSE round[e]
  <2>1. \A e \in Conns \ {c} : round'[e] = round[e]
    BY <1>1, <1>2
  <2>2. round'[c] = r
    BY <1>1, <1>2
  <2> QED
    BY <2>1, <2>2
<1> HIDE DEF r
<1>6. m \in Messages /\ (m = "bias") = round[c].bias
  BY <1>2 DEF Messages
<1> HIDE DEF m
<1>7. /\ DOMAIN down' = Conns
      /\ \A e \in Conns \ {d} : down'[e] = down[e]
      /\ down'[d] \in Seq(Messages) /\ Len(down'[d]) <= QueueCap
      /\ Listening(d) => down'[d] # <<>> /\ down'[d][Len(down'[d])] = m
  BY <1>1, <1>2, <1>6, Sent DEF IInv
<1>8. Rebalancing' = Rebalancing
  BY <1>1 DEF Rebalancing
<1>9. Types'
  <2>1. round' \in [Conns -> Locals]
    BY <1>1, <1>2, <1>4, <1>5
  <2>2. \A e \in Conns : down'[e] \in Seq(Messages) /\ Len(down'[e]) <= QueueCap
    BY <1>7 DEF IInv, Types
  <2> QED
    BY <1>1, <1>7, <1>8, <2>1, <2>2 DEF IInv, Types
<1>10. Ends' /\ Table'
  BY <1>1 DEF IInv, Ends, Table
<1>11. Handshakes'
  <2>1. ASSUME NEW e \in Conns, serve[e] = "handshake"
        PROVE  /\ ~sent[e] /\ down'[e] = <<>> /\ \A x \in Conns : e \notin round'[x].todo
    <3>1. ~sent[e] /\ down[e] = <<>> /\ \A x \in Conns : e \notin round[x].todo
      BY <2>1 DEF IInv, Handshakes
    <3> QED
      BY <1>3, <1>4, <1>5, <1>7, <3>1
  <2> QED
    BY <1>1, <2>1 DEF Handshakes
<1>12. Rounds'
  BY <1>1, <1>4, <1>5 DEF IInv, Rounds
<1>13. Remembered'
  <2>1. \A e \in Conns : Listening(e)' <=> Listening(e)
    BY <1>1 DEF Listening
  <2>2. \A e \in Conns \ {d} : Told(e)' = Told(e)
    BY <1>1, <1>7 DEF Told
  <2>3. ~overlapped => \A e \in Conns : round'[e].telling = NoConn
    BY <1>3, <1>4, <1>5, NobodyElse
  <2>4. ASSUME ~overlapped, NEW e \in Conns, Listening(e)', serve'[e] \notin {"none", "handshake"}
        PROVE  sent[e] = Told(e)'
    <3>1. CASE e = d
      <4>1. sent[d] = round[c].bias
        BY <1>1, <2>4 DEF IInv, Remembered
      <4>2. Told(d)' = (m = "bias")
        BY <1>7, <2>1, <2>4, <3>1 DEF Told
      <4> QED
        BY <1>6, <3>1, <4>1, <4>2
    <3>2. CASE e # d
      <4>1. \A x \in Conns : round[x].telling # e
        BY <1>3, <2>4, <3>2, NobodyElse, CoordinationAssumption
      <4>2. sent[e] = Told(e)
        BY <1>1, <2>1, <2>4, <4>1 DEF IInv, Remembered
      <4> QED
        BY <2>2, <3>2, <4>2
    <3> QED
      BY <3>1, <3>2
  <2> QED
    BY <1>1, <1>8, <2>3, <2>4 DEF IInv, Remembered
<1> QED
  BY <1>9, <1>10, <1>11, <1>12, <1>13 DEF IInv

LEMMA ReturnStep ==
  ASSUME IInv, NEW c \in Conns, Return(c)
  PROVE  IInv'
<1>1. serve[c] = "telling" /\ round[c].todo = {} /\ Returns(c)
      /\ UNCHANGED <<client, down, agents, crashed, overlapped>>
  BY DEF Return
<1>2. round[c].telling = NoConn
  BY <1>1 DEF IInv, Rounds
<1> QED
  BY <1>1, <1>2, ReturnsStep

LEMMA RestartStep ==
  ASSUME IInv, Restart
  PROVE  IInv'
<1>1. UNCHANGED <<agent, conn, bias, down, serve, leaving, heartbeat, sent, agents, round,
                  overlapped>> /\ crashed' = FALSE
  BY DEF Restart, client
<1>2. Rebalancing' = Rebalancing
  BY <1>1 DEF Rebalancing
<1>3. \A d \in Conns : (Listening(d)' <=> Listening(d)) /\ Told(d)' = Told(d)
  BY <1>1 DEF Listening, Told
<1>4. Types'
  BY <1>1, <1>2 DEF IInv, Types
<1>5. Ends' /\ Table' /\ Handshakes' /\ Rounds'
  BY <1>1 DEF IInv, Ends, Table, Handshakes, Rounds
<1>6. Remembered'
  BY <1>1, <1>2, <1>3 DEF IInv, Remembered
<1> QED
  BY <1>4, <1>5, <1>6 DEF IInv

LEMMA Unmoved ==
  ASSUME IInv, UNCHANGED vars
  PROVE  IInv'
<1>1. UNCHANGED <<agent, conn, bias, down, serve, leaving, heartbeat, sent, agents, round,
                  crashed, overlapped>>
  BY DEF vars, client, server
<1>2. Rebalancing' = Rebalancing
  BY <1>1 DEF Rebalancing
<1>3. \A d \in Conns : (Listening(d)' <=> Listening(d)) /\ Told(d)' = Told(d)
  BY <1>1 DEF Listening, Told
<1>4. Types'
  BY <1>1, <1>2 DEF IInv, Types
<1>5. Ends' /\ Table' /\ Handshakes' /\ Rounds'
  BY <1>1 DEF IInv, Ends, Table, Handshakes, Rounds
<1>6. Remembered'
  BY <1>1, <1>2, <1>3 DEF IInv, Remembered
<1> QED
  BY <1>4, <1>5, <1>6 DEF IInv

-----------------------------------------------------------------------------
(* The invariant, and what follows from it.                                *)

LEMMA Initially == Init => IInv
<1> SUFFICES ASSUME Init
             PROVE  IInv
  OBVIOUS
<1>1. Rebalancing = {} /\ Idle.telling = NoConn /\ Idle.todo = {}
  BY DEF Init, Rebalancing, Idle
<1>2. Types
  <2>1. <<>> \in Seq(Messages) /\ Len(<<>>) = 0 /\ QueueCap \in Nat
    BY EmptySeq, CoordinationAssumption
  <2> QED
    <3>1. \A c \in Conns : down[c] \in Seq(Messages) /\ Len(down[c]) <= QueueCap
      BY <2>1 DEF Init
    <3> QED
      BY <1>1, <3>1, IdleIs DEF Init, Types
<1>3. Ends /\ Table /\ Handshakes
  BY DEF Init, Ends, Table, Handshakes
<1>4. Rounds
  BY <1>1 DEF Init, Rounds
<1>5. Remembered
  BY <1>1 DEF Init, Remembered
<1> QED
  BY <1>2, <1>3, <1>4, <1>5 DEF IInv

LEMMA Inductive == IInv /\ [Next]_vars => IInv'
<1> SUFFICES ASSUME IInv, [Next]_vars
             PROVE  IInv'
  OBVIOUS
<1>1. ASSUME NEW h \in Hosts, Agent(h)
      PROVE  IInv'
  BY <1>1, ConnectStep, ReadsStep, SessionEndsStep DEF Agent
<1>2. ASSUME NEW c \in Conns, ServeAgent(c)
      PROVE  IInv'
  <2>1. CASE Refuse(c) \/ Register(c)
    BY <2>1, RefuseStep, RegisterStep
  <2>2. CASE Heartbeats(c) \/ Leave(c)
    BY <2>2, SetsOutStep DEF Heartbeats
  <2>3. CASE Tell(c)
    <3>1. round[c].telling \in Conns
      BY <2>3 DEF Tell, IInv, Types, Locals
    <3> QED
      BY <2>3, <3>1, TellStep
  <2>4. CASE Rebalance(c)
    BY <2>3, <2>4, SnapshotStep, ComputeStep, MarkStep, ReturnStep DEF Rebalance
  <2> QED
    BY <1>2, <2>1, <2>2, <2>4 DEF ServeAgent
<1> QED
  BY <1>1, <1>2, RestartStep, Unmoved DEF Next

LEMMA Invariant == Spec => []IInv
BY Initially, Inductive, PTL DEF Spec

(* Every variable of the coordination stays in its range, for any servers, *)
(* connections and threads of the controller.                              *)
THEOREM TypeCorrect == Spec => []TypeOK
<1>1. IInv => TypeOK
  <2> SUFFICES ASSUME IInv
               PROVE  TypeOK
    OBVIOUS
  <2>1. ASSUME NEW c \in Conns
        PROVE  /\ Len(down[c]) <= QueueCap
               /\ \A i \in 1 .. Len(down[c]) : down[c][i] \in {"proof", "bias", "no_bias"}
    <3>1. down[c] \in Seq(Messages) /\ Len(down[c]) <= QueueCap
      BY DEF IInv, Types
    <3> QED
      BY <3>1, ElementOfSeq DEF Messages
  <2>2. ASSUME NEW c \in Conns
        PROVE  /\ round[c].todo \subseteq Conns /\ round[c].bias \in BOOLEAN
               /\ round[c].telling \in round[c].todo \cup {NoConn}
    BY DEF IInv, Types, Locals, Rounds
  <2> QED
    BY <2>1, <2>2 DEF IInv, Types, TypeOK
<1> QED
  BY <1>1, Invariant, PTL

(* As long as no two threads have rebalanced at once, biasSent is what the *)
(* agent has been told or is about to be, whatever connections broke and   *)
(* came back in between (controller/main.cpp:127-129).                     *)
THEOREM AgreementHolds == Spec => []Agreement
<1>1. IInv => Agreement
  <2> SUFFICES ASSUME IInv, ~overlapped, NEW h \in Hosts, agent[h] = "session",
                      serve[conn[h]] \notin {"none", "handshake"}
               PROVE  \/ sent[conn[h]] = Last(h)
                      \/ \E c \in Conns : round[c].telling = conn[h]
                                          /\ round[c].bias = sent[conn[h]]
    BY DEF Agreement
  <2>1. conn[h] \in Conns /\ Host(conn[h]) = h
    BY DEF IInv, Types, Ends
  <2>2. Listening(conn[h]) /\ Told(conn[h]) = Last(h)
    BY <2>1 DEF Listening, Told, Last
  <2>3. sent[conn[h]] = Told(conn[h]) \/ \E c \in Conns : round[c].telling = conn[h]
    BY <2>1, <2>2 DEF IInv, Remembered
  <2>4. ASSUME NEW c \in Conns, round[c].telling = conn[h]
        PROVE  round[c].bias = sent[conn[h]]
    BY <2>1, <2>4, CoordinationAssumption DEF IInv, Remembered
  <2> QED
    BY <2>2, <2>3, <2>4
<1> QED
  BY <1>1, Invariant, PTL

(* An agent leaves the table only with its own thread or for a newer       *)
(* connection of its host (controller/main.cpp:197).                       *)
THEOREM EntriesAlwaysTheirThreads == Spec => EntriesAreTheirThreads
<1> DEFINE Step == \A h \in Hosts : agents[h] # NoConn /\ agents'[h] # agents[h] =>
                     \/ agents'[h] = NoConn /\ agents[h] \in leaving' \ leaving
                     \/ agents'[h] # NoConn /\ serve[agents'[h]] = "handshake"
                     \/ crashed'
<1>1. ASSUME IInv, [Next]_vars
      PROVE  Step
  <2> SUFFICES ASSUME NEW h \in Hosts, agents[h] # NoConn, agents'[h] # agents[h]
               PROVE  \/ agents'[h] = NoConn /\ agents[h] \in leaving' \ leaving
                      \/ agents'[h] # NoConn /\ serve[agents'[h]] = "handshake"
                      \/ crashed'
    OBVIOUS
  <2>1. ASSUME NEW c \in Conns, Register(c)
        PROVE  agents'[h] # NoConn /\ serve[agents'[h]] = "handshake"
    BY <1>1, <2>1, CoordinationAssumption DEF Register, IInv, Types
  <2>2. ASSUME NEW c \in Conns, Leave(c)
        PROVE  agents'[h] = NoConn /\ agents[h] \in leaving' \ leaving
    <3>1. agents[h] = c /\ agents'[h] = NoConn /\ leaving' = leaving \cup {c}
      BY <1>1, <2>2 DEF Leave, IInv, Types, Table
    <3> QED
      BY <1>1, <3>1 DEF IInv, Table
  <2>3. ASSUME NEW c \in Conns, Compute(c)
        PROVE  crashed'
    BY <2>3 DEF Compute, Crash
  <2>4. ASSUME NEW g \in Hosts, Agent(g)
        PROVE  FALSE
    BY <2>4 DEF Agent, Connect, SessionBegins, ReceiveBias, SessionEnds, server
  <2>5. ASSUME NEW c \in Conns, ServeAgent(c)
        PROVE  Register(c) \/ Leave(c) \/ Compute(c)
    BY <2>5 DEF ServeAgent, Refuse, Heartbeats, TakeHeartbeat, Rebalance, Snapshot, Mark, Tell, Return
  <2>6. ~UNCHANGED vars /\ ~Restart
    BY DEF vars, server, Restart
  <2> QED
    BY <1>1, <2>1, <2>2, <2>3, <2>4, <2>5, <2>6 DEF Next
<1> QED
  BY <1>1, Invariant, PTL DEF Spec, EntriesAreTheirThreads
=============================================================================
