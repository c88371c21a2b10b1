----------------------------- MODULE Coordination -----------------------------
(***************************************************************************)
(* Multi-server coordination: the agents' sessions with the controller,    *)
(* its table of agents, and the cluster bias.  An agent has one connection *)
(* at a time, the controller one thread for each connection it has not     *)
(* given up yet; each of these threads rebalances the whole cluster, and   *)
(* nothing keeps two of them from doing so at once.  Connections are       *)
(* authenticated and ordered (SecureChannel.h:11-27); they break at any    *)
(* moment.  Events and commands travel beside the messages modelled here   *)
(* and touch neither the table nor the bias.                               *)
(***************************************************************************)
EXTENDS Integers, FiniteSets, Sequences

CONSTANTS
  Hosts,           \* the servers
  Conns,           \* each server's connections; the controller has a thread and
                   \* an Agent for each
  NoConn,          \* no connection
  ClusterPercent,  \* --cluster-percent
  QueueCap,        \* bound: messages on their way to one agent
  MaxThreads       \* bound: connections the controller serves at once

(* Agent::host. *)
Host(c) == c[1]

ASSUME CoordinationAssumption ==
  /\ IsFiniteSet(Conns) /\ \A c \in Conns : Host(c) \in Hosts
  /\ NoConn \notin Conns
  /\ ClusterPercent \in Nat
  /\ QueueCap \in Nat \ {0}
  /\ MaxThreads \in Nat \ {0}

VARIABLES
  agent,      \* where each agent's Loop() is
  conn,       \* its connection
  bias,       \* bias_ is not zero
  down,       \* messages on their way from the controller, on each connection
  serve,      \* where ServeAgent() is for each connection
  leaving,    \* connections whose thread is past its receive loop
  heartbeat,  \* Agent::lastHeartbeat: hot when at or above --pressure
  sent,       \* Agent::biasSent is not zero
  agents,     \* g_agents
  round,      \* the local variables of each thread's Rebalance()
  crashed,    \* an exception has ended the controller
  overlapped  \* history: two threads have rebalanced at once

client  == <<agent, conn, bias>>
server  == <<serve, leaving, heartbeat, sent, agents, round, crashed>>
vars    == <<client, down, server, overlapped>>

Idle == [todo |-> {}, bias |-> FALSE, telling |-> NoConn]

Init ==
  /\ agent = [h \in Hosts |-> "apart"]
  /\ conn = [h \in Hosts |-> NoConn]
  /\ bias = [h \in Hosts |-> FALSE]
  /\ down = [c \in Conns |-> <<>>]
  /\ serve = [c \in Conns |-> "none"]
  /\ leaving = {}
  /\ heartbeat = [c \in Conns |-> "none"]
  /\ sent = [c \in Conns |-> FALSE]
  /\ agents = [h \in Hosts |-> NoConn]
  /\ round = [c \in Conns |-> Idle]
  /\ crashed = FALSE
  /\ overlapped = FALSE

(* The agent's end of a connection is open. *)
Listening(c) == conn[Host(c)] = c

(* The threads between a heartbeat, or the end of their loop, and the end  *)
(* of Rebalance().                                                         *)
Rebalancing == {c \in Conns : serve[c] \in {"rebalance", "computing", "telling"}}

(* A connection nobody holds any more, in a table, a thread or a snapshot. *)
Free(c) ==
  /\ serve[c] = "none"
  /\ \A h \in Hosts : conn[h] # c
  /\ \A d \in Conns : c \notin round[d].todo /\ round[d].telling # c

(* Channel::Send() to an agent; what is sent into a connection that has    *)
(* been closed is gone.  (Where the socket's handle has passed on to       *)
(* another connection, the frame does not open there and ends that session *)
(* at most: SessionEnds.)                                                  *)
Send(c, m) == down' = IF Listening(c) THEN [down EXCEPT ![c] = Append(@, m)] ELSE down

(* Channel::Receive(): the messages of a connection in their order.        *)
Receive(c, m) == /\ down[c] # <<>> /\ m = Head(down[c])
                 /\ down' = [down EXCEPT ![c] = Tail(@)]

-----------------------------------------------------------------------------
(* The agent: CoordinationClient::Loop() and Session().                    *)

Connect(h, c) ==
  /\ ~crashed
  /\ agent[h] = "apart" /\ Host(c) = h /\ Free(c)
  /\ Cardinality({d \in Conns : serve[d] # "none"}) < MaxThreads
  /\ agent' = [agent EXCEPT ![h] = "handshake"]
  /\ conn' = [conn EXCEPT ![h] = c]
  /\ down' = [down EXCEPT ![c] = <<>>]
  /\ serve' = [serve EXCEPT ![c] = "handshake"]
  /\ heartbeat' = [heartbeat EXCEPT ![c] = "none"]
  /\ sent' = [sent EXCEPT ![c] = FALSE]
  /\ UNCHANGED <<bias, leaving, agents, round, crashed, overlapped>>

(* ClientHandshake() ends with the controller's proof. *)
SessionBegins(h) ==
  /\ agent[h] = "handshake"
  /\ Receive(conn[h], "proof")
  /\ agent' = [agent EXCEPT ![h] = "session"]
  /\ UNCHANGED <<conn, bias, server, overlapped>>

ReceiveBias(h) ==
  /\ agent[h] = "session"
  /\ \E m \in {"bias", "no_bias"} : /\ Receive(conn[h], m)
                                    /\ bias' = [bias EXCEPT ![h] = m = "bias"]
  /\ UNCHANGED <<agent, conn, server, overlapped>>

(* A refused handshake, a broken connection, or Stop(): what the           *)
(* controller sent and nobody read is gone.                                *)
SessionEnds(h) ==
  /\ agent[h] # "apart"
  /\ agent' = [agent EXCEPT ![h] = "apart"]
  /\ conn' = [conn EXCEPT ![h] = NoConn]
  /\ bias' = [bias EXCEPT ![h] = FALSE]
  /\ down' = [down EXCEPT ![conn[h]] = <<>>]
  /\ UNCHANGED <<server, overlapped>>

-----------------------------------------------------------------------------
(* The controller: ServeAgent().                                           *)

Refuse(c) ==
  /\ ~crashed /\ serve[c] = "handshake"
  /\ serve' = [serve EXCEPT ![c] = "none"]
  /\ UNCHANGED <<client, down, leaving, heartbeat, sent, agents, round, crashed,
                 overlapped>>

(* The handshake has succeeded; the agent takes its host's place in the    *)
(* table, whoever was there.                                               *)
Register(c) ==
  /\ ~crashed /\ serve[c] = "handshake"
  /\ serve' = [serve EXCEPT ![c] = "serving"]
  /\ agents' = [agents EXCEPT ![Host(c)] = c]
  /\ Send(c, "proof")
  /\ UNCHANGED <<client, leaving, heartbeat, sent, round, crashed, overlapped>>

(* A heartbeat is stored, and Rebalance() begins.  It may have been on its *)
(* way for as long as one likes, also since before the agent left.         *)
TakeHeartbeat(c, x) ==
  /\ ~crashed /\ serve[c] = "serving"
  /\ Listening(c) => agent[Host(c)] = "session"
  /\ heartbeat' = [heartbeat EXCEPT ![c] = x]
  /\ serve' = [serve EXCEPT ![c] = "rebalance"]
  /\ overlapped' = (overlapped \/ Rebalancing # {})
  /\ UNCHANGED <<client, down, leaving, sent, agents, round, crashed>>

(* Mutant: whoever is in the table under the host goes. *)
LeaveForHost(c) ==
  /\ ~crashed /\ serve[c] = "serving"
  /\ serve' = [serve EXCEPT ![c] = "rebalance"]
  /\ leaving' = leaving \cup {c}
  /\ agents' = [agents EXCEPT ![Host(c)] = NoConn]
  /\ overlapped' = (overlapped \/ Rebalancing # {})
  /\ UNCHANGED <<client, down, heartbeat, sent, round, crashed>>

(* The connection is lost or closed; the agent leaves the table unless a   *)
(* newer connection of its host has taken its place, and the others are    *)
(* rebalanced.                                                             *)
Leave(c) ==
  /\ ~crashed /\ serve[c] = "serving"
  /\ serve' = [serve EXCEPT ![c] = "rebalance"]
  /\ leaving' = leaving \cup {c}
  /\ agents' = IF agents[Host(c)] = c THEN [agents EXCEPT ![Host(c)] = NoConn] ELSE agents
  /\ overlapped' = (overlapped \/ Rebalancing # {})
  /\ UNCHANGED <<client, down, heartbeat, sent, round, crashed>>

-----------------------------------------------------------------------------
(* Rebalance(): the table is copied under g_mutex; everything after that   *)
(* runs without a lock.                                                    *)

(* Mutant: the thread receives again on the connection it has closed. *)
ReturnsToLoop(c) ==
  /\ serve' = [serve EXCEPT ![c] = "serving"]
  /\ round' = [round EXCEPT ![c] = Idle]
  /\ UNCHANGED <<leaving, heartbeat, sent>>

(* A thread past its receive loop ends, and its Agent with it unless       *)
(* another thread's copy of the table still holds it.                      *)
Returns(c) ==
  LET ends == c \in leaving
      dies == ends /\ \A d \in Conns \ {c} : c \notin round[d].todo
  IN  /\ serve' = [serve EXCEPT ![c] = IF ends THEN "none" ELSE "serving"]
      /\ round' = [round EXCEPT ![c] = Idle]
      /\ leaving' = leaving \ {c}
      /\ heartbeat' = IF dies THEN [heartbeat EXCEPT ![c] = "none"] ELSE heartbeat
      /\ sent' = IF dies THEN [sent EXCEPT ![c] = FALSE] ELSE sent

Snapshot(c) ==
  LET table == {d \in Conns : \E h \in Hosts : agents[h] = d}
  IN  /\ ~crashed /\ serve[c] = "rebalance"
      /\ IF table = {} THEN Returns(c)
         ELSE /\ serve' = [serve EXCEPT ![c] = "computing"]
              /\ round' = [round EXCEPT ![c].todo = table]
              /\ UNCHANGED <<leaving, heartbeat, sent>>
      /\ UNCHANGED <<client, down, agents, crashed, overlapped>>

(* Enough of the snapshot's agents are hot. *)
ClusterIsHot(table) ==
  100 * Cardinality({d \in table : heartbeat[d] = "hot"}) >= ClusterPercent * Cardinality(table)

(* The process ends, and everything it kept. *)
Crash ==
  /\ crashed' = TRUE
  /\ serve' = [c \in Conns |-> "none"]
  /\ leaving' = {}
  /\ heartbeat' = [c \in Conns |-> "none"]
  /\ sent' = [c \in Conns |-> FALSE]
  /\ agents' = [h \in Hosts |-> NoConn]
  /\ round' = [c \in Conns |-> Idle]
  /\ overlapped' = FALSE

(* An agent without a heartbeat has a null lastHeartbeat, whose value()    *)
(* throws; nothing on the thread catches the exception.                    *)
Compute(c) ==
  /\ ~crashed /\ serve[c] = "computing"
  /\ IF \E d \in round[c].todo : heartbeat[d] = "none" THEN Crash
     ELSE /\ serve' = [serve EXCEPT ![c] = "telling"]
          /\ round' = [round EXCEPT ![c].bias = ClusterIsHot(round[c].todo)]
          /\ UNCHANGED <<leaving, heartbeat, sent, agents, crashed, overlapped>>
  /\ UNCHANGED <<client, down>>

(* Mutant: the agent is told, but not remembered to have been told. *)
MarkNothing(c, d) ==
  /\ ~crashed /\ serve[c] = "telling" /\ round[c].telling = NoConn
  /\ d \in round[c].todo
  /\ IF sent[d] = round[c].bias
     THEN /\ round' = [round EXCEPT ![c].todo = @ \ {d}]
          /\ UNCHANGED sent
     ELSE /\ round' = [round EXCEPT ![c].telling = d]
          /\ sent' = IF round[c].bias THEN [sent EXCEPT ![d] = TRUE] ELSE sent
  /\ UNCHANGED <<client, down, serve, leaving, heartbeat, agents, crashed, overlapped>>

(* biasSent is compared and set before the message is sent. *)
Mark(c, d) ==
  /\ ~crashed /\ serve[c] = "telling" /\ round[c].telling = NoConn
  /\ d \in round[c].todo
  /\ IF sent[d] = round[c].bias
     THEN /\ round' = [round EXCEPT ![c].todo = @ \ {d}]
          /\ UNCHANGED sent
     ELSE /\ round' = [round EXCEPT ![c].telling = d]
          /\ sent' = [sent EXCEPT ![d] = round[c].bias]
  /\ UNCHANGED <<client, down, serve, leaving, heartbeat, agents, crashed, overlapped>>

(* SendLine(); its answer is not looked at. *)
Tell(c) ==
  LET d == round[c].telling
  IN  /\ ~crashed /\ d # NoConn
      /\ Listening(d) => Len(down[d]) < QueueCap
      /\ Send(d, IF round[c].bias THEN "bias" ELSE "no_bias")
      /\ round' = [round EXCEPT ![c].telling = NoConn, ![c].todo = @ \ {d}]
      /\ UNCHANGED <<client, serve, leaving, heartbeat, sent, agents, crashed,
                     overlapped>>

Return(c) ==
  /\ ~crashed /\ serve[c] = "telling" /\ round[c].todo = {}
  /\ Returns(c)
  /\ UNCHANGED <<client, down, agents, crashed, overlapped>>

(* The administrator starts the controller again. *)
Restart ==
  /\ crashed
  /\ crashed' = FALSE
  /\ UNCHANGED <<client, down, serve, leaving, heartbeat, sent, agents, round, overlapped>>

-----------------------------------------------------------------------------
Rebalance(c) == Snapshot(c) \/ Compute(c) \/ (\E d \in Conns : Mark(c, d)) \/ Tell(c) \/ Return(c)

Heartbeats(c) == \E x \in {"hot", "cool"} : TakeHeartbeat(c, x)

ServeAgent(c) == Refuse(c) \/ Register(c) \/ Heartbeats(c) \/ Leave(c) \/ Rebalance(c)

Agent(h) ==
  (\E c \in Conns : Connect(h, c)) \/ SessionBegins(h) \/ ReceiveBias(h)
    \/ SessionEnds(h)

Next == (\E h \in Hosts : Agent(h)) \/ (\E c \in Conns : ServeAgent(c)) \/ Restart

Spec == Init /\ [][Next]_vars

-----------------------------------------------------------------------------
(* Every variable stays in its range; a thread past its receive loop only  *)
(* rebalances once more.                                                   *)
TypeOK ==
  /\ agent \in [Hosts -> {"apart", "handshake", "session"}]
  /\ conn \in [Hosts -> Conns \cup {NoConn}]
  /\ bias \in [Hosts -> BOOLEAN]
  /\ \A c \in Conns :
       /\ Len(down[c]) <= QueueCap
       /\ \A i \in 1 .. Len(down[c]) : down[c][i] \in {"proof", "bias", "no_bias"}
  /\ serve \in [Conns -> {"none", "handshake", "serving", "rebalance", "computing", "telling"}]
  /\ leaving \subseteq Rebalancing
  /\ heartbeat \in [Conns -> {"none", "hot", "cool"}]
  /\ sent \in [Conns -> BOOLEAN]
  /\ agents \in [Hosts -> Conns \cup {NoConn}]
  /\ \A c \in Conns : /\ round[c].todo \subseteq Conns /\ round[c].bias \in BOOLEAN
                      /\ round[c].telling \in round[c].todo \cup {NoConn}
  /\ crashed \in BOOLEAN /\ overlapped \in BOOLEAN

(* An agent leaves the controller's table only with the thread that put it *)
(* there, or for a connection of the same host whose handshake has just    *)
(* ended, be it the older one of the two: the clean-up of a connection     *)
(* that was given up long ago takes nobody else along                      *)
(* (controller/main.cpp:197).                                              *)
EntriesAreTheirThreads ==
  [][\A h \in Hosts : agents[h] # NoConn /\ agents'[h] # agents[h] =>
       \/ agents'[h] = NoConn /\ agents[h] \in leaving' \ leaving
       \/ agents'[h] # NoConn /\ serve[agents'[h]] = "handshake"
       \/ crashed']_vars

(* The bias an agent in a session will have once it has read everything on *)
(* its way.                                                                *)
Last(h) == LET q == down[conn[h]] IN IF q = <<>> THEN bias[h] ELSE q[Len(q)] = "bias"

(* As long as no two threads rebalance at once, what the controller        *)
(* remembers to have told an agent is what the agent has been told or is   *)
(* about to be: biasSent is never wrong for good, whatever disconnects and *)
(* reconnects come in between (controller/main.cpp:127-129).               *)
Agreement ==
  ~overlapped =>
    \A h \in Hosts :
      (agent[h] = "session" /\ serve[conn[h]] \notin {"none", "handshake"}) =>
        \/ sent[conn[h]] = Last(h)
        \/ \E c \in Conns : round[c].telling = conn[h] /\ round[c].bias = sent[conn[h]]

=============================================================================
