--------------------------- MODULE OrderedChannel ---------------------------
(***************************************************************************)
(* What a Channel promises its two ends (SecureChannel.h:26-30, :45): they *)
(* talk only if they share the secret, each hears what the other has said, *)
(* in its order, without a gap and nothing twice, for as long as neither   *)
(* gives up.                                                               *)
(***************************************************************************)
EXTENDS Naturals, Sequences

CONSTANTS Messages, Secrets

VARIABLES secret, said, heard, over

Sides == {"client", "server"}
Peer(s) == IF s = "client" THEN "server" ELSE "client"

Init ==
  /\ secret \in [Sides -> Secrets]
  /\ said = [s \in Sides |-> <<>>]
  /\ heard = [s \in Sides |-> <<>>]
  /\ over = [s \in Sides |-> FALSE]

Say(s, m) ==
  /\ secret[s] = secret[Peer(s)]
  /\ said' = [said EXCEPT ![s] = Append(@, m)]
  /\ UNCHANGED <<secret, heard, over>>

Hear(s) ==
  /\ ~over[s]
  /\ Len(heard[s]) < Len(said[Peer(s)])
  /\ heard' = [heard EXCEPT ![s] = Append(@, said[Peer(s)][Len(@) + 1])]
  /\ UNCHANGED <<secret, said, over>>

GiveUp(s) ==
  /\ over' = [over EXCEPT ![s] = TRUE]
  /\ UNCHANGED <<secret, said, heard>>

Next == \E s \in Sides : (\E m \in Messages : Say(s, m)) \/ Hear(s) \/ GiveUp(s)

Spec == Init /\ [][Next]_<<secret, said, heard, over>>
=============================================================================
