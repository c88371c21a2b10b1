----------------------------- MODULE MCChannel ------------------------------
(* Small instance of Channel: an agent's session, and two threads of the   *)
(* controller.                                                             *)
EXTENDS Channel

CONSTANTS session, serve, console, token, other

MCSenders  == [client |-> {session}, server |-> {serve, console}]
MCReceiver == [client |-> session, server |-> serve]
MCSecrets  == {token, other}
=============================================================================
