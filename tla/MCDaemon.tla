------------------------------- MODULE MCDaemon -------------------------------
(* Small instances of Daemon.  One sample is enough for every transition,  *)
(* so the counters are out of the way; "work" takes every role in turn,    *)
(* "sys" is essential, and watched as critical wherever it has a role.     *)
EXTENDS Daemon

MCMachine == [throttle |-> 2, escalate |-> 3, recover |-> 1,
              throttleSamples |-> 1, escalateSamples |-> 1, recoverSamples |-> 1]
MCConfigs == {MCMachine}
MCPressures == {0, 2, 3}
MCNames == {"work", "sys"}
MCEssential == {"sys"}

Roles(c, b, p) == [critical |-> c, batch |-> b, protected |-> p, machine |-> MCMachine]
(* "work" managed, protected, critical; one watches nothing and lists an   *)
(* essential process as batch.                                             *)
MCSettings == { Roles({"sys"}, {"work"}, {}), Roles({}, {"work", "sys"}, {}),
                Roles({"sys", "work"}, {}, {}), Roles({"sys"}, {}, {"work"}) }
=============================================================================
