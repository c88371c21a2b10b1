---------------------------- MODULE MCAutoProtect -----------------------------
(* Small instances of AutoProtect: a section that escalates to idle, one   *)
(* that does not and allows a single process, and the feature switched     *)
(* off.  Loads are one per band of the three thresholds.                   *)
EXTENDS AutoProtect

Section(on, idle, samples, limit) ==
  [enabled |-> on, useIdle |-> idle, throttle |-> 2, idle |-> 3, recover |-> 1,
   throttleSamples |-> samples, idleSamples |-> 2, recoverSamples |-> samples, max |-> limit]

MCRules == { Section(TRUE, TRUE, 1, 2), Section(TRUE, FALSE, 2, 1), Section(FALSE, TRUE, 1, 2) }
MCLoads == 0 .. 3
MCClasses == {"high", "below_normal"}
=============================================================================
