---------------------------- MODULE MCStateMachine ----------------------------
(* Small instance of StateMachine: two configurations that differ in both  *)
(* thresholds and sample counts, so that a reload moves a streak in        *)
(* progress across them, and one pressure per band of either.              *)
EXTENDS StateMachine

MCConfigs ==
  { [throttle |-> 3, escalate |-> 4, recover |-> 2,
     throttleSamples |-> 1, escalateSamples |-> 3, recoverSamples |-> 2],
    [throttle |-> 2, escalate |-> 3, recover |-> 1,
     throttleSamples |-> 2, escalateSamples |-> 2, recoverSamples |-> 3] }
MCPressures == 0 .. 4
(* Every answer the Win32 calls can give, and the run where all succeed. *)
MCOutcomes == Outcomes
MCPerfect == {[reached |-> TRUE, complete |-> TRUE, priority |-> TRUE]}
=============================================================================
