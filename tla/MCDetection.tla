---------------------------- MODULE MCDetection -----------------------------
(* Small instance of Detection, in quarters of a percent: one              *)
(* configuration with room for adaptation and one without, which also      *)
(* differ in their lengths.                                                *)
EXTENDS Detection

Line == INSTANCE LeastSquares

MCTrend(w, horizon, threshold) == Line!RisingTrend(w, horizon, threshold)

MCConfigs ==
  { [throttle |-> 12, escalate |-> 14, recover |-> 3,
     throttleSamples |-> 2, escalateSamples |-> 1, recoverSamples |-> 2],
    [throttle |-> 8, escalate |-> 8, recover |-> 6,
     throttleSamples |-> 1, escalateSamples |-> 2, recoverSamples |-> 1] }
MCSettings ==
  { [enabled |-> TRUE, window |-> 3, horizon |-> 2, maxAdjust |-> 7],
    [enabled |-> FALSE, window |-> 2, horizon |-> 1, maxAdjust |-> 4] }
MCPressures == {2, 7, 12, 15}
=============================================================================
