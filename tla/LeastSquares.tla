---------------------------- MODULE LeastSquares ----------------------------
(***************************************************************************)
(* The line AdaptiveThresholds::Fit() puts through the last samples, in    *)
(* whole numbers: the denominator is kept apart, and what the prediction   *)
(* takes off the thresholds is rounded down to a unit.                     *)
(***************************************************************************)
EXTENDS Integers, Sequences

Sum(f, n) == LET upTo[i \in 0 .. n] == IF i = 0 THEN 0 ELSE upTo[i - 1] + f[i] IN upTo[n]

(* x runs from 0 to Len(w) - 1. *)
Sx(w)  == (Len(w) * (Len(w) - 1)) \div 2
Sxx(w) == (Len(w) * (Len(w) - 1) * (2 * Len(w) - 1)) \div 6
Sy(w)  == Sum(w, Len(w))
Sxy(w) == Sum([i \in 1 .. Len(w) |-> (i - 1) * w[i]], Len(w))

(* slope = Steepness / Denominator, or 0 with fewer than three samples. *)
Denominator(w) == Len(w) * Sxx(w) - Sx(w) * Sx(w)
Steepness(w) == IF Len(w) < 3 THEN 0 ELSE Len(w) * Sxy(w) - Sx(w) * Sy(w)

(* The line, horizon samples after the last, is at the threshold or above. *)
Crosses(w, horizon, threshold) ==
  Sy(w) * Denominator(w) + Steepness(w) * (Len(w) * (Len(w) - 1 + horizon) - Sx(w))
    >= threshold * Len(w) * Denominator(w)

(* The rise a forecast across the threshold takes off the thresholds.      *)
RisingTrend(w, horizon, threshold) ==
  IF Steepness(w) > 0 /\ Crosses(w, horizon, threshold)
  THEN (Steepness(w) * horizon) \div Denominator(w) ELSE 0
=============================================================================
