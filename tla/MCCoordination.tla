---------------------------- MODULE MCCoordination ----------------------------
(* A small instance of Coordination: a server that reconnects only once    *)
(* the controller has let it go, and one with a second connection, so that *)
(* the one it gave up lingers while it is back.  The two connections of a  *)
(* server differ in their number only.                                     *)
EXTENDS Coordination, TLC

CONSTANTS h1, h2, a, b, c

MCHosts == {h1, h2}
MCLingering == {<<h1, a>>, <<h1, b>>, <<h2, c>>}
MCSymmetry == Permutations({a, b})
=============================================================================
