--------------------------- MODULE MCServiceThreads ---------------------------
(* ServiceThreads is finite; only the sections a reload may change vary.   *)
EXTENDS ServiceThreads

MCBoth == {"coordination", "dashboard"}
=============================================================================
