------------------------------ MODULE MCLogChain ------------------------------
(* A small instance of LogChain: a file is full with its first line, and   *)
(* gets more only when it cannot be renamed; the lines fill every file and *)
(* make the first one leave the disk.                                      *)
EXTENDS LogChain

MCOld == {0, 1}
=============================================================================
