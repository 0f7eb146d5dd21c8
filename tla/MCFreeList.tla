---------------------------- MODULE MCFreeList ----------------------------
(* Constants of FreeList for TLC. *)
EXTENDS FreeList

CONSTANTS t1, t2

MCThreads == {t1, t2}
=============================================================================
