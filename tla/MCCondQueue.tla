---------------------------- MODULE MCCondQueue ----------------------------
(* Constants of CondQueue for TLC. *)
EXTENDS CondQueue

MCNumConsumers == 3
MCOnes == 4
=============================================================================
