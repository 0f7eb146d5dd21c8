----------------------------- MODULE MCBestFit -----------------------------
(* Constants of BestFit for TLC: words, threads, request sizes, arguments. *)
EXTENDS BestFit

CONSTANTS t1, t2

MCThreads == {t1, t2}
MCWord == 64
MCSizes == {3, 4, 6}

\* task2.so for two threads with up to two blocks each.
Global == [perThread |-> FALSE, threads |-> {t1, t2}, calls |-> 2, held |-> 2]

\* task3.so: threads share nothing, so one is enough, for longer sequences.
Local == [perThread |-> TRUE, threads |-> {t1}, calls |-> 5, held |-> 3]

MCArguments == {Global, Local}
MCOverlap == {[Global EXCEPT !.held = 1]}
=============================================================================
