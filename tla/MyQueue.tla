------------------------------ MODULE MyQueue ------------------------------
(***************************************************************************)
(* myqueue.h (the same file in exercise06/task2 and exercise07): a singly  *)
(* linked tail queue of integers.  The list is abstracted to the sequence  *)
(* of its values; malloc of an entry is taken to succeed.                  *)
(***************************************************************************)
EXTENDS Sequences

myqueue_init == <<>>
myqueue_is_empty(q) == q = <<>>
myqueue_push(q, value) == Append(q, value)    \* STAILQ_INSERT_TAIL
myqueue_first(q) == Head(q)                   \* what myqueue_pop returns
myqueue_rest(q)  == Tail(q)                   \* what myqueue_pop leaves
=============================================================================
