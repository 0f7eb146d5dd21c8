------------------------------ MODULE MyArray ------------------------------
(***************************************************************************)
(* exercise08/my_array.c: a growing and shrinking array of pointers.  The  *)
(* items up to size are a sequence, the allocated room is a number; calls  *)
(* of malloc and realloc are taken to succeed.  Indices are those of the   *)
(* source, from 0.                                                         *)
(***************************************************************************)
EXTENDS Naturals, SequencesExt

ARRAY_INIT_CAPACITY == 4

my_array_init == [items |-> <<>>, capacity |-> ARRAY_INIT_CAPACITY]

my_array_size(array) == Len(array.items)

\* Mutant of my_array_push_back: the room is never enlarged.
my_array_push_back_NoResize(array, item) ==
  [items |-> Append(array.items, item), capacity |-> array.capacity]

my_array_push_back(array, item) ==
  [items |-> Append(array.items, item),
   capacity |-> IF array.capacity = my_array_size(array)
                THEN 2 * array.capacity ELSE array.capacity]

my_array_get(array, idx) == array.items[idx + 1]

\* An index outside the array is ignored; a quarter full array is halved.
my_array_delete(array, idx) ==
  IF idx >= my_array_size(array) THEN array
  ELSE LET items == RemoveAt(array.items, idx + 1) IN
       [items |-> items,
        capacity |-> IF Len(items) > 0 /\ Len(items) = array.capacity \div 4
                     THEN array.capacity \div 2 ELSE array.capacity]
=============================================================================
