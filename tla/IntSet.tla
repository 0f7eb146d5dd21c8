------------------------------- MODULE IntSet -------------------------------
(***************************************************************************)
(* What self_assessment_test/bstree.h promises to its client: a set of     *)
(* integers in which each may only occur once.  insert adds its number,    *)
(* and makes no change if it is there; remove removes the given number.    *)
(* `call` is what the client has called last, so that an implementation    *)
(* has to do this with the number it was given and with no other.          *)
(***************************************************************************)
CONSTANT Key

VARIABLES elements,  \* the set
          usable,    \* "yes", "no" once destroyed, "wrecked"
          call       \* the last call and its number

vars == <<elements, usable, call>>

Init == elements = {} /\ usable = "yes" /\ call = <<>>

Insert(d) ==
  /\ call' = <<"insert", d>>
  /\ elements' = elements \cup {d}
  /\ UNCHANGED usable

Remove(d) ==
  /\ call' = <<"remove", d>>
  /\ elements' = elements \ {d}
  /\ UNCHANGED usable

\* The concession to the code: the removal of an element may leave no set.
RemoveWrecks(d) ==
  /\ call' = <<"remove", d>>
  /\ d \in elements
  /\ elements' = {}
  /\ usable' = "wrecked"

\* An empty set has no smallest or largest number.
Extremum ==
  /\ call' = <<"extremum">>
  /\ elements = {}
  /\ usable' = "wrecked"
  /\ UNCHANGED elements

Destroy ==
  /\ call' = <<"destroy">>
  /\ elements' = {}
  /\ usable' = "no"

Next ==
  /\ usable = "yes"
  /\ \/ \E d \in Key : Insert(d) \/ Remove(d) \/ RemoveWrecks(d)
     \/ Extremum
     \/ Destroy

Spec == Init /\ [][Next]_vars
=============================================================================
