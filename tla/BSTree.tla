------------------------------- MODULE BSTree -------------------------------
(***************************************************************************)
(* self_assessment_test/bstree.c: a binary search tree of nodes that malloc*)
(* places and free takes back.  A client calls the functions in any order. *)
(* bstree_remove keeps two habits that matter: it does not tell an only    *)
(* child that its parent is gone, so that a parent pointer can lead to     *)
(* memory that has been freed, or has been given to another node since;    *)
(* and after free(l) it reads l->left and l->right again.  The model goes  *)
(* on as long as the code is defined: it stops where a pointer that is     *)
(* NULL or leads to a free block is followed, and where the tree itself    *)
(* has a link to a free block.                                             *)
(***************************************************************************)
EXTENDS Integers, FiniteSets, SequencesExt

CONSTANTS Key,     (* the integers that the client stores      *)
          Addr,    (* where malloc can put a node              *)
          NULL

ASSUME BSTreeAssumption == Key \subseteq Int /\ NULL \notin Addr

Pointer == Addr \cup {NULL}

VARIABLES
  heap,    \* heap[a]: the node at address a
  live,    \* the addresses that malloc has given out
  root,    \* t->root
  size,    \* t->size
  status,  \* "running"; "destroyed"; "crashed": NULL was followed or an
           \* assertion failed; "undefined": freed memory decided
  call     \* what the client has called last

tree == <<heap, live, root, size, status>>
vars == <<tree, call>>

NewNode(d, p) == [key |-> d, left |-> NULL, right |-> NULL, parent |-> p]

\* A free block: what it holds matters only where the status says so.
Freed == NewNode(CHOOSE k \in Key : TRUE, NULL)

-----------------------------------------------------------------------------
(* Walks over the tree.                                                    *)

\* The nodes that postOrderFree frees.  `fuel` bounds the walk, which has
\* no end on a tree whose links are closed to a ring.
Reachable ==
  LET below[fuel \in 0 .. Cardinality(Addr) + 1, n \in Pointer] ==
        IF n = NULL \/ fuel = 0 THEN {}
        ELSE {n} \cup below[fuel - 1, heap[n].left] \cup below[fuel - 1, heap[n].right]
  IN below[Cardinality(Addr) + 1, root]

\* No link of the tree leads to a free block.
Sound == status = "running" /\ Reachable \subseteq live

\* search(t->root, d), and the node where it falls off the tree.
search(d) ==
  LET at[n \in Pointer] ==
        IF n = NULL \/ heap[n].key = d THEN n
        ELSE at[IF d < heap[n].key THEN heap[n].left ELSE heap[n].right]
  IN at[root]

InsertionPoint(d) ==
  LET at[n \in Addr] ==
        LET child == IF d < heap[n].key THEN heap[n].left ELSE heap[n].right
        IN IF child = NULL THEN n ELSE at[child]
  IN at[root]

\* Mutant of min: the walk stops one node early.
min_OneEarly(node) ==
  LET at[n \in Addr] ==
        IF heap[n].left = NULL \/ heap[heap[n].left].left = NULL
        THEN n ELSE at[heap[n].left]
  IN at[node]

min(node) ==
  LET at[n \in Addr] == IF heap[n].left = NULL THEN n ELSE at[heap[n].left]
  IN at[node]

max(node) ==
  LET at[n \in Addr] == IF heap[n].right = NULL THEN n ELSE at[heap[n].right]
  IN at[node]

contains(d) == search(d) # NULL

\* succ(node), for a node with a right child; bstree_remove asks for no other.
succ(node) == min(heap[node].right)

-----------------------------------------------------------------------------
(* The functions that change the tree.                                     *)

Init ==   \* bstree_create
  /\ heap = [a \in Addr |-> Freed]
  /\ live = {}
  /\ root = NULL
  /\ size = 0
  /\ status = "running"
  /\ call = <<>>

\* The new node is linked to the node where the search has ended.
AddNode(d) ==
  /\ \E a \in Addr \ live :
       /\ live' = live \cup {a}
       /\ IF size = 0
          THEN root' = a /\ heap' = [heap EXCEPT ![a] = NewNode(d, NULL)]
          ELSE LET p == InsertionPoint(d) IN
               /\ heap' = [heap EXCEPT
                             ![a] = NewNode(d, p),
                             ![p] = IF d < @.key THEN [@ EXCEPT !.left = a]
                                                 ELSE [@ EXCEPT !.right = a]]
               /\ UNCHANGED root
  /\ size' = size + 1
  /\ UNCHANGED status

insert(d) ==
  /\ Sound
  /\ call' = <<"insert", d>>
  /\ \/ contains(d) /\ UNCHANGED tree
     \/ ~contains(d) /\ AddNode(d)

\* m gives its child l up for c.
Replace(h, m, l, c) ==
  IF h[m].right = l THEN [h EXCEPT ![m].right = c] ELSE [h EXCEPT ![m].left = c]

\* The parent pointer that bstree_remove follows leads nowhere.
Stray(m) ==
  /\ status' = IF m = NULL THEN "crashed" ELSE "undefined"
  /\ UNCHANGED <<heap, live, root>>

Free(a) == live' = live \ {a}

\* l has one child at most.  The tests that follow free(l) look into the
\* block: either it is as it was, and nothing more happens, or it is not.
RemoveSimple(l) ==
  LET m == heap[l].parent
      c == IF heap[l].left = NULL THEN heap[l].right ELSE heap[l].left
  IN
  /\ heap[l].left = NULL \/ heap[l].right = NULL
  /\ IF m \notin live THEN Stray(m)
     ELSE /\ heap' = [Replace(heap, m, l, c) EXCEPT ![l] = Freed]
          /\ Free(l)
          /\ status' \in {"running", "undefined"}
          /\ UNCHANGED root

\* Mutant of Rekey: l keeps its own key.
Rekey_Forgotten(l, m) == heap

Rekey(l, m) == [heap EXCEPT ![l].key = heap[m].key]

\* Mutant of SpliceOut: m is taken to be a left child.
SpliceOut_LeftOnly(h, m, p, c) ==
  [h EXCEPT ![p].left = c]

\* m, whose parent pointer is p, makes room for its right child c.
SpliceOut(h, m, p, c) ==
  LET h1 == IF h[p].left = m THEN [h EXCEPT ![p].left = c]
                             ELSE [h EXCEPT ![p].right = c]
  IN IF c = NULL THEN h1 ELSE [h1 EXCEPT ![c].parent = p]

\* l takes over the key of its successor m, which lies in its right subtree
\* and is freed instead.
RemoveDouble(l) ==
  LET m == succ(l)
      p == heap[m].parent
  IN
  /\ heap[l].left # NULL /\ heap[l].right # NULL
  /\ IF p \notin live THEN Stray(p)
     ELSE /\ heap' = [SpliceOut(Rekey(l, m), m, p, heap[m].right) EXCEPT ![m] = Freed]
          /\ Free(m)
          /\ UNCHANGED <<root, status>>

remove(d) ==
  /\ Sound
  /\ call' = <<"remove", d>>
  /\ \/ ~contains(d) /\ UNCHANGED tree
     \/ /\ contains(d)
        /\ RemoveSimple(search(d)) \/ RemoveDouble(search(d))
        /\ size' = size - 1

\* bstree_minimum and bstree_maximum assert that there is a smallest number.
Extremum ==
  /\ Sound
  /\ call' = <<"extremum">>
  /\ root = NULL
  /\ status' = "crashed"
  /\ UNCHANGED <<heap, live, root, size>>

\* postOrderFree, and the handle.
destroy ==
  /\ Sound
  /\ call' = <<"destroy">>
  /\ live' = live \ Reachable
  /\ status' = "destroyed"
  /\ UNCHANGED <<heap, root, size>>

Next == destroy \/ Extremum \/ \E d \in Key : insert(d) \/ remove(d)

Spec == Init /\ [][Next]_vars

-----------------------------------------------------------------------------
TypeOK ==
  /\ heap \in [Addr -> [key : Key, left : Pointer, right : Pointer, parent : Pointer]]
  /\ live \subseteq Addr
  /\ root \in Pointer
  /\ size \in Nat
  /\ status \in {"running", "destroyed", "crashed", "undefined"}
  /\ call \in {<<>>, <<"extremum">>, <<"destroy">>} \cup {"insert", "remove"} \X Key

\* All nodes from left to right, and their keys: what the tree stores, and not
\* what bstree_print shows of it, which leaves out the number 0.
InOrder ==
  LET walk[fuel \in 0 .. Cardinality(Addr) + 1, n \in Pointer] ==
        IF n = NULL \/ fuel = 0 THEN <<>>
        ELSE walk[fuel - 1, heap[n].left] \o <<n>> \o walk[fuel - 1, heap[n].right]
  IN walk[Cardinality(Addr) + 1, root]

Keys == [i \in DOMAIN InOrder |-> heap[InOrder[i]].key]

(* As long as a tree is sound, its keys ascend from left to right, what    *)
(* bstree_contains finds by going left or right are all of them and nothing*)
(* else, bstree_size is their number, and minimum and maximum are the ends.*)
(* The tree owns all memory that it has allocated, however often addresses *)
(* were used again, and bstree_destroy frees everything.                   *)
QueriesAgree ==
  /\ Sound =>
       /\ \A i, j \in DOMAIN Keys : i < j => Keys[i] < Keys[j]
       /\ \A d \in Key : contains(d) <=> d \in Range(Keys)
       /\ size = Len(Keys)
       /\ root # NULL => /\ heap[min(root)].key = Keys[1]
                         /\ heap[max(root)].key = Keys[Len(Keys)]
       /\ live = Reachable
  /\ status = "destroyed" => live = {}

Set == INSTANCE IntSet
         WITH elements <- IF Sound THEN Range(Keys) ELSE {},
              usable <- IF Sound THEN "yes"
                        ELSE IF status = "destroyed" THEN "no" ELSE "wrecked"

(* The tree implements the set as long as it is sound: the call            *)
(* bstree_insert(d) adds d, bstree_remove(d) takes out d, and neither      *)
(* changes any other number, whatever happens to the links and the keys of *)
(* the nodes.  Only the removal of an element and an extremum of the empty *)
(* set may end it.                                                         *)
ImplementsSet == Set!Spec

\* The parent pointers that do not lead to the parent.
Orphans ==
  {n \in Reachable \ {root} : n \notin {heap[heap[n].parent].left,
                                        heap[heap[n].parent].right}}

(* Three kinds of calls and no other end the life of a sound tree, be it   *)
(* by a crash, by the use of freed memory or by a link to it: the removal  *)
(* of a node with one child at most, which looks into the node that it has *)
(* freed and has a parent, NULL or an old one, that it does not check; the *)
(* removal of a node whose successor is an orphan; and an extremum of the  *)
(* empty tree.  No insertion does, and no other removal.                   *)
NoOtherCallWrecks ==
  [][Sound /\ ~Sound' /\ call' # <<"destroy">> =>
       \/ call' = <<"extremum">> /\ root = NULL
       \/ \E d \in Key : /\ call' = <<"remove", d>>
                         /\ LET l == search(d) IN
                            \/ NULL \in {heap[l].left, heap[l].right}
                            \/ succ(l) \in Orphans]_vars
=============================================================================
