-------------------------------- MODULE Heap --------------------------------
(***************************************************************************)
(* What a malloc/free library promises to the threads that use it, whatever*)
(* it does inside: a block handed out lies in its pool and overlaps no     *)
(* block in use, stays so until it is freed, and a pool without any block  *)
(* in use serves every request that its Capacity allows.                   *)
(***************************************************************************)
EXTENDS Naturals

CONSTANTS Arena,     (* the pools; a block belongs to one of them       *)
          Address,   (* the addresses of a pool's words                 *)
          Size,      (* the sizes that are asked for                    *)
          Capacity   (* the largest request that an unused pool serves  *)

VARIABLES
  inUse,   \* inUse[p]: the blocks [lo, size] of pool p that clients own
  refused  \* a request has been answered with NULL

vars == <<inUse, refused>>

Words(b) == b.lo .. b.lo + b.size - 1
Disjoint(b, c) == Words(b) \cap Words(c) = {} /\ b.lo # c.lo

Init == inUse = [p \in Arena |-> {}] /\ refused = FALSE

Malloc(p) ==
  \E b \in inUse'[p] \ inUse[p] :   \* the block that is handed out
    /\ b \in [lo : Address, size : Size]
    /\ Words(b) \subseteq Address
    /\ \A c \in inUse[p] : Disjoint(b, c)
    /\ inUse' = [inUse EXCEPT ![p] = @ \cup {b}]
    /\ UNCHANGED refused

Free(p) ==
  \E b \in inUse[p] :
    /\ inUse' = [inUse EXCEPT ![p] = @ \ {b}]
    /\ UNCHANGED refused

Refuse(p) ==
  /\ inUse[p] # {} \/ \E s \in Size : s > Capacity
  /\ refused' = TRUE
  /\ UNCHANGED inUse

Next == \E p \in Arena : Malloc(p) \/ Free(p) \/ Refuse(p)

Spec == Init /\ [][Next]_vars

\* A heap that may refuse any request.
RefuseAny == refused' \in BOOLEAN /\ UNCHANGED inUse

SafeSpec == Init /\ [][RefuseAny \/ \E p \in Arena : Malloc(p) \/ Free(p)]_vars
=============================================================================
