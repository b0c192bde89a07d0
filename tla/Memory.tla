------------------------------- MODULE Memory -------------------------------
(***************************************************************************)
(* malloc() and free() (xmalloc.c), as far as it matters who owns a block. *)
(* A block is named after the pointer that it was allocated for.  A memory *)
(* is the set of its live blocks, what each pointer holds, and whether     *)
(* free() was ever given a block that was not live.  Straight-line code    *)
(* goes over the pointers that it handles with these operators, in order.  *)
(***************************************************************************)
EXTENDS Integers, FiniteSets, SequencesExt

NoBlock == <<"NULL", 0>>
Static == <<"static", 0>> \* a string literal

Fresh(m, p) == <<p, CHOOSE k \in 1 .. Cardinality(m.heap) + 1 :
                       /\ <<p, k>> \notin m.heap
                       /\ \A j \in 1 .. k - 1 : <<p, j>> \in m.heap>>

Alloc(m, p) == [m EXCEPT !.heap = @ \union {Fresh(m, p)}, !.ptr[p] = Fresh(m, p)]

(* The pointer itself is left as it is. *)
Free(m, p) == [m EXCEPT !.heap = @ \ {m.ptr[p]},
                        !.bad = @ \/ m.ptr[p] \notin m.heap \union {NoBlock}]

Assign(m, p, q) == [m EXCEPT !.ptr[p] = m.ptr[q]]
Literal(m, p) == [m EXCEPT !.ptr[p] = Static]

(* The pointers end with what they are part of: a variable that goes out  *)
(* of scope, or the structure that holds them.                            *)
Forget(m, pointers) ==
    [m EXCEPT !.ptr = [p \in DOMAIN @ |-> IF p \in pointers THEN NoBlock ELSE @[p]]]

AllocAll(m, pointers) ==
    LET upto[i \in 0 .. Len(pointers)] ==
          IF i = 0 THEN m ELSE Alloc(upto[i - 1], pointers[i])
    IN  upto[Len(pointers)]

FreeAll(m, pointers) ==
    LET upto[i \in 0 .. Len(pointers)] ==
          IF i = 0 THEN m ELSE Free(upto[i - 1], pointers[i])
    IN  upto[Len(pointers)]

(* Each pointer holds a block that is still there, and nothing was freed  *)
(* that was not.                                                          *)
Sound(m) == /\ ~m.bad
            /\ Range(m.ptr) \subseteq m.heap \union {NoBlock, Static}

(* What the blocks that no pointer holds were allocated for. *)
Leaked(m) == {b[1] : b \in m.heap \ Range(m.ptr)}
=============================================================================
