------------------------------ MODULE QueueOps ------------------------------
(***************************************************************************)
(* The sizes of the two parallel arrays of Poll_Queue (mimino.h:84) and    *)
(* what allocating, growing, shrinking and swap-removing do to an array.   *)
(* An array is a function on 0 .. size-1, so that an access outside it is  *)
(* an access outside its domain.                                           *)
(***************************************************************************)
EXTENDS Integers

CONSTANTS MaxFds,    \* conf.max_fds, from fdwatch_get_max_poll_nfds()
          InitAlloc, \* slots allocated at start, at most MaxFds: 1024
          MinAlloc   \* the arrays are not shrunk below this: 20

(* RLIMIT_NOFILE leaves room for the listening socket at the least. *)
ASSUME MaxFdsAssumption == MaxFds \in Nat \ {0}
ASSUME AllocAssumption == InitAlloc \in Nat \ {0} /\ MinAlloc \in Nat \ {0}

MIN(a, b) == IF a < b THEN a ELSE b
MAX(a, b) == IF a > b THEN a ELSE b

(* How many slots the arrays have at start ... *)
InitialAlloc == MIN(MaxFds, InitAlloc)

(* Mutant of the next definition: conf.max_fds is forgotten. *)
GrownAllocUnlimited(n, alloc) == IF n >= alloc THEN alloc * 2 ELSE alloc

(* ... when n connections must fit where there were `alloc` slots ... *)
GrownAlloc(n, alloc) ==
    IF n >= alloc THEN MIN(alloc * 2, MaxFds) ELSE alloc

(* ... and when n connections are left. *)
ShrunkAlloc(n, alloc) ==
    IF alloc > MinAlloc /\ n <= alloc \div 4
    THEN MAX(MinAlloc, alloc \div 2) ELSE alloc

(* Mutant of the next definition: one slot too many. *)
ResizedTooLong(array, size, junk) ==
    [i \in 0 .. size |-> IF i \in DOMAIN array THEN array[i] ELSE junk]

(* realloc(): the slots both sizes have are kept, new ones hold junk. *)
Resized(array, size, junk) ==
    [i \in 0 .. size - 1 |-> IF i \in DOMAIN array THEN array[i] ELSE junk]

(* Slot i is cleared, and then takes what the last used slot holds. *)
SwapRemoved(array, i, last, cleared) ==
    [array EXCEPT ![i] = IF i = last THEN cleared ELSE array[last]]
=============================================================================
