------------------------------- MODULE Buffer -------------------------------
(***************************************************************************)
(* The growing byte buffer (buffer.c) that heads and bodies of responses   *)
(* are written into: an allocation of n_alloc bytes, the first n_items of  *)
(* which are used.  buf_sprintf writes a null behind what it appends,      *)
(* which is not used and is overwritten by what comes next.                *)
(***************************************************************************)
EXTENDS Integers, Sequences

CONSTANTS Byte,          \* what is appended
          Null,          \* the byte vsnprintf ends its output with
          Junk,          \* what malloc() and realloc() leave in fresh memory
          BUFFER_GROWTH, \* 4096
          InitSize,      \* data_size of init_buf: 4096
          MaxLen,        \* bound: what one call appends
          MaxItems       \* bound: what all calls together append

ASSUME BufferAssumption ==
    /\ Null \notin Byte /\ Junk \notin Byte
    /\ BUFFER_GROWTH \in Nat \ {0}
    /\ InitSize \in Nat /\ MaxLen \in Nat /\ MaxItems \in Nat

VARIABLES data,    \* the allocation: a function on 0 .. n_alloc - 1
          n_items,
          n_alloc

vars == <<data, n_items, n_alloc>>

(* init_buf *)
Init == /\ data = [i \in 0 .. InitSize - 1 |-> Junk]
        /\ n_items = 0
        /\ n_alloc = InitSize

(* buf_grow: the size that n_alloc is raised to. *)
Grown(alloc, min_growth) ==
    alloc + (IF min_growth > BUFFER_GROWTH THEN min_growth ELSE BUFFER_GROWTH)

(* How much is allocated before n bytes are written behind the used ones. *)
AllocFor(n) == IF n_items + n > n_alloc THEN Grown(n_alloc, n) ELSE n_alloc

(* Mutant of the next definition: malloc() in the place of realloc(). *)
CopiedFresh(src, size) ==
    [i \in (0 .. size - 1) \union (n_items .. n_items + Len(src) - 1) |->
        IF i \in n_items .. n_items + Len(src) - 1 THEN src[i - n_items + 1]
        ELSE Junk]

(* realloc() to `size` bytes, and then the bytes of src copied to the end *)
(* of the used ones. Copying over the end of the allocation would add to  *)
(* its domain.                                                            *)
Copied(src, size) ==
    [i \in (0 .. size - 1) \union (n_items .. n_items + Len(src) - 1) |->
        IF i \in n_items .. n_items + Len(src) - 1 THEN src[i - n_items + 1]
        ELSE IF i < n_alloc THEN data[i] ELSE Junk]

(* Appends src; `room` bytes are made sure of first, `used` are used. *)
Put(src, room, used) == /\ n_items + used <= MaxItems
                        /\ data' = Copied(src, AllocFor(room))
                        /\ n_alloc' = AllocFor(room)
                        /\ n_items' = n_items + used

buf_push(c) == Put(<<c>>, 1, 1)

(* buf_append, buf_append_str and buf_append_buf, which do nothing when   *)
(* there is nothing to append.                                            *)
buf_append(src) == src # <<>> /\ Put(src, Len(src), Len(src))

(* Mutant of the next definition: the null's place is not made sure of.   *)
SprintfNoNullRoom(text) == Put(Append(text, Null), Len(text), Len(text))

(* buf_sprintf of a format whose result is text *)
buf_sprintf(text) == Put(Append(text, Null), Len(text) + 1, Len(text))

Texts == UNION {[1 .. n -> Byte] : n \in 0 .. MaxLen}

Next == \/ \E c \in Byte : buf_push(c)
        \/ \E src \in Texts : buf_append(src)
        \/ \E text \in Texts : buf_sprintf(text)

Spec == Init /\ [][Next]_vars

-----------------------------------------------------------------------------
(* Nothing is written outside the allocation, whose size n_alloc is. *)
TypeOK == /\ n_alloc \in Nat
          /\ n_items \in 0 .. n_alloc
          /\ data \in [0 .. n_alloc - 1 -> Byte \union {Null, Junk}]

Contents == [i \in 1 .. n_items |-> data[i - 1]]

(* What is used of a buffer is what was appended: no terminating null and *)
(* no uninitialised byte is ever in the middle of a response.             *)
OnlyBytes == \A i \in 1 .. n_items : data[i - 1] \in Byte

(* What was appended stays where it was, however the buffer grows. *)
AppendOnly == [][/\ n_items <= n_items'
                 /\ \A i \in 1 .. n_items : data'[i - 1] = data[i - 1]]_vars
=============================================================================
