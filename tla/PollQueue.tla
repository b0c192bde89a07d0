----------------------------- MODULE PollQueue -----------------------------
(***************************************************************************)
(* The poll queue: two parallel arrays, pollfds (handed to poll()) and     *)
(* conns (the state of each connection), of which the first n_conns slots  *)
(* are in use and n_conns_alloc are allocated.  Slot 0 is the listening    *)
(* socket.  A slot is identified here by the descriptor it holds; what a   *)
(* connection does between being added and being closed is EventLoop's.    *)
(*                                                                         *)
(* `open` is not a variable of the program: it is the process's descriptor *)
(* table, which accept() and close() change.                               *)
(***************************************************************************)
EXTENDS QueueOps, FiniteSets

CONSTANTS Fds,      \* the descriptors accept() can return
          ListenFd, \* the listening socket's
          NoFd,     \* -1, which close_connection leaves in a slot
          Junk      \* what malloc() and realloc() leave in a fresh slot

ASSUME FdAssumption == /\ ListenFd \notin Fds
                       /\ NoFd \notin Fds \union {ListenFd}
                       /\ Junk \notin Fds \union {ListenFd}

VARIABLES pollfds,       \* the fd of each allocated slot of queue.pollfds
          conns,         \* the fd of each allocated slot of queue.conns
          n_conns,       \* slots in use
          n_conns_alloc, \* slots allocated
          open           \* the sockets the process holds open

vars == <<pollfds, conns, n_conns, n_conns_alloc, open>>

Live == 0 .. n_conns - 1

(* init_conn_pool and the listening socket's slot, set by main. *)
Init ==
    /\ n_conns_alloc = InitialAlloc
    /\ n_conns = 1
    /\ pollfds = [[i \in 0 .. InitialAlloc - 1 |-> Junk] EXCEPT ![0] = ListenFd]
    /\ conns   = [[i \in 0 .. InitialAlloc - 1 |-> Junk] EXCEPT ![0] = ListenFd]
    /\ open = {ListenFd}

AtCapacity == n_conns >= MaxFds

(* main accepts fd unless it is at capacity, and serv_add_connection puts *)
(* it into the slot after the last, in arrays enlarged if it was the last *)
(* but one.                                                               *)
Add(fd) ==
    LET idx   == n_conns
        alloc == GrownAlloc(n_conns + 1, n_conns_alloc)
    IN  /\ ~AtCapacity
        /\ fd \in Fds \ open
        /\ open' = open \union {fd}
        /\ n_conns' = n_conns + 1
        /\ n_conns_alloc' = alloc
        /\ pollfds' = [Resized(pollfds, alloc, Junk) EXCEPT ![idx] = fd]
        /\ conns'   = [Resized(conns, alloc, Junk) EXCEPT ![idx] = fd]

(* Mutants of the next definition: the slot's descriptor is closed after it *)
(* was cleared; and only one of the arrays is swapped.                     *)
CloseCleared(i) ==
    LET last  == n_conns - 1
        alloc == ShrunkAlloc(n_conns - 1, n_conns_alloc)
    IN  /\ open' = open \ {NoFd}
        /\ n_conns' = n_conns - 1
        /\ n_conns_alloc' = alloc
        /\ pollfds' = Resized(SwapRemoved(pollfds, i, last, NoFd), alloc, Junk)
        /\ conns'   = Resized(SwapRemoved(conns, i, last, NoFd), alloc, Junk)
CloseSwapsOne(i) ==
    LET last  == n_conns - 1
        alloc == ShrunkAlloc(n_conns - 1, n_conns_alloc)
    IN  /\ open' = open \ {pollfds[i]}
        /\ n_conns' = n_conns - 1
        /\ n_conns_alloc' = alloc
        /\ pollfds' = Resized(SwapRemoved(pollfds, i, last, NoFd), alloc, Junk)
        /\ conns'   = Resized(conns, alloc, Junk)

(* close_connection of the connection in slot i. *)
Close(i) ==
    LET last  == n_conns - 1
        alloc == ShrunkAlloc(n_conns - 1, n_conns_alloc)
    IN  /\ open' = open \ {pollfds[i]}
        /\ n_conns' = n_conns - 1
        /\ n_conns_alloc' = alloc
        /\ pollfds' = Resized(SwapRemoved(pollfds, i, last, NoFd), alloc, Junk)
        /\ conns'   = Resized(SwapRemoved(conns, i, last, NoFd), alloc, Junk)

(* Mutant of the next definition: the pass starts at slot 0. *)
ServedFromZero == Live

(* main's pass over the queue starts after the listening socket's slot. *)
Served == Live \ {0}

Next == \/ \E fd \in Fds : Add(fd)
        \/ \E i \in Served : Close(i)

Spec == Init /\ [][Next]_vars

-----------------------------------------------------------------------------
(* Both arrays have n_conns_alloc slots, each holding a descriptor, -1 or *)
(* what the allocator left there.                                         *)
TypeOK ==
    LET Slot == Fds \union {ListenFd, NoFd, Junk}
    IN  /\ n_conns \in Nat
        /\ n_conns_alloc \in Nat
        /\ pollfds \in [0 .. n_conns_alloc - 1 -> Slot]
        /\ conns \in [0 .. n_conns_alloc - 1 -> Slot]
        /\ open \subseteq Fds \union {ListenFd}

(* The slots in use are within the arrays, through every growth and every *)
(* shrinking: poll() is never given more entries than there are, and      *)
(* serv_add_connection never writes behind the last one.                  *)
InBounds == /\ 1 <= n_conns
            /\ n_conns <= n_conns_alloc
            /\ n_conns_alloc <= MaxFds

(* The two arrays agree slot by slot: the events poll() reports for a     *)
(* slot are handled with the connection they belong to.                   *)
InSync == \A i \in Live : conns[i] = pollfds[i]

(* No descriptor is in two slots: swap-removal moves an entry, and never  *)
(* leaves a copy that would be polled and closed a second time.           *)
NoDuplicates == \A i, j \in Live : pollfds[i] = pollfds[j] => i = j

(* The sockets in the queue are exactly those the process holds open: no  *)
(* open socket is forgotten by swap-removal or by a shrinking realloc(),  *)
(* and nothing that was closed is polled.                                 *)
QueueMatchesKernel == open = {pollfds[i] : i \in Live}

(* Seen from outside, the queue is the set of open sockets of ConnSet. *)
Sockets == INSTANCE ConnSet
ImplementsConnSet == Sockets!Spec
=============================================================================
