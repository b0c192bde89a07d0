-------------------------- MODULE PollQueueProofs --------------------------
(***************************************************************************)
(* The poll queue stays within its arrays, keeps both of them in step and  *)
(* holds exactly the sockets the process holds open, for every limit on    *)
(* descriptors and every initial and minimal size; and it implements       *)
(* ConnSet.  The invariant that carries all of it is QueueInv.             *)
(***************************************************************************)
EXTENDS PollQueue, FiniteSetTheorems, TLAPS

Slot == Fds \union {ListenFd, NoFd, Junk}

(* The checked invariants, the listening socket's place, and the number of *)
(* open sockets, which is what the capacity check in main stands for.      *)
QueueInv == /\ TypeOK
            /\ InBounds
            /\ InSync
            /\ NoDuplicates
            /\ QueueMatchesKernel
            /\ pollfds[0] = ListenFd
            /\ IsFiniteSet(open)
            /\ Cardinality(open) = n_conns

-----------------------------------------------------------------------------
(* serv_add_connection's reallocation leaves room for one more connection, *)
(* never shrinks, and stays within conf.max_fds (mimino.c:759).            *)
LEMMA GrownAllocRoom ==
    ASSUME NEW n \in Nat \ {0}, NEW alloc \in Nat,
           n <= alloc, alloc <= MaxFds, n < MaxFds
    PROVE  /\ GrownAlloc(n + 1, alloc) \in Nat
           /\ n + 1 <= GrownAlloc(n + 1, alloc)
           /\ alloc <= GrownAlloc(n + 1, alloc)
           /\ GrownAlloc(n + 1, alloc) <= MaxFds
  BY MaxFdsAssumption DEF GrownAlloc, MIN

(* close_connection's reallocation keeps room for the n connections left  *)
(* and never grows the arrays (mimino.c:494).                             *)
LEMMA ShrunkAllocRoom ==
    ASSUME NEW n \in Nat, NEW alloc \in Nat, n <= alloc
    PROVE  /\ ShrunkAlloc(n, alloc) \in Nat
           /\ n <= ShrunkAlloc(n, alloc)
           /\ ShrunkAlloc(n, alloc) <= alloc
  <1>1. CASE alloc > MinAlloc /\ n <= alloc \div 4
    <2>1. /\ alloc \div 2 \in Nat
          /\ alloc \div 2 <= alloc
          /\ alloc \div 4 <= alloc \div 2
      OBVIOUS
    <2> HIDE DEF MAX
    <2>2. /\ MAX(MinAlloc, alloc \div 2) \in Nat
          /\ alloc \div 2 <= MAX(MinAlloc, alloc \div 2)
          /\ MAX(MinAlloc, alloc \div 2) <= alloc
      BY <1>1, <2>1, AllocAssumption DEF MAX
    <2>3. n <= MAX(MinAlloc, alloc \div 2)
      BY <1>1, <2>1, <2>2, AllocAssumption
    <2> QED
      BY <1>1, <2>2, <2>3 DEF ShrunkAlloc
  <1>2. CASE ~(alloc > MinAlloc /\ n <= alloc \div 4)
    BY <1>2 DEF ShrunkAlloc
  <1> QED
    BY <1>1, <1>2

-----------------------------------------------------------------------------
LEMMA QueueInvInit == Init => QueueInv
  <1> SUFFICES ASSUME Init PROVE QueueInv
    OBVIOUS
  <1>1. InitialAlloc \in Nat /\ 1 <= InitialAlloc /\ InitialAlloc <= MaxFds
    BY MaxFdsAssumption, AllocAssumption DEF InitialAlloc, MIN
  <1>2. Live = {0}
    BY DEF Init, Live
  <1>3. /\ pollfds \in [0 .. n_conns_alloc - 1 -> Slot]
        /\ conns \in [0 .. n_conns_alloc - 1 -> Slot]
        /\ pollfds[0] = ListenFd
        /\ conns[0] = ListenFd
    BY <1>1 DEF Init, Slot
  <1>4. TypeOK /\ InBounds
    BY <1>1, <1>3 DEF Init, TypeOK, InBounds, Slot
  <1>5. InSync /\ NoDuplicates /\ QueueMatchesKernel
    BY <1>2, <1>3 DEF Init, InSync, NoDuplicates, QueueMatchesKernel
  <1>6. IsFiniteSet(open) /\ Cardinality(open) = n_conns
    BY FS_Singleton DEF Init
  <1> QED
    BY <1>3, <1>4, <1>5, <1>6 DEF QueueInv

(* Accepting a client keeps the invariant. *)
LEMMA QueueInvAdd ==
    ASSUME QueueInv, NEW fd \in Fds, Add(fd)
    PROVE  QueueInv'
  <1> DEFINE idx == n_conns
             alloc == GrownAlloc(n_conns + 1, n_conns_alloc)
  <1>1. /\ n_conns \in Nat \ {0}
        /\ n_conns_alloc \in Nat
        /\ n_conns <= n_conns_alloc
        /\ n_conns_alloc <= MaxFds
        /\ n_conns < MaxFds
    BY MaxFdsAssumption DEF QueueInv, TypeOK, InBounds, Add, AtCapacity
  <1>2. /\ alloc \in Nat
        /\ n_conns + 1 <= alloc
        /\ n_conns_alloc <= alloc
        /\ alloc <= MaxFds
    BY <1>1, GrownAllocRoom
  <1>3. /\ fd \notin open
        /\ open' = open \union {fd}
        /\ n_conns' = n_conns + 1
        /\ n_conns_alloc' = alloc
        /\ pollfds' = [Resized(pollfds, alloc, Junk) EXCEPT ![idx] = fd]
        /\ conns' = [Resized(conns, alloc, Junk) EXCEPT ![idx] = fd]
    BY DEF Add
  <1>4. /\ pollfds \in [0 .. n_conns_alloc - 1 -> Slot]
        /\ conns \in [0 .. n_conns_alloc - 1 -> Slot]
        /\ fd \in Slot
        /\ Junk \in Slot
    BY DEF QueueInv, TypeOK, Slot
  <1> HIDE DEF alloc
  <1>5. idx \in 0 .. alloc - 1
    BY <1>1, <1>2
  <1>6. /\ pollfds' \in [0 .. alloc - 1 -> Slot]
        /\ pollfds'[idx] = fd
        /\ \A k \in 0 .. n_conns_alloc - 1 : k # idx => pollfds'[k] = pollfds[k]
    <2>1. /\ Resized(pollfds, alloc, Junk) \in [0 .. alloc - 1 -> Slot]
          /\ \A k \in 0 .. n_conns_alloc - 1 :
                Resized(pollfds, alloc, Junk)[k] = pollfds[k]
      BY <1>1, <1>2, <1>4 DEF Resized
    <2> QED
      BY <1>1, <1>2, <1>3, <1>4, <1>5, <2>1
  <1>7. /\ conns' \in [0 .. alloc - 1 -> Slot]
        /\ conns'[idx] = fd
        /\ \A k \in 0 .. n_conns_alloc - 1 : k # idx => conns'[k] = conns[k]
    <2>1. /\ Resized(conns, alloc, Junk) \in [0 .. alloc - 1 -> Slot]
          /\ \A k \in 0 .. n_conns_alloc - 1 :
                Resized(conns, alloc, Junk)[k] = conns[k]
      BY <1>1, <1>2, <1>4 DEF Resized
    <2> QED
      BY <1>1, <1>2, <1>3, <1>4, <1>5, <2>1
  <1>8. /\ Live' = Live \union {idx}
        /\ idx \notin Live
        /\ \A k \in Live : k \in 0 .. n_conns_alloc - 1 /\ k # idx
    BY <1>1, <1>3 DEF Live
  <1>9. /\ \A k \in Live : pollfds'[k] = pollfds[k] /\ conns'[k] = conns[k]
        /\ \A k \in Live : pollfds[k] \in open
    BY <1>6, <1>7, <1>8 DEF QueueInv, QueueMatchesKernel
  <1>10. TypeOK'
    BY <1>2, <1>3, <1>6, <1>7 DEF QueueInv, TypeOK, Slot
  <1>11. InBounds'
    BY <1>1, <1>2, <1>3 DEF InBounds
  <1>12. InSync'
    BY <1>6, <1>7, <1>8, <1>9 DEF QueueInv, InSync
  <1>13. NoDuplicates'
    BY <1>3, <1>6, <1>8, <1>9 DEF QueueInv, NoDuplicates
  <1>14. QueueMatchesKernel'
    BY <1>3, <1>6, <1>8, <1>9 DEF QueueInv, QueueMatchesKernel
  <1>15. pollfds'[0] = ListenFd
    BY <1>1, <1>9 DEF QueueInv, Live
  <1>16. IsFiniteSet(open') /\ Cardinality(open') = n_conns'
    BY <1>3, FS_AddElement DEF QueueInv
  <1> QED
    BY <1>10, <1>11, <1>12, <1>13, <1>14, <1>15, <1>16 DEF QueueInv

(* Closing a connection keeps the invariant. *)
LEMMA QueueInvClose ==
    ASSUME QueueInv, NEW i \in Live \ {0}, Close(i)
    PROVE  /\ QueueInv'
           /\ pollfds[i] \in open \ {ListenFd}
           /\ open' = open \ {pollfds[i]}
  <1> DEFINE last == n_conns - 1
             alloc == ShrunkAlloc(n_conns - 1, n_conns_alloc)
  <1>1. /\ n_conns \in Nat
        /\ n_conns_alloc \in Nat
        /\ n_conns <= n_conns_alloc
        /\ n_conns_alloc <= MaxFds
        /\ last \in 0 .. n_conns_alloc - 1
        /\ last \in Nat
        /\ i \in 1 .. last
        /\ i \in 0 .. last
    BY DEF QueueInv, TypeOK, InBounds, Live
  <1>2. /\ alloc \in Nat
        /\ last <= alloc
        /\ alloc <= n_conns_alloc
    BY <1>1, ShrunkAllocRoom
  <1>3. /\ open' = open \ {pollfds[i]}
        /\ n_conns' = last
        /\ n_conns_alloc' = alloc
        /\ pollfds' = Resized(SwapRemoved(pollfds, i, last, NoFd), alloc, Junk)
        /\ conns' = Resized(SwapRemoved(conns, i, last, NoFd), alloc, Junk)
    BY DEF Close
  <1>4. /\ pollfds \in [0 .. n_conns_alloc - 1 -> Slot]
        /\ conns \in [0 .. n_conns_alloc - 1 -> Slot]
        /\ NoFd \in Slot
        /\ Junk \in Slot
    BY DEF QueueInv, TypeOK, Slot
  <1> HIDE DEF alloc, last
  <1>5. /\ pollfds' \in [0 .. alloc - 1 -> Slot]
        /\ \A k \in 0 .. last - 1 :
              pollfds'[k] = IF k = i THEN pollfds[last] ELSE pollfds[k]
    <2> DEFINE swapped == SwapRemoved(pollfds, i, last, NoFd)
    <2>1. /\ swapped \in [0 .. n_conns_alloc - 1 -> Slot]
          /\ \A k \in 0 .. last - 1 :
                swapped[k] = IF k = i THEN pollfds[last] ELSE pollfds[k]
      BY <1>1, <1>4 DEF SwapRemoved
    <2> HIDE DEF swapped
    <2>2. /\ Resized(swapped, alloc, Junk) \in [0 .. alloc - 1 -> Slot]
          /\ \A k \in 0 .. last - 1 :
                Resized(swapped, alloc, Junk)[k] = swapped[k]
      BY <1>1, <1>2, <1>4, <2>1 DEF Resized
    <2> QED
      BY <1>3, <2>1, <2>2 DEF swapped
  <1>6. /\ conns' \in [0 .. alloc - 1 -> Slot]
        /\ \A k \in 0 .. last - 1 :
              conns'[k] = IF k = i THEN conns[last] ELSE conns[k]
    <2> DEFINE swapped == SwapRemoved(conns, i, last, NoFd)
    <2>1. /\ swapped \in [0 .. n_conns_alloc - 1 -> Slot]
          /\ \A k \in 0 .. last - 1 :
                swapped[k] = IF k = i THEN conns[last] ELSE conns[k]
      BY <1>1, <1>4 DEF SwapRemoved
    <2> HIDE DEF swapped
    <2>2. /\ Resized(swapped, alloc, Junk) \in [0 .. alloc - 1 -> Slot]
          /\ \A k \in 0 .. last - 1 :
                Resized(swapped, alloc, Junk)[k] = swapped[k]
      BY <1>1, <1>2, <1>4, <2>1 DEF Resized
    <2> QED
      BY <1>3, <2>1, <2>2 DEF swapped
  <1>7. /\ Live = (0 .. last - 1) \union {last}
        /\ Live' = 0 .. last - 1
        /\ last \notin Live'
        /\ 0 \in Live'
        /\ i # 0
    BY <1>1, <1>3 DEF Live, last
  <1>8. pollfds[i] \in open \ {ListenFd}
    BY <1>1, <1>7 DEF QueueInv, QueueMatchesKernel, NoDuplicates
  <1>9. TypeOK'
    BY <1>1, <1>2, <1>3, <1>5, <1>6 DEF QueueInv, TypeOK, Slot
  <1>10. InBounds'
    BY <1>1, <1>2, <1>3, MaxFdsAssumption DEF InBounds
  <1>11. InSync'
    BY <1>5, <1>6, <1>7 DEF QueueInv, InSync
  <1>12. NoDuplicates'
    <2> SUFFICES ASSUME NEW k \in Live', NEW m \in Live',
                        pollfds'[k] = pollfds'[m]
                 PROVE  k = m
      BY DEF NoDuplicates
    <2> DEFINE was(j) == IF j = i THEN last ELSE j
    <2>1. /\ was(k) \in Live /\ pollfds'[k] = pollfds[was(k)]
          /\ was(m) \in Live /\ pollfds'[m] = pollfds[was(m)]
      BY <1>5, <1>7
    <2>2. was(k) = was(m)
      BY <2>1 DEF QueueInv, NoDuplicates
    <2> QED
      BY <1>7, <2>2
  <1>13. QueueMatchesKernel'
    <2>1. ASSUME NEW k \in Live' PROVE pollfds'[k] \in open'
      <3>1. PICK j \in Live : pollfds'[k] = pollfds[j] /\ j # i
        BY <1>5, <1>7
      <3>2. pollfds[j] \in open /\ pollfds[j] # pollfds[i]
        BY <1>7, <3>1 DEF QueueInv, QueueMatchesKernel, NoDuplicates
      <3>. QED  BY <1>3, <3>1, <3>2
    <2>2. ASSUME NEW f \in open' PROVE \E k \in Live' : pollfds'[k] = f
      <3>1. PICK k \in Live : pollfds[k] = f /\ k # i
        BY <1>3 DEF QueueInv, QueueMatchesKernel
      <3>2. CASE k = last
        BY <1>1, <1>5, <1>7, <3>1, <3>2
      <3>3. CASE k # last
        BY <1>5, <1>7, <3>1, <3>3
      <3> QED
        BY <3>2, <3>3
    <2> QED
      BY <2>1, <2>2 DEF QueueMatchesKernel
  <1>14. pollfds'[0] = ListenFd
    BY <1>5, <1>7 DEF QueueInv
  <1>15. IsFiniteSet(open') /\ Cardinality(open') = n_conns'
    BY <1>3, <1>8, FS_RemoveElement DEF QueueInv, last
  <1> QED
    BY <1>3, <1>8, <1>9, <1>10, <1>11, <1>12, <1>13, <1>14, <1>15 DEF QueueInv

LEMMA QueueInvStep == QueueInv /\ [Next]_vars => QueueInv'
  <1> SUFFICES ASSUME QueueInv, [Next]_vars PROVE QueueInv'
    OBVIOUS
  <1>1. ASSUME NEW fd \in Fds, Add(fd) PROVE QueueInv'
    BY <1>1, QueueInvAdd
  <1>2. ASSUME NEW i \in Live \ {0}, Close(i) PROVE QueueInv'
    BY <1>2, QueueInvClose
  <1>3. CASE UNCHANGED vars
    BY <1>3 DEF vars, QueueInv, TypeOK, InBounds, InSync, NoDuplicates,
                QueueMatchesKernel, Live
  <1> QED
    BY <1>1, <1>2, <1>3 DEF Next, Served

LEMMA QueueInvAlways == Spec => []QueueInv
  BY QueueInvInit, QueueInvStep, PTL DEF Spec

-----------------------------------------------------------------------------
(* The arrays hold descriptors and nothing else in every reachable state. *)
THEOREM TypeCorrect == Spec => []TypeOK
  <1>1. QueueInv => TypeOK
    BY DEF QueueInv
  <1> QED
    BY <1>1, QueueInvAlways, PTL

(* The slots in use are inside both arrays, and the arrays within max_fds, *)
(* whatever the limit and the sizes are.                                   *)
THEOREM StaysInBounds == Spec => []InBounds
  <1>1. QueueInv => InBounds
    BY DEF QueueInv
  <1> QED
    BY <1>1, QueueInvAlways, PTL

(* pollfds and conns stay parallel, and no descriptor is in two slots. *)
THEOREM StaysParallel == Spec => [](InSync /\ NoDuplicates)
  <1>1. QueueInv => InSync /\ NoDuplicates
    BY DEF QueueInv
  <1> QED
    BY <1>1, QueueInvAlways, PTL

(* The queue holds the process's open sockets, all of them and no other. *)
THEOREM HoldsOpenSockets == Spec => []QueueMatchesKernel
  <1>1. QueueInv => QueueMatchesKernel
    BY DEF QueueInv
  <1> QED
    BY <1>1, QueueInvAlways, PTL

(* The queue implements ConnSet: it only ever adds a socket while there is *)
(* room for it under max_fds, and only ever drops a client's.              *)
THEOREM Refinement == Spec => ImplementsConnSet
  <1>1. Init => Sockets!Init
    BY DEF Init, Sockets!Init
  <1>2. QueueInv /\ [Next]_vars => [Sockets!Next]_open
    <2> SUFFICES ASSUME QueueInv, [Next]_vars PROVE [Sockets!Next]_open
      OBVIOUS
    <2>1. ASSUME NEW fd \in Fds, Add(fd) PROVE Sockets!Next
      <3>1. Cardinality(open) < MaxFds
        BY <2>1, MaxFdsAssumption
        DEF QueueInv, TypeOK, Add, AtCapacity
      <3>2. Sockets!Cardinality(open) = Cardinality(open)
        BY DEF Sockets!Cardinality, Cardinality
      <3> QED
        BY <2>1, <3>1, <3>2 DEF Add, Sockets!Next, Sockets!Accept
    <2>2. ASSUME NEW i \in Live \ {0}, Close(i) PROVE Sockets!Next
      <3>1. /\ pollfds[i] \in open \ {ListenFd}
            /\ open' = open \ {pollfds[i]}
        BY <2>2, QueueInvClose
      <3>2. pollfds[i] \in Fds
        BY <3>1 DEF QueueInv, TypeOK
      <3> QED
        BY <3>1, <3>2 DEF Sockets!Next, Sockets!Close
    <2>3. CASE UNCHANGED vars
      BY <2>3 DEF vars
    <2> QED
      BY <2>1, <2>2, <2>3 DEF Next, Served
  <1> QED
    BY <1>1, <1>2, QueueInvAlways, PTL
    DEF Spec, ImplementsConnSet, Sockets!Spec
=============================================================================
