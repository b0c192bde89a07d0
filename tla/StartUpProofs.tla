--------------------------- MODULE StartUpProofs ---------------------------
(***************************************************************************)
(* main enters its loop with one listening socket, with a queue that has a *)
(* slot for it, and with the configuration that it was asked for: for      *)
(* every width of int, every limit on descriptors, every list of addresses *)
(* and every command line.                                                 *)
(***************************************************************************)
EXTENDS StartUp, Recursion, FiniteSetTheorems, TLAPS

Failed == {"stream", "no SO_REUSEADDR"}

(* All addresses of one family come before those of the other. *)
Sorted(list) == \A j, k \in 1 .. Len(list) : j < k /\ list[k] = "IPv4" => list[j] = "IPv4"

(* The socket that sockbind returned is for the address it was tried with. *)
IsBound == /\ addrs # <<>>
           /\ listen_sock \in DOMAIN fds
           /\ fds[listen_sock] = Head(addrs)
           /\ \A fd \in DOMAIN fds \ {listen_sock} : fds[fd] \in Failed

StartInv ==
    /\ max_fds \in Int
    /\ pc \in {"resolve", "bind", "listen", "pool", "loop"} => max_fds # 0
    /\ pc = "loop" => n_conns_alloc = PoolSize /\ n_conns_alloc >= 0
    /\ addrs \in Seq({"IPv4", "IPv6"}) /\ Sorted(addrs)
    /\ 1 \in DOMAIN fds
    /\ pc \in {"parse", "resolve", "bind"} => \A fd \in DOMAIN fds : fds[fd] \in Failed
    /\ pc = "listen" => IsBound \/ (listen_sock = 1 /\ fds[1] \in Failed)
    /\ pc \in {"pool", "loop"} => IsBound

-----------------------------------------------------------------------------
(* An int keeps what fits into it; no limit becomes 0, as max_fds would    *)
(* have to be for a queue without any slot.                                *)
LEMMA ToIntType == ASSUME NEW n \in Nat PROVE ToInt(n) \in Int
  BY StartUpAssumption DEF ToInt, INT_VALUES

LEMMA ToIntOfLimit ==
    ASSUME NEW cur \in Limits
    PROVE  /\ cur \in Nat /\ cur - 1 \in Nat
           /\ ToInt(cur) # 0
           /\ ToInt(cur - 1) # 0
  <1> DEFINE m == INT_VALUES
  <1>1. m \in Nat \ {0} /\ m = 2 * (INT_MAX + 1) /\ INT_MAX \in Nat \ {0}
    BY StartUpAssumption DEF INT_VALUES
  <1>2. CASE cur \in 4 .. INT_MAX
    <2>1. cur % m = cur /\ (cur - 1) % m = cur - 1
      BY <1>1, <1>2
    <2>. QED  BY <1>1, <1>2, <2>1 DEF ToInt
  <1>3. CASE cur = Unlimited
    <2>1. cur = 7 * m + (m - 1) /\ cur - 1 = 7 * m + (m - 2)
      BY <1>1, <1>3 DEF Unlimited
    <2>2. cur % m = m - 1 /\ (cur - 1) % m = m - 2
      BY <1>1, <2>1
    <2>. QED  BY <1>1, <2>1, <2>2 DEF ToInt
  <1>. QED  BY <1>2, <1>3, StartUpAssumption

LEMMA InOrderOfTrialSorts ==
    ASSUME NEW found \in Families
    PROVE  InOrderOfTrial(found) \in Seq({"IPv4", "IPv6"}) /\ Sorted(InOrderOfTrial(found))
  <1>1. ASSUME NEW family PROVE Count(found, family) \in Nat
    <2>1. found \in Seq(Family)
      BY StartUpAssumption
    <2>2. IsFiniteSet(DOMAIN found)
      BY <2>1, FS_Interval
    <2>. QED  BY <2>2, FS_Subset, FS_CardinalityType DEF Count
  <1>2. PICK a, b \in Nat : a = Count(found, "IPv4") /\ b = Count(found, "IPv6")
    BY <1>1
  <1>3. InOrderOfTrial(found) = [k \in 1 .. a + b |-> IF k <= a THEN "IPv4" ELSE "IPv6"]
    BY <1>2 DEF InOrderOfTrial
  <1>. QED  BY <1>2, <1>3 DEF Sorted

-----------------------------------------------------------------------------
LEMMA InitIsSound == StartInit => StartInv
  <1> SUFFICES ASSUME StartInit PROVE StartInv
    OBVIOUS
  <1>1. addrs \in Seq({"IPv4", "IPv6"}) /\ Sorted(addrs)
    <2>1. addrs = <<>>
      BY DEF StartInit
    <2>2. <<>> \in Seq({"IPv4", "IPv6"}) /\ Len(<<>>) = 0
      OBVIOUS
    <2>. QED  BY <2>1, <2>2 DEF Sorted
  <1>2. DOMAIN fds = 0 .. 2 /\ \A fd \in DOMAIN fds : fds[fd] \in Failed
    BY DEF StartInit, Std, Failed
  <1>3. max_fds \in Int /\ pc = "parse"
    BY DEF StartInit
  <1>. QED  BY <1>1, <1>2, <1>3 DEF StartInv

(* A step of which only addrs, fds and pc matter, and leaves those as they *)
(* are, or exits.                                                          *)
LEMMA ExitIsSound ==
    ASSUME StartInv, pc' = "exited", UNCHANGED <<max_fds, fds, addrs>>
    PROVE  StartInv'
  BY DEF StartInv, Sorted

LEMMA ConfigureIsSound == ASSUME StartInv, Configure PROVE StartInv'
  <1>1. PICK cur \in Limits, max \in Limits :
            max_fds' \in {DefaultMaxNfds, ToInt(max - 1), ToInt(cur)}
    BY DEF Configure, fdwatch
  <1>2. max_fds' \in Int \ {0}
    <2>1. /\ cur \in Nat /\ ToInt(cur) \in Int \ {0}
          /\ max - 1 \in Nat /\ ToInt(max - 1) \in Int \ {0}
      BY ToIntType, ToIntOfLimit
    <2>. QED  BY <1>1, <2>1, StartUpAssumption
  <1>. QED  BY <1>2 DEF StartInv, Configure, Sorted

LEMMA ResolveIsSound == ASSUME StartInv, Resolve PROVE StartInv'
  <1>1. addrs' \in Seq({"IPv4", "IPv6"}) /\ Sorted(addrs)'
    <2>1. PICK found \in Families : addrs' = InOrderOfTrial(found)
      BY DEF Resolve
    <2>. QED  BY <2>1, InOrderOfTrialSorts DEF Sorted
  <1>. QED  BY <1>1 DEF StartInv, Resolve

(* After sockbind what was open still is, as what it was. *)
LEMMA BindIsSound == ASSUME StartInv, Bind PROVE StartInv'
  <1>1. /\ addrs \in Seq({"IPv4", "IPv6"}) /\ Sorted(addrs) /\ addrs # <<>>
        /\ \A fd \in DOMAIN fds : fds[fd] \in Failed
        /\ 1 \in DOMAIN fds
    BY DEF StartInv, Bind
  <1>2. PICK out \in sockbind(Head(addrs)) :
            /\ fds' = out.fds
            /\ IF out.ret = -1
               THEN addrs' = Tail(addrs) /\ UNCHANGED <<listen_sock, pc>>
               ELSE listen_sock' = out.ret /\ pc' = "listen" /\ UNCHANGED addrs
    BY DEF Bind
  <1>3. addrs' \in Seq({"IPv4", "IPv6"}) /\ Sorted(addrs)'
    <2>1. CASE addrs' = addrs
      BY <1>1, <2>1 DEF Sorted
    <2>2. CASE addrs' = Tail(addrs)
      <3>1. /\ Tail(addrs) \in Seq({"IPv4", "IPv6"})
            /\ Len(Tail(addrs)) = Len(addrs) - 1
            /\ \A k \in 1 .. Len(addrs) - 1 : Tail(addrs)[k] = addrs[k + 1]
        BY <1>1
      <3>2. Len(addrs) \in Nat /\ \A k \in 1 .. Len(addrs) - 1 : k + 1 \in 1 .. Len(addrs)
        BY <1>1
      <3>3. \A j, k \in 1 .. Len(addrs) - 1 : j < k => j + 1 < k + 1
        BY <3>2
      <3>4. Sorted(Tail(addrs))
        BY <1>1, <3>1, <3>2, <3>3 DEF Sorted
      <3>. QED  BY <2>2, <3>1, <3>4 DEF Sorted
    <2>. QED  BY <1>2, <2>1, <2>2
  <1>4. UNCHANGED <<max_fds, n_conns_alloc>> /\ pc = "bind"
    BY DEF Bind
  <1>5. CASE out = Outcome(fds, -1)
    BY <1>1, <1>2, <1>3, <1>4, <1>5 DEF StartInv, Outcome
  <1>6. ASSUME NEW fd \in NewFds, out = Outcome(With(fd, "no SO_REUSEADDR"), -1)
        PROVE  StartInv'
    <2>1. 1 \in DOMAIN fds' /\ \A x \in DOMAIN fds' : fds'[x] \in Failed
      BY <1>1, <1>2, <1>6 DEF Outcome, With, Failed
    <2>2. pc' = "bind"
      BY <1>2, <1>4, <1>6 DEF Outcome
    <2>. QED  BY <1>3, <1>4, <2>1, <2>2 DEF StartInv
  <1>7. ASSUME NEW fd \in NewFds, out = Outcome(With(fd, Head(addrs)), fd)
        PROVE  StartInv'
    <2>1. fd \notin DOMAIN fds /\ fd # -1
      BY DEF NewFds
    <2>2. /\ pc' = "listen" /\ listen_sock' = fd /\ addrs' = addrs
          /\ fds' = With(fd, Head(addrs))
      BY <1>2, <1>7, <2>1 DEF Outcome
    <2>3. IsBound' /\ 1 \in DOMAIN fds'
      BY <1>1, <2>1, <2>2 DEF IsBound, With
    <2>. QED  BY <1>3, <1>4, <2>2, <2>3 DEF StartInv
  <1>. QED  BY <1>2, <1>5, <1>6, <1>7 DEF sockbind

(* listen() tells init_server's 1, a standard stream, from a socket. *)
LEMMA ListenIsSound == ASSUME StartInv, Listen PROVE StartInv'
  <1>1. IsBound
    BY DEF StartInv, Listen, Failed
  <1>. QED  BY <1>1 DEF StartInv, Listen, IsBound, Sorted

LEMMA InitPoolIsSound == ASSUME StartInv, InitPool PROVE StartInv'
  <1>1. IsBound' /\ PoolSize' = PoolSize
    BY DEF StartInv, InitPool, IsBound, PoolSize
  <1>2. PoolSize \in Int
    BY StartUpAssumption DEF StartInv, PoolSize
  <1>3. CASE PoolSize < 0
    BY <1>3, ExitIsSound DEF InitPool
  <1>4. CASE ~(PoolSize < 0)
    BY <1>1, <1>2, <1>4 DEF StartInv, InitPool, Sorted
  <1>. QED  BY <1>3, <1>4

LEMMA StepIsSound == StartInv /\ [StartNext]_startVars => StartInv'
  <1> SUFFICES ASSUME StartInv, [StartNext]_startVars PROVE StartInv'
    OBVIOUS
  <1>1. CASE Parse
    BY <1>1 DEF Parse, StartInv, Sorted
  <1>2. CASE UsageError
    BY <1>2, ExitIsSound DEF UsageError
  <1>3. CASE Configure
    BY <1>3, ConfigureIsSound
  <1>4. CASE ResolveFails
    BY <1>4 DEF ResolveFails, StartInv, Sorted
  <1>5. CASE Resolve
    BY <1>5, ResolveIsSound
  <1>6. CASE Bind
    BY <1>6, BindIsSound
  <1>7. CASE NothingBound
    BY <1>7, ExitIsSound DEF NothingBound
  <1>8. CASE Listen
    BY <1>8, ListenIsSound
  <1>9. CASE ListenFails
    BY <1>9, ExitIsSound DEF ListenFails
  <1>10. CASE InitPool
    BY <1>10, InitPoolIsSound
  <1>11. CASE MallocFails
    BY <1>11, ExitIsSound DEF MallocFails
  <1>12. CASE Started \/ UNCHANGED startVars
    BY <1>12 DEF Started, startVars, StartInv, IsBound, PoolSize, Sorted
  <1>. QED  BY <1>1, <1>2, <1>3, <1>4, <1>5, <1>6, <1>7, <1>8, <1>9, <1>10,
              <1>11, <1>12 DEF StartNext

LEMMA StartInvAlways == StartSpec => []StartInv
  BY InitIsSound, StepIsSound, PTL DEF StartSpec

-----------------------------------------------------------------------------
(* When main enters its loop (mimino.c:900), its socket is one that was    *)
(* bound, on IPv6 only if no IPv4 address is left, and no other is open    *)
(* but those that setsockopt() failed on.                                  *)
THEOREM OneSocket == StartSpec => []LoopHasOneSocket
  <1>1. StartInv => LoopHasOneSocket
    <2> SUFFICES ASSUME StartInv, pc = "loop"
                 PROVE  /\ fds[listen_sock] \in {"IPv4", "IPv6"}
                        /\ fds[listen_sock] = "IPv6" => "IPv4" \notin Range(addrs)
                        /\ \A fd \in DOMAIN fds \ {listen_sock} :
                              fds[fd] \in {"stream", "no SO_REUSEADDR"}
      BY DEF LoopHasOneSocket
    <2>1. IsBound /\ addrs \in Seq({"IPv4", "IPv6"}) /\ Sorted(addrs)
      BY DEF StartInv
    <2>2. fds[listen_sock] = addrs[1] /\ addrs[1] \in {"IPv4", "IPv6"} /\ Len(addrs) > 0
      BY <2>1 DEF IsBound
    <2>3. ASSUME addrs[1] = "IPv6", "IPv4" \in Range(addrs) PROVE FALSE
      <3>1. PICK k \in 1 .. Len(addrs) : addrs[k] = "IPv4"
        BY <2>1, <2>3 DEF Range
      <3>. QED  BY <2>1, <2>2, <2>3, <3>1 DEF Sorted
    <2>. QED  BY <2>1, <2>2, <2>3 DEF IsBound, Failed
  <1>. QED  BY <1>1, StartInvAlways, PTL

(* init_conn_pool (mimino.c:197) has allocated a slot for the listening    *)
(* socket, and not more than max_fds, when main writes it.                 *)
THEOREM PoolHasRoom == StartSpec => []PoolHoldsListener
  <1>1. StartInv => PoolHoldsListener
    BY StartUpAssumption DEF StartInv, PoolHoldsListener, PoolSize
  <1>. QED  BY <1>1, StartInvAlways, PTL

-----------------------------------------------------------------------------
(* What an argument is, and what the argdefs of main are. *)
Text == Seq(STRING \union {"NULL"})
Arg(text) == /\ text \in Text /\ Len(text) \in Nat
             /\ \A k \in 1 .. Len(text) : text[k] \notin {"no short", "no long", "NULL"}

(* The bound keeps argv, and argdefs[i] with it, within nine of each.      *)
LEMMA ArgumentsAre ==
    ASSUME argv \in BoundedSeq(Texts, MaxArgs)
    PROVE  /\ Len(argv) \in 0 .. 8 /\ DOMAIN argv = 1 .. Len(argv)
           /\ \A k \in 1 .. Len(argv) : Arg(argv[k])
  <1>1. PICK m \in 0 .. MaxArgs : argv \in [1 .. m -> Texts]
    BY DEF BoundedSeq, SeqOf
  <1>2. Len(Argdefs) = 9
    BY DEF Argdefs
  <1>3. m \in 0 .. 8
    <2>1. MaxArgs \in 0 .. Len(Argdefs) - 1
      BY ArgumentsAssumption, Zenon
    <2>2. MaxArgs \in 0 .. 8
      BY <1>2, <2>1
    <2>. QED  BY <1>1, <2>2
  <1>4. Len(argv) = m /\ DOMAIN argv = 1 .. m
    BY <1>1, <1>3
  <1>5. ASSUME NEW text \in Texts
        PROVE  Arg(text)
    <2>1. text \in Seq(STRING) /\ {"no short", "no long", "NULL"} \cap Range(text) = {}
      BY ArgumentsAssumption
    <2>2. Len(text) \in Nat /\ DOMAIN text = 1 .. Len(text)
      BY <2>1, LenProperties
    <2>3. text \in Text
      <3>1. ASSUME NEW S, NEW T, NEW s \in Seq(S)
            PROVE  s \in Seq(S \union T)
        OBVIOUS
      <3>. QED  BY <2>1, <3>1, Zenon DEF Text
    <2>. QED  BY <2>1, <2>2, <2>3 DEF Arg, Range
  <1>. QED  BY <1>1, <1>3, <1>4, <1>5

(* No argument, nor what is left of one behind its "=" or its flag, is the *)
(* null pointer, although it may be empty.                                 *)
LEMMA NoNull ==
    ASSUME NEW text, Arg(text)
    PROVE  /\ text # NULL
           /\ \A m \in Nat \ {0} : /\ SubSeq(text, m, Len(text)) \in Text
                                   /\ SubSeq(text, m, Len(text)) # NULL
  <1>1. Len(text) \in Nat /\ text \in Text
    BY DEF Arg
  <1>2. NULL[1] = "NULL" /\ Len(NULL) = 1
    BY DEF NULL
  <1>3. text # NULL
    <2>1. Len(text) = 1 => 1 \in 1 .. Len(text)
      OBVIOUS
    <2>. QED  BY <1>2, <2>1 DEF Arg
  <1>4. ASSUME NEW m \in Nat \ {0}
        PROVE  /\ SubSeq(text, m, Len(text)) \in Text
               /\ SubSeq(text, m, Len(text)) # NULL
    <2> DEFINE tail == SubSeq(text, m, Len(text))
    <2>1. \A l \in 1 .. Len(text) : text[l] \in STRING \union {"NULL"}
      BY <1>1, ElementOfSeq DEF Text
    <2>2. m \in Int /\ Len(text) \in Int /\ \A l \in m .. Len(text) : l \in 1 .. Len(text)
      BY <1>1
    <2>3. /\ tail \in Text
          /\ Len(tail) = IF m <= Len(text) THEN Len(text) - m + 1 ELSE 0
          /\ \A l \in 1 .. Len(text) - m + 1 : tail[l] = text[m + l - 1]
      BY <2>1, <2>2, SubSeqProperties DEF Text
    <2> HIDE DEF tail
    <2>4. CASE m <= Len(text)
      <3>1. 1 \in 1 .. Len(text) - m + 1 /\ m + 1 - 1 = m /\ m \in 1 .. Len(text)
        BY <1>1, <2>4
      <3>2. tail[1] = text[m]
        BY <2>3, <3>1
      <3>3. tail # NULL
        BY <1>2, <3>1, <3>2 DEF Arg
      <3>. QED  BY <2>3, <3>3 DEF tail
    <2>5. CASE ~(m <= Len(text))
      <3>1. Len(tail) = 0
        BY <2>3, <2>5
      <3>2. tail # NULL
        BY <1>2, <3>1
      <3>. QED  BY <2>3, <3>2 DEF tail
    <2>. QED  BY <2>4, <2>5
  <1>. QED  BY <1>3, <1>4

(* The flags of main are told apart by either of their names.              *)
Names(j, short, long, type) ==
    Argdefs[j].short_arg = short /\ Argdefs[j].long_arg = long /\ Argdefs[j].type = type

LEMMA NamesAre ==
    /\ Names(1, "v", "verbose", "b")
    /\ Names(2, "q", "quiet", "b")
    /\ Names(3, "u", "unsafe", "b")
    /\ Names(4, "r", "chroot", "s")
    /\ Names(5, "e", "error-files", "b")
    /\ Names(6, "s", "suffix", "s")
    /\ Names(7, "p", "port", "s")
    /\ Names(8, "i", "index", "s")
    /\ Names(9, "no short", "no long", "r")
  <1>1. Argdefs[1] = Argdef("v", "verbose", "b")
    BY DEF Argdefs
  <1>2. Argdefs[2] = Argdef("q", "quiet", "b")
    BY DEF Argdefs
  <1>3. Argdefs[3] = Argdef("u", "unsafe", "b")
    BY DEF Argdefs
  <1>4. Argdefs[4] = Argdef("r", "chroot", "s")
    BY DEF Argdefs
  <1>5. Argdefs[5] = Argdef("e", "error-files", "b")
    BY DEF Argdefs
  <1>6. Argdefs[6] = Argdef("s", "suffix", "s")
    BY DEF Argdefs
  <1>7. Argdefs[7] = Argdef("p", "port", "s")
    BY DEF Argdefs
  <1>8. Argdefs[8] = Argdef("i", "index", "s")
    BY DEF Argdefs
  <1>9. Argdefs[9] = Argdef("no short", "no long", "r")
    BY DEF Argdefs
  <1>10. ASSUME NEW j, NEW short, NEW long, NEW type, Argdefs[j] = Argdef(short, long, type)
         PROVE  Names(j, short, long, type)
    BY <1>10 DEF Argdef, Names
  <1>. QED  BY <1>1, <1>2, <1>3, <1>4, <1>5, <1>6, <1>7, <1>8, <1>9, <1>10, Zenon

LEMMA ArgdefsAre ==
    /\ DOMAIN Argdefs = 1 .. 9
    /\ OfType("b") = {1, 2, 3, 5} /\ OfType("s") = {4, 6, 7, 8}
    /\ \A j, k \in 1 .. 9 : /\ Argdefs[j].long_arg = Argdefs[k].long_arg => j = k
                            /\ Argdefs[j].short_arg = Argdefs[k].short_arg => j = k
    /\ Argdefs[9].long_arg = "no long" /\ Argdefs[9].short_arg = "no short"
  <1>1. DOMAIN Argdefs = 1 .. 9
    BY DEF Argdefs
  <1>2. /\ Argdefs[1].short_arg = "v"
        /\ Argdefs[2].short_arg = "q"
        /\ Argdefs[3].short_arg = "u"
        /\ Argdefs[4].short_arg = "r"
        /\ Argdefs[5].short_arg = "e"
        /\ Argdefs[6].short_arg = "s"
        /\ Argdefs[7].short_arg = "p"
        /\ Argdefs[8].short_arg = "i"
        /\ Argdefs[9].short_arg = "no short"
    BY NamesAre DEF Names
  <1>3. /\ Argdefs[1].long_arg = "verbose"
        /\ Argdefs[2].long_arg = "quiet"
        /\ Argdefs[3].long_arg = "unsafe"
        /\ Argdefs[4].long_arg = "chroot"
        /\ Argdefs[5].long_arg = "error-files"
        /\ Argdefs[6].long_arg = "suffix"
        /\ Argdefs[7].long_arg = "port"
        /\ Argdefs[8].long_arg = "index"
        /\ Argdefs[9].long_arg = "no long"
    BY NamesAre DEF Names
  <1>4. /\ Argdefs[1].type = "b"
        /\ Argdefs[2].type = "b"
        /\ Argdefs[3].type = "b"
        /\ Argdefs[4].type = "s"
        /\ Argdefs[5].type = "b"
        /\ Argdefs[6].type = "s"
        /\ Argdefs[7].type = "s"
        /\ Argdefs[8].type = "s"
        /\ Argdefs[9].type = "r"
    BY NamesAre DEF Names
  <1>5. ASSUME NEW j \in 1 .. 9
        PROVE  j = 1 \/ j = 2 \/ j = 3 \/ j = 4 \/ j = 5 \/ j = 6 \/ j = 7 \/ j = 8 \/ j = 9
    OBVIOUS
  <1>6. \A j \in 1 .. 9 : /\ Argdefs[j].type = "b" <=> j \in {1, 2, 3, 5}
                          /\ Argdefs[j].type = "s" <=> j \in {4, 6, 7, 8}
    BY <1>4, <1>5
  <1>7. OfType("b") = {1, 2, 3, 5} /\ OfType("s") = {4, 6, 7, 8}
    BY <1>1, <1>6 DEF OfType
  <1>8. ASSUME NEW j \in 1 .. 9, NEW k \in 1 .. 9, Argdefs[j].long_arg = Argdefs[k].long_arg
        PROVE  j = k
    BY <1>3, <1>5, <1>8
  <1>9. ASSUME NEW j \in 1 .. 9, NEW k \in 1 .. 9, Argdefs[j].short_arg = Argdefs[k].short_arg
        PROVE  j = k
    BY <1>2, <1>5, <1>9
  <1>. QED  BY <1>1, <1>2, <1>3, <1>7, <1>8, <1>9

-----------------------------------------------------------------------------
ArgdefType == [bvalue : BOOLEAN, value : Text, err : BOOLEAN]
(* One argdef is written. *)
Writes(D, d, j, b, v, e) ==
    /\ D \in [1 .. 9 -> ArgdefType]
    /\ D[j].bvalue = b /\ D[j].value = v /\ D[j].err = e
    /\ \A k \in 1 .. 9 \ {j} : D[k] = d[k]

(* What the assignments to one argdef do.                                  *)
LEMMA WrittenIs ==
    ASSUME NEW d \in [1 .. 9 -> ArgdefType], NEW j \in 1 .. 9,
           NEW b \in BOOLEAN, NEW v \in Text, NEW e \in BOOLEAN
    PROVE  /\ Writes([d EXCEPT ![j] = [bvalue |-> b, value |-> v, err |-> e]], d, j, b, v, e)
           /\ Writes([d EXCEPT ![j].bvalue = b], d, j, b, d[j].value, d[j].err)
           /\ Writes([d EXCEPT ![j].value = v], d, j, d[j].bvalue, v, d[j].err)
           /\ Writes([d EXCEPT ![j].err = e], d, j, d[j].bvalue, d[j].value, e)
  <1>1. /\ d[j] \in ArgdefType
        /\ d[j].bvalue \in BOOLEAN /\ d[j].value \in Text /\ d[j].err \in BOOLEAN
    BY DEF ArgdefType
  <1>2. ASSUME NEW D, NEW r \in ArgdefType, D = [d EXCEPT ![j] = r]
        PROVE  Writes(D, d, j, r.bvalue, r.value, r.err)
    BY <1>2 DEF Writes
  <1>3. /\ [d[j] EXCEPT !.bvalue = b] \in ArgdefType
        /\ [d[j] EXCEPT !.bvalue = b].bvalue = b
        /\ [d[j] EXCEPT !.bvalue = b].value = d[j].value
        /\ [d[j] EXCEPT !.bvalue = b].err = d[j].err
    BY <1>1 DEF ArgdefType
  <1>4. /\ [d[j] EXCEPT !.value = v] \in ArgdefType
        /\ [d[j] EXCEPT !.value = v].bvalue = d[j].bvalue
        /\ [d[j] EXCEPT !.value = v].value = v
        /\ [d[j] EXCEPT !.value = v].err = d[j].err
    BY <1>1 DEF ArgdefType
  <1>5. /\ [d[j] EXCEPT !.err = e] \in ArgdefType
        /\ [d[j] EXCEPT !.err = e].bvalue = d[j].bvalue
        /\ [d[j] EXCEPT !.err = e].value = d[j].value
        /\ [d[j] EXCEPT !.err = e].err = e
    BY <1>1 DEF ArgdefType
  <1>6. Writes([d EXCEPT ![j].bvalue = b], d, j, b, d[j].value, d[j].err)
    BY <1>2, <1>3
  <1>7. Writes([d EXCEPT ![j].value = v], d, j, d[j].bvalue, v, d[j].err)
    BY <1>2, <1>4
  <1>8. Writes([d EXCEPT ![j].err = e], d, j, d[j].bvalue, d[j].value, e)
    BY <1>2, <1>5
  <1>9. Writes([d EXCEPT ![j] = [bvalue |-> b, value |-> v, err |-> e]], d, j, b, v, e)
    <2> DEFINE r == [bvalue |-> b, value |-> v, err |-> e]
    <2>1. r \in ArgdefType /\ r.bvalue = b /\ r.value = v /\ r.err = e
      BY DEF ArgdefType
    <2> HIDE DEF r
    <2>2. Writes([d EXCEPT ![j] = r], d, j, b, v, e)
      BY <1>2, <2>1
    <2>. QED  BY <2>2 DEF r
  <1>. QED  BY <1>6, <1>7, <1>8, <1>9

(* Types, of what is parsed and of what is found.                          *)
ParseTypeOK == /\ argv \in BoundedSeq(Texts, MaxArgs)
               /\ i \in 1 .. Len(argv) + 1
               /\ argdefs \in [1 .. 9 -> ArgdefType]
               /\ raw_escape \in BOOLEAN
               /\ ret \in BOOLEAN

(* What the next argument does to the argdefs. *)
Now(j) == ~raw_escape /\ Gives(argv[i], j)
IsWord == raw_escape \/ ~IsFlag(argv[i])
Takes == ~raw_escape /\ TakesNext(argv[i])

(* What a turn of parse_args is to do, said as AsAsked says it.            *)
NoneMissing == \A j \in OfType("s") : Now(j) => ValueAt(i) # NULL
FlagsRead == \A j \in OfType("b") :
    argdefs'[j].bvalue <=> IF Now(j) THEN Says(argv[i]) ELSE argdefs[j].bvalue
StringsRead == \A j \in OfType("s") :
    /\ argdefs'[j].bvalue <=> Now(j) \/ argdefs[j].bvalue
    /\ Now(j) /\ ValueAt(i) # NULL => argdefs'[j].value = ValueAt(i)
    /\ ~Now(j) => argdefs'[j].value = argdefs[j].value
WordRead ==
    /\ argdefs'[9].bvalue <=> IsWord \/ argdefs[9].bvalue
    /\ argdefs'[9].value = IF IsWord /\ ~argdefs[9].bvalue THEN argv[i] ELSE argdefs[9].value

Effect == /\ argv' = argv
          /\ argdefs' \in [1 .. 9 -> ArgdefType]
          /\ i' = IF Takes /\ i < Len(argv) THEN i + 2 ELSE i + 1
          /\ raw_escape' \in BOOLEAN
          /\ raw_escape' <=> raw_escape \/ argv[i] = <<"-", "-">>
          /\ ret' \in BOOLEAN
          /\ ret' <=> ret /\ NoneMissing
          /\ FlagsRead /\ StringsRead /\ WordRead

(* A raw argument, a long flag and short ones have the effect that what is *)
(* asked of the whole command line gives them.                             *)
LEMMA RawEffect ==
    ASSUME ParseTypeOK, i <= Len(argv), argv' = argv, IsWord, ParseRaw(argv[i])
    PROVE  Effect
  <1>1. Arg(argv[i]) /\ i \in Nat
    BY ArgumentsAre DEF ParseTypeOK
  <1>2. \A j : ~Now(j)
    BY DEF Now, IsWord, Gives, IsLong, IsShort
  <1>3. ~Takes
    BY DEF Takes, IsWord, TakesNext, IsLong, IsShort
  <1>4. raw_escape \/ argv[i] # <<"-", "-">>
    BY DEF IsWord, IsFlag
  <1>5. /\ argdefs' = IF argdefs[9].bvalue THEN argdefs
                      ELSE [argdefs EXCEPT ![9].bvalue = TRUE, ![9].value = argv[i]]
        /\ i' = i + 1 /\ raw_escape' = raw_escape /\ ret' = ret
    BY DEF ParseRaw, Raw
  <1>6. /\ argdefs' \in [1 .. 9 -> ArgdefType] /\ \A j \in 1 .. 8 : argdefs'[j] = argdefs[j]
        /\ argdefs'[9].bvalue = TRUE
        /\ argdefs'[9].value = IF ~argdefs[9].bvalue THEN argv[i] ELSE argdefs[9].value
    <2>1. argdefs \in [1 .. 9 -> ArgdefType] /\ 9 \in 1 .. 9
      BY DEF ParseTypeOK
    <2>2. CASE argdefs[9].bvalue
      BY <1>5, <2>1, <2>2 DEF ArgdefType
    <2>3. CASE ~argdefs[9].bvalue
      <3> DEFINE d == [argdefs EXCEPT ![9].bvalue = TRUE]
      <3>1. Writes(d, argdefs, 9, TRUE, argdefs[9].value, argdefs[9].err)
        <4>1. argdefs[9].value \in Text /\ argdefs[9].err \in BOOLEAN
          BY <2>1 DEF ArgdefType
        <4>. QED  BY <2>1, <4>1, WrittenIs
      <3>2. argdefs' = [d EXCEPT ![9].value = argv[i]]
        BY <1>5, <2>3
      <3> HIDE DEF d
      <3>3. Writes(argdefs', d, 9, d[9].bvalue, argv[i], d[9].err)
        <4>1. d \in [1 .. 9 -> ArgdefType] /\ argv[i] \in Text /\ d[9].err \in BOOLEAN
          BY <1>1, <2>1, <3>1 DEF Arg, Writes, ArgdefType
        <4>. QED  BY <2>1, <3>2, <4>1, WrittenIs
      <3>4. \A j \in 1 .. 8 : j \in 1 .. 9 \ {9}
        OBVIOUS
      <3>. QED  BY <2>3, <3>1, <3>3, <3>4 DEF Writes
    <2>. QED  BY <2>2, <2>3
  <1>7. \A j \in {1, 2, 3, 5} \union {4, 6, 7, 8} : j \in 1 .. 8
    OBVIOUS
  <1>8. \A j \in OfType("b") \union OfType("s") : argdefs'[j] = argdefs[j]
    BY <1>6, <1>7, ArgdefsAre, Zenon
  <1>. QED  BY <1>2, <1>3, <1>4, <1>5, <1>6, <1>7, <1>8
           DEF Effect, ParseTypeOK, NoneMissing, FlagsRead, StringsRead, WordRead

-----------------------------------------------------------------------------
(* A long flag: it is of one argdef at most, and takes the next argument   *)
(* if that is a string's and it has no "=".                                *)
LEMMA LongIs ==
    ASSUME Arg(argv[i]), IsLong(argv[i]), ~raw_escape
    PROVE  /\ \A j : Now(j) <=> long_arg_match(argv[i], j)
           /\ \A j, k \in 1 .. 9 : Now(j) /\ Now(k) => j = k
           /\ ~Now(9) /\ ~IsWord
           /\ Len(argv[i]) = 2 <=> argv[i] = <<"-", "-">>
           /\ Takes <=> ~HasEquals(argv[i]) /\ \E j \in OfType("s") : Now(j)
           /\ ValueAt(i) = IF Takes THEN IF i < Len(argv) THEN argv[i + 1] ELSE NULL
                           ELSE IF AfterEquals(argv[i]) = <<>> THEN NULL ELSE AfterEquals(argv[i])
  <1> DEFINE text == argv[i]
  <1>1. \A j : Now(j) <=> long_arg_match(text, j)
    BY DEF Now, Gives, IsShort
  <1>2. \A j, k \in 1 .. 9 : Now(j) /\ Now(k) => j = k
    <2>1. \A j \in 1 .. 9 : Now(j) => Argdefs[j].long_arg = text[3]
      BY <1>1 DEF long_arg_match
    <2>2. \A j, k \in 1 .. 9 : Argdefs[j].long_arg = Argdefs[k].long_arg => j = k
      BY ArgdefsAre
    <2>. QED  BY <2>1, <2>2, Zenon
  <1>3. ~Now(9)
    <2>1. Now(9) => Len(text) >= 3 /\ text[3] = "no long"
      BY <1>1, ArgdefsAre, Zenon DEF long_arg_match
    <2>2. 3 \in 1 .. Len(text) \/ ~(Len(text) >= 3)
      <3>1. Len(text) \in Nat
        BY DEF Arg
      <3>. QED  BY <3>1
    <2>. QED  BY <2>1, <2>2 DEF Arg
  <1>4. text[1] = "-" /\ text[2] = "-" /\ Len(text) >= 2 /\ text \in Seq(STRING \union {"NULL"})
    BY DEF IsLong, IsFlag, Arg, Text
  <1>5. Len(text) = 2 <=> text = <<"-", "-">>
    <2> HIDE DEF text
    <2>. QED  BY <1>4
  <1>6. ~IsWord
    BY DEF IsWord, IsLong
  <1>7. Takes <=> ~HasEquals(text) /\ \E j \in OfType("s") : Now(j)
    BY <1>1 DEF Takes, TakesNext, IsShort
  <1>8. ValueAt(i) = IF Takes THEN IF i < Len(argv) THEN argv[i + 1] ELSE NULL
                     ELSE IF AfterEquals(text) = <<>> THEN NULL ELSE AfterEquals(text)
    BY DEF ValueAt, Takes
  <1>. QED  BY <1>1, <1>2, <1>3, <1>5, <1>6, <1>7, <1>8

(* A string's value is the next argument. *)
LEMMA TakeNextIs ==
    ASSUME ParseTypeOK, i <= Len(argv), NEW j \in 1 .. 9,
           NEW d \in [1 .. 9 -> ArgdefType], TakeNext(d, j)
    PROVE  /\ i' = IF i < Len(argv) THEN i + 2 ELSE i + 1
           /\ argdefs' \in [1 .. 9 -> ArgdefType]
           /\ \A k \in 1 .. 9 : argdefs'[k].bvalue = d[k].bvalue
           /\ \A k \in 1 .. 9 \ {j} : argdefs'[k].value = d[k].value
           /\ IF i < Len(argv) THEN argdefs'[j].value = argv[i + 1] /\ Arg(argv[i + 1])
              ELSE argdefs' = d
           /\ ret' = (ret /\ i < Len(argv))
  <1>1. CASE i < Len(argv)
    <2>1. Arg(argv[i + 1])
      BY <1>1, ArgumentsAre DEF ParseTypeOK
    <2>2. Writes(argdefs', d, j, d[j].bvalue, argv[i + 1], d[j].err)
      <3>1. d[j].bvalue \in BOOLEAN /\ d[j].err \in BOOLEAN /\ argv[i + 1] \in Text
        BY <2>1 DEF ArgdefType, Arg
      <3>2. argdefs' = [d EXCEPT ![j].value = argv[i + 1]]
        BY <1>1 DEF TakeNext
      <3>. QED  BY <3>1, <3>2, WrittenIs
    <2>3. i' = i + 2 /\ ret' = ret /\ ret \in BOOLEAN
      BY <1>1 DEF TakeNext, ParseTypeOK
    <2>. QED  BY <1>1, <2>1, <2>2, <2>3 DEF Writes
  <1>2. CASE ~(i < Len(argv))
    BY <1>2 DEF TakeNext
  <1>. QED  BY <1>1, <1>2

(* A long flag.                                                            *)
LEMMA LongEffect ==
    ASSUME ParseTypeOK, i <= Len(argv), argv' = argv,
           ~raw_escape, IsLong(argv[i]), ParseLong(argv[i])
    PROVE  Effect
  <1> DEFINE text == argv[i]
             B == OfType("b")
             S == OfType("s")
  <1>1. Arg(text) /\ i \in 1 .. 8
    <2>1. /\ Len(argv) \in 0 .. 8 /\ i \in 1 .. Len(argv) + 1
          /\ \A k \in 1 .. Len(argv) : Arg(argv[k])
      BY ArgumentsAre DEF ParseTypeOK
    <2>2. i \in 1 .. Len(argv) /\ i \in 1 .. 8
      BY <2>1
    <2>. QED  BY <2>1, <2>2
  <1>2. /\ \A j : Now(j) <=> long_arg_match(text, j)
        /\ \A j, k \in 1 .. 9 : Now(j) /\ Now(k) => j = k
        /\ ~Now(9) /\ ~IsWord
        /\ Len(text) = 2 <=> text = <<"-", "-">>
        /\ Takes <=> ~HasEquals(text) /\ \E j \in S : Now(j)
        /\ ValueAt(i) = IF Takes THEN IF i < Len(argv) THEN argv[i + 1] ELSE NULL
                        ELSE IF AfterEquals(text) = <<>> THEN NULL ELSE AfterEquals(text)
    BY <1>1, LongIs
  <1>3. raw_escape' = (text = <<"-", "-">>)
    BY <1>2 DEF ParseLong
  <1>4. /\ B \subseteq 1 .. 8 /\ S \subseteq 1 .. 8 /\ B \cap S = {} /\ DOMAIN Argdefs = 1 .. 9
        /\ 9 \notin B /\ 9 \notin S
    <2>1. B = {1, 2, 3, 5} /\ S = {4, 6, 7, 8} /\ DOMAIN Argdefs = 1 .. 9
      BY ArgdefsAre
    <2> HIDE DEF B, S
    <2>. QED  BY <2>1
  <1>5. /\ argdefs \in [1 .. 9 -> ArgdefType] /\ ret \in BOOLEAN
        /\ \A j \in 1 .. 9 : /\ argdefs[j].bvalue \in BOOLEAN
                             /\ argdefs[j].value \in Text /\ argdefs[j].err \in BOOLEAN
    BY DEF ParseTypeOK, ArgdefType
  <1>6. /\ Says(text) = (HasEquals(text) => AfterEquals(text) # <<>> /\ AfterEquals(text)[1] # "0")
        /\ Says(text) \in BOOLEAN
    BY DEF Says
  <1> HIDE DEF text
  <1>7. CASE /\ ~\E j \in DOMAIN Argdefs : long_arg_match(text, j)
             /\ i' = i + 1 /\ UNCHANGED <<argdefs, ret>>
    <2>1. \A j \in 1 .. 9 : ~Now(j)
      BY <1>2, <1>4, <1>7
    <2>2. ~Takes /\ \A j \in B \union S : ~Now(j)
      <3>1. \A j \in B \union S : j \in 1 .. 9
        BY <1>4
      <3>. QED  BY <1>2, <2>1, <3>1, Zenon
    <2>3. NoneMissing /\ FlagsRead /\ StringsRead /\ WordRead
      BY <1>2, <1>7, <2>2 DEF NoneMissing, FlagsRead, StringsRead, WordRead
    <2>. QED  BY <1>2, <1>3, <1>5, <1>7, <2>2, <2>3 DEF Effect, text
  <1>8. ASSUME NEW j \in B, long_arg_match(text, j),
               argdefs' = [argdefs EXCEPT ![j].bvalue =
                   HasEquals(text) => AfterEquals(text) # <<>> /\ AfterEquals(text)[1] # "0"],
               i' = i + 1, ret' = ret
        PROVE  Effect
    <2>1. Now(j) /\ j \in 1 .. 9 /\ \A k \in 1 .. 9 : Now(k) => k = j
      BY <1>2, <1>4, <1>8
    <2>2. ~Takes /\ \A k \in S : ~Now(k)
      <3>1. \A k \in S : k \in 1 .. 9 /\ k # j
        BY <1>4
      <3>. QED  BY <1>2, <2>1, <3>1, Zenon
    <2>3. Writes(argdefs', argdefs, j, Says(text), argdefs[j].value, argdefs[j].err)
      <3>1. argdefs' = [argdefs EXCEPT ![j].bvalue = Says(text)]
        BY <1>6, <1>8
      <3>2. argdefs[j].value \in Text /\ argdefs[j].err \in BOOLEAN /\ Says(text) \in BOOLEAN
        BY <1>5, <1>6, <2>1
      <3>. QED  BY <1>5, <2>1, <3>1, <3>2, WrittenIs
    <2>4. FlagsRead
      BY <1>4, <2>1, <2>3 DEF FlagsRead, Writes, text
    <2>5. \A k \in S \union {9} : argdefs'[k] = argdefs[k]
      BY <1>4, <2>3 DEF Writes
    <2>6. NoneMissing /\ StringsRead /\ WordRead
      BY <1>2, <2>2, <2>5 DEF NoneMissing, StringsRead, WordRead
    <2>7. argdefs' \in [1 .. 9 -> ArgdefType]
      BY <2>3 DEF Writes
    <2>. QED  BY <1>2, <1>3, <1>5, <1>8, <2>2, <2>4, <2>6, <2>7 DEF Effect, text
  <1>9. ASSUME NEW j \in S, long_arg_match(text, j), ~HasEquals(text),
               LET defs == [argdefs EXCEPT ![j].bvalue = TRUE]
               IN  TakeNext(IF i < Len(argv) THEN defs
                            ELSE [defs EXCEPT ![i + 1].err = TRUE], j)
        PROVE  Effect
    <2> DEFINE d == [argdefs EXCEPT ![j].bvalue = TRUE]
               e == IF i < Len(argv) THEN d ELSE [d EXCEPT ![i + 1].err = TRUE]
    <2>1. Now(j) /\ j \in 1 .. 9 /\ (\A k \in 1 .. 9 : Now(k) => k = j) /\ Takes
      BY <1>2, <1>4, <1>9
    <2>2. TakeNext(e, j)
      BY <1>9
    <2>3. Writes(d, argdefs, j, TRUE, argdefs[j].value, argdefs[j].err)
      BY <1>5, <2>1, WrittenIs
    <2> HIDE DEF d
    <2>4. /\ e \in [1 .. 9 -> ArgdefType]
          /\ \A k \in 1 .. 9 : e[k].bvalue = d[k].bvalue /\ e[k].value = d[k].value
      <3>1. d \in [1 .. 9 -> ArgdefType]
        BY <2>3 DEF Writes
      <3>2. i + 1 \in 1 .. 9
        BY <1>1
      <3>3. Writes([d EXCEPT ![i + 1].err = TRUE], d, i + 1, d[i + 1].bvalue, d[i + 1].value, TRUE)
        <4>1. d[i + 1].bvalue \in BOOLEAN /\ d[i + 1].value \in Text
          BY <3>1, <3>2 DEF ArgdefType
        <4>. QED  BY <3>1, <3>2, <4>1, WrittenIs
      <3>. QED  BY <3>1, <3>2, <3>3 DEF Writes
    <2> HIDE DEF e
    <2>5. /\ i' = IF i < Len(argv) THEN i + 2 ELSE i + 1
          /\ argdefs' \in [1 .. 9 -> ArgdefType]
          /\ \A k \in 1 .. 9 : argdefs'[k].bvalue = e[k].bvalue
          /\ \A k \in 1 .. 9 \ {j} : argdefs'[k].value = e[k].value
          /\ IF i < Len(argv) THEN argdefs'[j].value = argv[i + 1] /\ Arg(argv[i + 1])
             ELSE argdefs' = e
          /\ ret' = (ret /\ i < Len(argv))
      BY <2>1, <2>2, <2>4, TakeNextIs
    <2>6. /\ ValueAt(i) = IF i < Len(argv) THEN argv[i + 1] ELSE NULL
          /\ ValueAt(i) # NULL <=> i < Len(argv)
      BY <1>2, <2>1, <2>5, NoNull
    <2>7. NoneMissing <=> i < Len(argv)
      BY <1>4, <2>1, <2>6 DEF NoneMissing
    <2>8. FlagsRead
      BY <1>4, <1>5, <2>1, <2>3, <2>4, <2>5 DEF FlagsRead, Writes
    <2>9. StringsRead
      <3> SUFFICES ASSUME NEW k \in S
                   PROVE  /\ argdefs'[k].bvalue <=> Now(k) \/ argdefs[k].bvalue
                          /\ Now(k) /\ ValueAt(i) # NULL => argdefs'[k].value = ValueAt(i)
                          /\ ~Now(k) => argdefs'[k].value = argdefs[k].value
        BY DEF StringsRead
      <3>1. k \in 1 .. 9 /\ argdefs'[k].bvalue = d[k].bvalue
        BY <1>4, <2>4, <2>5
      <3>2. CASE k = j
        BY <2>1, <2>3, <2>5, <2>6, <3>1, <3>2 DEF Writes
      <3>3. CASE k # j
        <4>1. ~Now(k) /\ d[k] = argdefs[k] /\ argdefs'[k].value = d[k].value
          BY <2>1, <2>3, <2>4, <2>5, <3>1, <3>3 DEF Writes
        <4>. QED  BY <3>1, <4>1
      <3>. QED  BY <3>2, <3>3
    <2>10. WordRead
      <3>1. 9 \in 1 .. 9 /\ 9 # j
        BY <1>4
      <3>2. d[9] = argdefs[9]
        BY <2>3, <3>1 DEF Writes
      <3>3. argdefs'[9].bvalue = argdefs[9].bvalue /\ argdefs'[9].value = argdefs[9].value
        BY <2>4, <2>5, <3>1, <3>2
      <3>. QED  BY <1>2, <3>3 DEF WordRead
    <2>. QED  BY <1>2, <1>3, <1>5, <2>1, <2>5, <2>7, <2>8, <2>9, <2>10 DEF Effect, text
  <1>10. ASSUME NEW j \in S, long_arg_match(text, j), HasEquals(text),
                LET empty == AfterEquals(text) = <<>> IN
                  /\ argdefs' = [argdefs EXCEPT
                        ![j] = [bvalue |-> TRUE,
                                value |-> IF empty THEN NULL ELSE AfterEquals(text),
                                err |-> empty \/ argdefs[j].err]]
                  /\ ret' = (ret /\ ~empty),
                i' = i + 1
         PROVE  Effect
    <2> DEFINE v == IF AfterEquals(text) = <<>> THEN NULL ELSE AfterEquals(text)
               r == AfterEquals(text) = <<>> \/ argdefs[j].err
    <2>1. Now(j) /\ j \in 1 .. 9 /\ (\A k \in 1 .. 9 : Now(k) => k = j) /\ ~Takes
      BY <1>2, <1>4, <1>10
    <2>2. v \in Text /\ r \in BOOLEAN
      <3>1. NULL \in Text
        BY DEF NULL, Text
      <3>2. AfterEquals(text) \in Text
        <4>1. 5 \in Nat \ {0}
          OBVIOUS
        <4>. QED  BY <1>1, <4>1, NoNull DEF AfterEquals
      <3>. QED  BY <1>5, <2>1, <3>1, <3>2
    <2>3. Writes(argdefs', argdefs, j, TRUE, v, r)
      <3>1. argdefs' = [argdefs EXCEPT ![j] = [bvalue |-> TRUE, value |-> v, err |-> r]]
        BY <1>10
      <3> HIDE DEF v, r
      <3>. QED  BY <1>5, <2>1, <2>2, <3>1, WrittenIs
    <2>4. ValueAt(i) = v
      BY <1>2, <2>1
    <2>5. NoneMissing <=> AfterEquals(text) # <<>>
      <3>1. AfterEquals(text) # NULL
        <4>1. 5 \in Nat \ {0}
          OBVIOUS
        <4>. QED  BY <1>1, <4>1, NoNull DEF AfterEquals
      <3>2. v # NULL <=> AfterEquals(text) # <<>>
        BY <3>1
      <3> HIDE DEF v
      <3>. QED  BY <1>4, <2>1, <2>4, <3>2 DEF NoneMissing
    <2>6. ValueAt(i) # NULL => v = ValueAt(i)
      BY <2>4
    <2>7. ret' \in BOOLEAN /\ (ret' <=> ret /\ NoneMissing)
      BY <1>5, <1>10, <2>5
    <2> HIDE DEF v, r
    <2>8. argdefs' \in [1 .. 9 -> ArgdefType] /\ argdefs'[j].bvalue = TRUE /\ argdefs'[j].value = v
          /\ \A k \in 1 .. 9 \ {j} : argdefs'[k] = argdefs[k]
      BY <2>3 DEF Writes
    <2>9. FlagsRead
      BY <1>4, <2>1, <2>8 DEF FlagsRead
    <2>10. StringsRead
      BY <1>4, <1>5, <2>1, <2>6, <2>8 DEF StringsRead
    <2>11. WordRead
      BY <1>2, <1>4, <2>8 DEF WordRead
    <2>. QED  BY <1>2, <1>3, <1>10, <2>1, <2>7, <2>8, <2>9, <2>10, <2>11 DEF Effect, text
  <1>. QED  BY <1>7, <1>8, <1>9, <1>10, Zenon DEF ParseLong, text

-----------------------------------------------------------------------------
(* Short flags: the first that is a string's is the last that is read.     *)
LEMMA ShortIs ==
    ASSUME Arg(argv[i]), IsShort(argv[i]), ~raw_escape
    PROVE  LET text == argv[i]
               first == FirstString(text)
           IN  /\ first \in 2 .. Len(text) + 1
               /\ \A j : Now(j) <=>
                     \E k \in 2 .. Len(text) : k <= first /\ short_arg_match(text, k, j)
               /\ \A j \in OfType("s") : Now(j) <=>
                     first <= Len(text) /\ short_arg_match(text, first, j)
               /\ \A j, k \in OfType("s") : Now(j) /\ Now(k) => j = k
               /\ ~Now(9) /\ ~IsWord /\ Says(text) /\ text # <<"-", "-">>
               /\ Takes <=> first = Len(text)
               /\ ValueAt(i) = IF Takes THEN IF i < Len(argv) THEN argv[i + 1] ELSE NULL
                               ELSE SubSeq(text, first + 1, Len(text))
  <1> DEFINE text == argv[i]
             S == OfType("s")
             first == FirstString(text)
             T == Strings(text)
  <1>1. ~IsLong(text) /\ IsFlag(text) /\ Len(text) \in Nat \ {0}
    <2>1. ~IsLong(text) /\ IsFlag(text) /\ Len(text) \in Nat /\ text \in Text /\ text # <<>>
      BY DEF IsShort, IsFlag, Arg
    <2>. QED  BY <2>1, EmptySeq DEF Text
  <1>2. \A j : Now(j) <=> \E k \in 2 .. Len(text) : k <= first /\ short_arg_match(text, k, j)
    BY <1>1 DEF Now, Gives
  <1>3. T \subseteq 2 .. Len(text) /\ T \subseteq Nat
    BY DEF Strings
  <1>4. /\ first \in 2 .. Len(text) + 1
        /\ first <= Len(text) => first \in T
        /\ \A k \in T : first <= k
    <2>1. CASE T = {}
      BY <1>1, <2>1 DEF FirstString
    <2>2. CASE T # {}
      <3>1. first = Min(T)
        BY <2>2 DEF FirstString
      <3> HIDE DEF T, first, text
      <3>2. first \in T /\ \A k \in T : first <= k
        BY <1>3, <2>2, <3>1, MinIs
      <3>. QED  BY <1>1, <1>3, <3>2
    <2>. QED  BY <2>1, <2>2
  <1>5. ASSUME NEW j \in S
        PROVE  Now(j) <=> first <= Len(text) /\ short_arg_match(text, first, j)
    <2>1. \A k \in 2 .. Len(text) : short_arg_match(text, k, j) => k \in T
      BY DEF Strings
    <2> HIDE DEF S, T, first, text
    <2>2. ASSUME Now(j)
          PROVE  first <= Len(text) /\ short_arg_match(text, first, j)
      <3>1. PICK k \in 2 .. Len(text) : k <= first /\ short_arg_match(text, k, j)
        BY <1>2, <2>2
      <3>2. first <= k
        BY <1>4, <2>1, <3>1
      <3>3. k = first /\ first <= Len(text)
        BY <1>1, <1>4, <3>1, <3>2
      <3>. QED  BY <3>1, <3>3
    <2>3. ASSUME first <= Len(text), short_arg_match(text, first, j)
          PROVE  Now(j)
      <3>1. first \in 2 .. Len(text) /\ first <= first
        BY <1>1, <1>4, <2>3
      <3>. QED  BY <1>2, <2>3, <3>1
    <2>. QED  BY <2>2, <2>3
  <1>6. S \subseteq 1 .. 9
    <2>1. S = {4, 6, 7, 8}
      BY ArgdefsAre
    <2> HIDE DEF S
    <2>. QED  BY <2>1
  <1>7. ASSUME NEW j \in S, NEW k \in S, Now(j), Now(k)
        PROVE  j = k
    <2>1. Argdefs[j].short_arg = Argdefs[k].short_arg
      BY <1>5, <1>7 DEF short_arg_match
    <2>. QED  BY <1>6, <2>1, ArgdefsAre
  <1>8. ~Now(9)
    <2>1. \A k \in 2 .. Len(text) : short_arg_match(text, k, 9) => text[k] = "no short"
      BY ArgdefsAre DEF short_arg_match
    <2>2. \A k \in 2 .. Len(text) : k \in 1 .. Len(text)
      BY <1>1
    <2>. QED  BY <1>2, <2>1, <2>2 DEF Arg
  <1>9. ~IsWord
    BY <1>1 DEF IsWord
  <1>10. Says(text)
    BY <1>1 DEF Says
  <1>11. text # <<"-", "-">>
    <2> HIDE DEF text
    <2>. QED  BY <1>1 DEF IsLong, IsFlag
  <1>12. Takes <=> first = Len(text)
    BY <1>1 DEF Takes, TakesNext, IsShort
  <1>13. ValueAt(i) = IF Takes THEN IF i < Len(argv) THEN argv[i + 1] ELSE NULL
                      ELSE SubSeq(text, first + 1, Len(text))
    BY <1>1 DEF ValueAt, Takes
  <1>. QED  BY <1>2, <1>4, <1>5, <1>7, <1>8, <1>9, <1>10, <1>11, <1>12, <1>13

(* Short flags.                                                            *)
LEMMA ShortEffect ==
    ASSUME ParseTypeOK, i <= Len(argv), argv' = argv,
           ~raw_escape, IsShort(argv[i]), ParseShort(argv[i])
    PROVE  Effect
  <1> DEFINE text == argv[i]
             first == FirstString(text)
             B == OfType("b")
             S == OfType("s")
             d == [j \in DOMAIN Argdefs |->
                     IF \E k \in 2 .. Len(text) : k <= first /\ short_arg_match(text, k, j)
                     THEN [argdefs[j] EXCEPT !.bvalue = TRUE] ELSE argdefs[j]]
  <1>1. Arg(text) /\ i \in 1 .. 8 /\ Len(argv) \in Nat
    <2>1. /\ Len(argv) \in 0 .. 8 /\ i \in 1 .. Len(argv) + 1
          /\ \A k \in 1 .. Len(argv) : Arg(argv[k])
      BY ArgumentsAre DEF ParseTypeOK
    <2>2. i \in 1 .. Len(argv) /\ i \in 1 .. 8 /\ Len(argv) \in Nat
      BY <2>1
    <2>. QED  BY <2>1, <2>2
  <1>2. /\ first \in 2 .. Len(text) + 1
        /\ \A j : Now(j) <=> \E k \in 2 .. Len(text) : k <= first /\ short_arg_match(text, k, j)
        /\ \A j \in S : Now(j) <=> first <= Len(text) /\ short_arg_match(text, first, j)
        /\ \A j, k \in S : Now(j) /\ Now(k) => j = k
        /\ ~Now(9) /\ ~IsWord /\ Says(text) /\ text # <<"-", "-">>
        /\ Takes <=> first = Len(text)
        /\ ValueAt(i) = IF Takes THEN IF i < Len(argv) THEN argv[i + 1] ELSE NULL
                        ELSE SubSeq(text, first + 1, Len(text))
    BY <1>1, ShortIs
  <1>3. /\ \/ /\ first > Len(text)
              /\ argdefs' = d
              /\ i' = i + 1
              /\ UNCHANGED ret
           \/ \E j \in S :
                 /\ first < Len(text) /\ short_arg_match(text, first, j)
                 /\ argdefs' = [d EXCEPT ![j].value = SubSeq(text, first + 1, Len(text))]
                 /\ i' = i + 1
                 /\ UNCHANGED ret
           \/ \E j \in S :
                 /\ first = Len(text) /\ short_arg_match(text, first, j)
                 /\ TakeNext(IF i < Len(argv) THEN d ELSE [d EXCEPT ![j].err = TRUE], j)
        /\ UNCHANGED raw_escape
    BY Zenon DEF ParseShort
  <1>4. /\ B \subseteq 1 .. 9 /\ S \subseteq 1 .. 9 /\ B \cap S = {} /\ DOMAIN Argdefs = 1 .. 9
        /\ 9 \notin B /\ 9 \notin S
    <2>1. B = {1, 2, 3, 5} /\ S = {4, 6, 7, 8} /\ DOMAIN Argdefs = 1 .. 9
      BY ArgdefsAre
    <2> HIDE DEF B, S
    <2>. QED  BY <2>1
  <1>5. /\ argdefs \in [1 .. 9 -> ArgdefType] /\ ret \in BOOLEAN /\ raw_escape \in BOOLEAN
        /\ \A j \in 1 .. 9 : /\ argdefs[j].bvalue \in BOOLEAN
                             /\ argdefs[j].value \in Text /\ argdefs[j].err \in BOOLEAN
    BY DEF ParseTypeOK, ArgdefType
  <1>6. /\ d \in [1 .. 9 -> ArgdefType]
        /\ \A j \in 1 .. 9 : /\ d[j].bvalue <=> Now(j) \/ argdefs[j].bvalue
                             /\ d[j].value = argdefs[j].value
    <2>1. d = [j \in 1 .. 9 |-> IF Now(j) THEN [argdefs[j] EXCEPT !.bvalue = TRUE] ELSE argdefs[j]]
      BY <1>2, <1>4
    <2> HIDE DEF d
    <2>2. ASSUME NEW r \in ArgdefType
          PROVE  /\ [r EXCEPT !.bvalue = TRUE] \in ArgdefType
                 /\ [r EXCEPT !.bvalue = TRUE].bvalue = TRUE
                 /\ [r EXCEPT !.bvalue = TRUE].value = r.value
      BY DEF ArgdefType
    <2>3. ASSUME NEW j \in 1 .. 9
          PROVE  /\ d[j] \in ArgdefType
                 /\ d[j].bvalue <=> Now(j) \/ argdefs[j].bvalue
                 /\ d[j].value = argdefs[j].value
      <3>1. argdefs[j] \in ArgdefType
        BY <1>5
      <3>. QED  BY <2>1, <2>2, <3>1
    <2>. QED  BY <2>1, <2>3
  <1>7. raw_escape' = raw_escape /\ (raw_escape' <=> raw_escape \/ text = <<"-", "-">>)
    BY <1>2, <1>3
  <1>8. \A j \in B : d[j].bvalue <=> IF Now(j) THEN Says(text) ELSE argdefs[j].bvalue
    BY <1>2, <1>4, <1>6
  <1> HIDE DEF text, first, B, S, d
  <1>9. ASSUME \A j \in 1 .. 9 : argdefs'[j].bvalue = d[j].bvalue
        PROVE  FlagsRead
    BY <1>4, <1>8, <1>9 DEF FlagsRead, text, B
  <1>10. ASSUME argdefs'[9].bvalue = d[9].bvalue, argdefs'[9].value = d[9].value
         PROVE  WordRead
    BY <1>2, <1>6, <1>10 DEF WordRead
  <1>11. CASE /\ first > Len(text)
              /\ argdefs' = d
              /\ i' = i + 1
              /\ UNCHANGED ret
    <2>1. Len(text) \in Nat
      BY <1>1 DEF Arg
    <2>2. ~(first <= Len(text)) /\ first # Len(text)
      BY <1>2, <1>11, <2>1
    <2>3. ~Takes /\ \A j \in S : ~Now(j)
      BY <1>2, <2>2
    <2>4. NoneMissing /\ StringsRead
      BY <1>4, <1>6, <1>11, <2>3 DEF NoneMissing, StringsRead, S
    <2>5. FlagsRead /\ WordRead
      BY <1>9, <1>10, <1>11
    <2>. QED  BY <1>5, <1>6, <1>7, <1>11, <2>3, <2>4, <2>5 DEF Effect, text
  <1>12. ASSUME NEW j \in S, first < Len(text), short_arg_match(text, first, j),
                argdefs' = [d EXCEPT ![j].value = SubSeq(text, first + 1, Len(text))],
                i' = i + 1, ret' = ret
         PROVE  Effect
    <2> DEFINE v == SubSeq(text, first + 1, Len(text))
    <2>1. Len(text) \in Nat
      BY <1>1 DEF Arg
    <2>2. first <= Len(text) /\ first # Len(text)
      BY <1>2, <1>12, <2>1
    <2>3. Now(j) /\ ~Takes /\ (\A k \in S : Now(k) => k = j) /\ ValueAt(i) = v
      BY <1>2, <1>12, <2>2
    <2>4. v \in Text /\ v # NULL
      <3>1. first + 1 \in Nat \ {0}
        BY <1>2, <2>1
      <3>. QED  BY <1>1, <3>1, NoNull
    <2> HIDE DEF v
    <2>5. Writes(argdefs', d, j, d[j].bvalue, v, d[j].err)
      <3>1. d[j].bvalue \in BOOLEAN /\ d[j].err \in BOOLEAN /\ j \in 1 .. 9
        BY <1>4, <1>6 DEF ArgdefType
      <3>2. argdefs' = [d EXCEPT ![j].value = v]
        BY <1>12 DEF v
      <3>. QED  BY <1>6, <2>4, <3>1, <3>2, WrittenIs
    <2>6. /\ argdefs' \in [1 .. 9 -> ArgdefType] /\ argdefs'[j].value = v
          /\ \A k \in 1 .. 9 : argdefs'[k].bvalue = d[k].bvalue
          /\ \A k \in 1 .. 9 \ {j} : argdefs'[k] = d[k]
      BY <2>5 DEF Writes
    <2>7. FlagsRead /\ WordRead
      <3>1. 9 \in 1 .. 9 \ {j}
        BY <1>4
      <3>. QED  BY <1>9, <1>10, <2>6, <3>1
    <2>8. NoneMissing
      BY <2>3, <2>4 DEF NoneMissing, S
    <2>9. StringsRead
      <3> SUFFICES ASSUME NEW k \in S
                   PROVE  /\ argdefs'[k].bvalue <=> Now(k) \/ argdefs[k].bvalue
                          /\ Now(k) /\ ValueAt(i) # NULL => argdefs'[k].value = ValueAt(i)
                          /\ ~Now(k) => argdefs'[k].value = argdefs[k].value
        BY DEF StringsRead, S
      <3>1. k \in 1 .. 9
        BY <1>4
      <3>2. k # j => k \in 1 .. 9 \ {j}
        BY <3>1
      <3>. QED  BY <1>6, <2>3, <2>6, <3>1, <3>2
    <2>. QED  BY <1>5, <1>7, <1>12, <2>3, <2>6, <2>7, <2>8, <2>9 DEF Effect, text
  <1>13. ASSUME NEW j \in S, first = Len(text), short_arg_match(text, first, j),
                TakeNext(IF i < Len(argv) THEN d ELSE [d EXCEPT ![j].err = TRUE], j)
         PROVE  Effect
    <2> DEFINE e == IF i < Len(argv) THEN d ELSE [d EXCEPT ![j].err = TRUE]
    <2>1. Len(text) \in Nat
      BY <1>1 DEF Arg
    <2>2. first <= Len(text)
      BY <1>13, <2>1
    <2>3. Now(j) /\ Takes /\ j \in 1 .. 9 /\ \A k \in S : Now(k) => k = j
      BY <1>2, <1>4, <1>13, <2>2
    <2>4. TakeNext(e, j)
      BY <1>13
    <2>5. /\ e \in [1 .. 9 -> ArgdefType]
          /\ \A k \in 1 .. 9 : e[k].bvalue = d[k].bvalue /\ e[k].value = d[k].value
      <3>1. Writes([d EXCEPT ![j].err = TRUE], d, j, d[j].bvalue, d[j].value, TRUE)
        <4>1. d[j].bvalue \in BOOLEAN /\ d[j].value \in Text
          BY <1>6, <2>3 DEF ArgdefType
        <4>. QED  BY <1>6, <2>3, <4>1, WrittenIs
      <3>. QED  BY <1>6, <3>1 DEF Writes
    <2> HIDE DEF e
    <2>6. /\ i' = IF i < Len(argv) THEN i + 2 ELSE i + 1
          /\ argdefs' \in [1 .. 9 -> ArgdefType]
          /\ \A k \in 1 .. 9 : argdefs'[k].bvalue = e[k].bvalue
          /\ \A k \in 1 .. 9 \ {j} : argdefs'[k].value = e[k].value
          /\ IF i < Len(argv) THEN argdefs'[j].value = argv[i + 1] /\ Arg(argv[i + 1])
             ELSE argdefs' = e
          /\ ret' = (ret /\ i < Len(argv))
      BY <2>3, <2>4, <2>5, TakeNextIs
    <2>7. /\ ValueAt(i) = IF i < Len(argv) THEN argv[i + 1] ELSE NULL
          /\ ValueAt(i) # NULL <=> i < Len(argv)
      BY <1>2, <2>3, <2>6, NoNull
    <2>8. NoneMissing <=> i < Len(argv)
      BY <2>3, <2>7 DEF NoneMissing, S
    <2>9. FlagsRead /\ WordRead
      <3>1. 9 \in 1 .. 9 \ {j}
        BY <1>4
      <3>. QED  BY <1>9, <1>10, <2>5, <2>6, <3>1
    <2>10. StringsRead
      <3> SUFFICES ASSUME NEW k \in S
                   PROVE  /\ argdefs'[k].bvalue <=> Now(k) \/ argdefs[k].bvalue
                          /\ Now(k) /\ ValueAt(i) # NULL => argdefs'[k].value = ValueAt(i)
                          /\ ~Now(k) => argdefs'[k].value = argdefs[k].value
        BY DEF StringsRead, S
      <3>1. k \in 1 .. 9
        BY <1>4
      <3>2. k # j => k \in 1 .. 9 \ {j}
        BY <3>1
      <3>. QED  BY <1>6, <2>3, <2>5, <2>6, <2>7, <3>1, <3>2
    <2>11. i' = IF Takes /\ i < Len(argv) THEN i + 2 ELSE i + 1
      BY <2>3, <2>6
    <2>. QED  BY <1>5, <1>7, <2>6, <2>8, <2>9, <2>10, <2>11 DEF Effect, text
  <1>. QED  BY <1>3, <1>11, <1>12, <1>13, Zenon

-----------------------------------------------------------------------------
(* Of the first n arguments, values are those that belong to a flag before *)
(* them; the one behind the nth is no value, or is among the n.            *)
Reads(values, n) ==
    /\ values \subseteq 1 .. n
    /\ \A k \in 1 .. n : k \in values <=>
          /\ k > 1 /\ k - 1 \notin values
          /\ TakesNext(argv[k - 1]) /\ ~Escaped(values, k - 1)
    /\ n \in 1 .. Len(argv) - 1 => ~(n \notin values /\ TakesNext(argv[n]) /\ ~Escaped(values, n))

Words(values, n) == {k \in 1 .. n : k \notin values /\ (Escaped(values, k) \/ ~IsFlag(argv[k]))}
Given(values, n, j) == {k \in (1 .. n) \ (values \union Words(values, n)) : Gives(argv[k], j)}

(* What the argdefs hold is what the last mention of each flag and the     *)
(* first word say, among the n.                                            *)
FlagsAre(values, n) == \A j \in OfType("b") :
    argdefs[j].bvalue <=> Given(values, n, j) # {} /\ Says(argv[Max(Given(values, n, j))])
StringsAre(values, n) == \A j \in OfType("s") :
    /\ argdefs[j].bvalue <=> Given(values, n, j) # {}
    /\ ret => argdefs[j].value = IF Given(values, n, j) = {} THEN NULL
                                 ELSE ValueAt(Max(Given(values, n, j)))
WordIs(values, n) ==
    /\ argdefs[9].bvalue <=> Words(values, n) # {}
    /\ argdefs[9].value = IF Words(values, n) = {} THEN NULL ELSE argv[Min(Words(values, n))]
RetIs(values, n) ==
    ret <=> \A j \in OfType("s") : \A k \in Given(values, n, j) : ValueAt(k) # NULL

ParsedAs(values, n) == /\ Reads(values, n)
                       /\ raw_escape <=> Escaped(values, n + 1)
                       /\ FlagsAre(values, n)
                       /\ StringsAre(values, n)
                       /\ WordIs(values, n)
                       /\ RetIs(values, n)

(* The invariant of parse_args, which main keeps.                          *)
ParseInv == /\ ParseTypeOK
            /\ \E values \in SUBSET (1 .. Len(argv)) : ParsedAs(values, i - 1)
            /\ pc = "parse" => conf = NotConfigured
            /\ pc = "resolve" => conf = Configuration /\ ret /\ i > Len(argv)

(* One turn of parse_args.                                                 *)
LEMMA ParseEffect ==
    ASSUME ParseTypeOK, ParseArg
    PROVE  i <= Len(argv) /\ Effect /\ conf' = conf
  <1>1. i <= Len(argv) /\ argv' = argv /\ conf' = conf
    BY DEF ParseArg
  <1>2. CASE ~raw_escape /\ IsLong(argv[i]) /\ ParseLong(argv[i])
    BY <1>1, <1>2, LongEffect
  <1>3. CASE ~raw_escape /\ IsShort(argv[i]) /\ ParseShort(argv[i])
    BY <1>1, <1>3, ShortEffect
  <1>4. CASE (raw_escape \/ ~IsFlag(argv[i])) /\ ParseRaw(argv[i])
    BY <1>1, <1>4, RawEffect DEF IsWord
  <1>. QED  BY <1>1, <1>2, <1>3, <1>4 DEF ParseArg

(* One argument more is read, or a flag and its value. *)
Taken == Takes /\ i < Len(argv)
Upto == IF Taken THEN i + 1 ELSE i
More(values) == IF Taken THEN values \union {i + 1} ELSE values

-----------------------------------------------------------------------------
(* What is a value, a word, a flag and escaped among the arguments that    *)
(* were read stays so: nothing later is looked at for it.                  *)
LEMMA Grows ==
    ASSUME ParseTypeOK, i <= Len(argv), NEW values, Reads(values, i - 1),
           raw_escape <=> Escaped(values, i)
    PROVE  /\ Reads(More(values), Upto)
           /\ Escaped(More(values), Upto + 1) <=> raw_escape \/ argv[i] = <<"-", "-">>
           /\ Words(More(values), Upto) = IF IsWord THEN Words(values, i - 1) \union {i}
                                          ELSE Words(values, i - 1)
           /\ \A j : Given(More(values), Upto, j) =
                     IF Now(j) THEN Given(values, i - 1, j) \union {i} ELSE Given(values, i - 1, j)
  <1> DEFINE more == More(values)
             m == Upto
             n == Len(argv)
  <1>1. i \in 1 .. n /\ n \in Nat
    BY ArgumentsAre DEF ParseTypeOK
  <1>2. values \subseteq 1 .. i - 1
    BY DEF Reads
  <1>3. i \notin values /\ i + 1 \notin values /\ i \notin more
    BY <1>1, <1>2 DEF More
  <1>4. \A k \in 1 .. i : k \in more <=> k \in values
    BY <1>1 DEF More
  <1>5. /\ Taken => m = i + 1 /\ more = values \union {i + 1} /\ i < n
        /\ ~Taken => m = i /\ more = values
    BY DEF More, Upto, Taken
  <1>6. ASSUME NEW k \in 1 .. i + 1
        PROVE  Escaped(more, k) <=> Escaped(values, k)
    <2>1. \A e \in 1 .. k - 1 : e \in 1 .. i
      BY <1>1
    <2>. QED  BY <1>4, <2>1, Zenon DEF Escaped
  <1>7. Escaped(values, i + 1) <=> raw_escape \/ argv[i] = <<"-", "-">>
    <2>1. 1 .. (i + 1) - 1 = (1 .. i - 1) \union {i}
      BY <1>1
    <2>. QED  BY <1>3, <2>1, Zenon DEF Escaped
  <1>8. Escaped(more, m + 1) <=> raw_escape \/ argv[i] = <<"-", "-">>
    <2>1. Taken => (Escaped(more, (i + 1) + 1) <=> Escaped(more, i + 1))
      <3>1. 1 .. ((i + 1) + 1) - 1 = (1 .. (i + 1) - 1) \union {i + 1}
        BY <1>1
      <3>. QED  BY <1>5, <3>1 DEF Escaped
    <2>2. i + 1 \in 1 .. i + 1
      BY <1>1
    <2> HIDE DEF more, m
    <2>. QED  BY <1>5, <1>6, <1>7, <2>1, <2>2
  <1>9. i \notin values /\ TakesNext(argv[i]) /\ ~Escaped(values, i) <=> Takes
    BY <1>3 DEF Takes
  <1>10. Reads(more, m)
    <2>1. more \subseteq 1 .. m
      <3>1. i + 1 \in 1 .. i + 1 /\ 1 .. i - 1 \subseteq 1 .. i + 1 /\ 1 .. i - 1 \subseteq 1 .. i
        BY <1>1
      <3>. QED  BY <1>2, <1>5, <3>1
    <2>2. ASSUME NEW k \in 1 .. m
          PROVE  k \in more <=> /\ k > 1 /\ k - 1 \notin more
                                /\ TakesNext(argv[k - 1]) /\ ~Escaped(more, k - 1)
      <3>1. k > 1 => k - 1 \in 1 .. i /\ k - 1 \in 1 .. i + 1
        BY <1>1, <1>5
      <3>2. k > 1 => /\ k - 1 \in more <=> k - 1 \in values
                     /\ Escaped(more, k - 1) <=> Escaped(values, k - 1)
        BY <1>4, <1>6, <3>1
      <3>3. CASE k \in 1 .. i - 1
        <4>1. k \in values <=> /\ k > 1 /\ k - 1 \notin values
                               /\ TakesNext(argv[k - 1]) /\ ~Escaped(values, k - 1)
          BY <3>3 DEF Reads
        <4>2. k \in more <=> k \in values
          BY <1>1, <1>4, <3>3
        <4>. QED  BY <3>2, <4>1, <4>2
      <3>4. CASE k = i
        <4>1. k > 1 => i - 1 \in 1 .. Len(argv) - 1
          BY <1>1, <3>4
        <4>2. k > 1 => ~(i - 1 \notin values /\ TakesNext(argv[i - 1]) /\ ~Escaped(values, i - 1))
          BY <4>1 DEF Reads
        <4>. QED  BY <1>3, <3>2, <3>4, <4>2
      <3>5. CASE Taken /\ k = i + 1
        <4>1. k \in more /\ k > 1 /\ k - 1 = i
          BY <1>1, <1>5, <3>5
        <4>2. i \notin values /\ TakesNext(argv[i]) /\ ~Escaped(values, i)
          BY <1>9, <3>5 DEF Taken
        <4>. QED  BY <3>2, <4>1, <4>2
      <3>6. k \in 1 .. i - 1 \/ k = i \/ (Taken /\ k = i + 1)
        BY <1>1, <1>5
      <3>. QED  BY <3>3, <3>4, <3>5, <3>6
    <2>3. m \in 1 .. Len(argv) - 1 => ~(m \notin more /\ TakesNext(argv[m]) /\ ~Escaped(more, m))
      <3>1. CASE Taken
        BY <1>5, <3>1
      <3>2. CASE ~Taken
        <4>1. m \in 1 .. Len(argv) - 1 => i < n
          BY <1>1, <1>5, <3>2
        <4>2. m = i /\ more = values
          BY <1>5, <3>2
        <4> HIDE DEF m, more
        <4>. QED  BY <1>9, <3>2, <4>1, <4>2 DEF Taken
      <3>. QED  BY <3>1, <3>2
    <2> HIDE DEF m, more
    <2>. QED  BY <2>1, <2>2, <2>3 DEF Reads
  <1>11. \A k \in 1 .. m : k \in 1 .. i - 1 \/ k = i \/ (Taken /\ k = i + 1)
    BY <1>1, <1>5
  <1>12. /\ 1 .. i - 1 \subseteq 1 .. m /\ i \in 1 .. m
         /\ 1 .. i - 1 \subseteq 1 .. i /\ i \in 1 .. i + 1
         /\ 1 .. i - 1 \subseteq 1 .. i + 1 /\ i \notin 1 .. i - 1
    BY <1>1, <1>5
  <1>13. Words(more, m) = IF IsWord THEN Words(values, i - 1) \union {i} ELSE Words(values, i - 1)
    <2> HIDE DEF more, m
    <2>1. ASSUME NEW k \in 1 .. i - 1
          PROVE  k \in Words(more, m) <=> k \in Words(values, i - 1)
      BY <1>4, <1>6, <1>12 DEF Words
    <2>2. i \in Words(more, m) <=> IsWord
      BY <1>3, <1>6, <1>12 DEF Words, IsWord
    <2>3. Taken => i + 1 \notin Words(more, m)
      BY <1>5 DEF Words
    <2>4. Words(more, m) \subseteq 1 .. m /\ Words(values, i - 1) \subseteq 1 .. i - 1
      BY DEF Words
    <2>5. \A k \in Words(more, m) : k \in Words(values, i - 1) \/ (k = i /\ IsWord)
      BY <1>11, <2>1, <2>2, <2>3, <2>4
    <2>6. \A k \in Words(values, i - 1) : k \in Words(more, m)
      BY <2>1, <2>4
    <2>7. CASE IsWord
      BY <2>2, <2>5, <2>6, <2>7, Zenon
    <2>8. CASE ~IsWord
      BY <2>5, <2>6, <2>8, Zenon
    <2>. QED  BY <2>7, <2>8
  <1>14. ASSUME NEW j
         PROVE  Given(more, m, j) = IF Now(j) THEN Given(values, i - 1, j) \union {i}
                                    ELSE Given(values, i - 1, j)
    <2> HIDE DEF more, m
    <2> DEFINE G == Given(more, m, j)
               F == Given(values, i - 1, j)
    <2>1. ASSUME NEW k \in 1 .. i - 1
          PROVE  k \in G <=> k \in F
      <3>1. k \in Words(more, m) <=> k \in Words(values, i - 1)
        BY <1>12, <1>13
      <3>2. k \in more <=> k \in values
        BY <1>4, <1>12
      <3>. QED  BY <1>12, <3>1, <3>2 DEF Given
    <2>2. i \in G <=> Now(j)
      <3>1. i \in Words(more, m) <=> IsWord
        BY <1>12, <1>13 DEF Words
      <3>2. Gives(argv[i], j) => IsFlag(argv[i])
        BY DEF Gives, IsLong, IsShort
      <3>. QED  BY <1>3, <1>12, <3>1, <3>2 DEF Given, Now, IsWord
    <2>3. Taken => i + 1 \notin G
      BY <1>5 DEF Given
    <2>4. G \subseteq 1 .. m /\ F \subseteq 1 .. i - 1
      BY DEF Given
    <2> HIDE DEF G, F
    <2>5. \A k \in G : k \in F \/ (k = i /\ Now(j))
      BY <1>11, <2>1, <2>2, <2>3, <2>4
    <2>6. \A k \in F : k \in G
      BY <2>1, <2>4
    <2>7. G = IF Now(j) THEN F \union {i} ELSE F
      BY <2>2, <2>5, <2>6
    <2>. QED  BY <2>7 DEF G, F
  <1>. QED  BY <1>8, <1>10, <1>13, <1>14

(* What is said of the command line changes no more than that does. *)
LEMMA SameArguments ==
    ASSUME argv' = argv, NEW values, NEW n
    PROVE  /\ Escaped(values, n)' <=> Escaped(values, n)
           /\ Reads(values, n)' <=> Reads(values, n)
           /\ Words(values, n)' = Words(values, n)
           /\ \A j : Given(values, n, j)' = Given(values, n, j)
           /\ ValueAt(n)' = ValueAt(n)
  <1>1. \A k : Escaped(values, k)' <=> Escaped(values, k)
    BY DEF Escaped
  <1>2. Reads(values, n)' <=> Reads(values, n)
    BY <1>1 DEF Reads
  <1>3. Words(values, n)' = Words(values, n)
    BY <1>1 DEF Words
  <1>4. \A j : Given(values, n, j)' = Given(values, n, j)
    BY <1>3 DEF Given
  <1>5. ValueAt(n)' = ValueAt(n)
    BY DEF ValueAt
  <1>. QED  BY <1>1, <1>2, <1>3, <1>4, <1>5

(* What is found in the argdefs is what the arguments up to i say, before  *)
(* a turn of parse_args and after it.                                      *)
LEMMA ParseStep ==
    ASSUME ParseTypeOK, Effect, i <= Len(argv), NEW values, ParsedAs(values, i - 1)
    PROVE  \E more \in SUBSET (1 .. Len(argv)) : ParsedAs(more, i - 1)'
  <1>1. i \in 1 .. Len(argv) /\ Len(argv) \in Nat /\ i \in Nat \ {0}
    BY ArgumentsAre DEF ParseTypeOK
  <1>2. Reads(values, i - 1) /\ (raw_escape <=> Escaped(values, i))
    <2>1. (i - 1) + 1 = i
      BY <1>1
    <2>. QED  BY <2>1 DEF ParsedAs
  <1>3. PICK more, m : more = More(values) /\ m = Upto
    OBVIOUS
  <1>4. /\ Reads(more, m)
        /\ Escaped(more, m + 1) <=> raw_escape \/ argv[i] = <<"-", "-">>
        /\ Words(more, m) = IF IsWord THEN Words(values, i - 1) \union {i} ELSE Words(values, i - 1)
        /\ \A j : Given(more, m, j) = IF Now(j) THEN Given(values, i - 1, j) \union {i}
                                      ELSE Given(values, i - 1, j)
    BY <1>2, <1>3, Grows
  <1>5. i' - 1 = m /\ argv' = argv /\ m \in 1 .. Len(argv)
    <2>1. argv' = argv /\ i' = IF Taken THEN i + 2 ELSE i + 1
      BY DEF Effect, Taken
    <2>. QED  BY <1>1, <1>3, <2>1 DEF Upto, Taken
  <1>6. more \in SUBSET (1 .. Len(argv))
    <2>1. more \subseteq 1 .. m
      BY <1>4 DEF Reads
    <2>. QED  BY <1>1, <1>5, <2>1
  <1>7. /\ Words(values, i - 1) \subseteq 1 .. i - 1
        /\ \A j : Given(values, i - 1, j) \subseteq 1 .. i - 1
    BY DEF Words, Given
  <1>8. ASSUME NEW j
        PROVE  /\ Now(j) => Given(more, m, j) # {} /\ Max(Given(more, m, j)) = i
               /\ ~Now(j) => Given(more, m, j) = Given(values, i - 1, j)
    <2>1. Max(Given(values, i - 1, j) \union {i}) = i
      BY <1>1, <1>7, MaxGrows
    <2>. QED  BY <1>4, <2>1
  <1>9. Reads(more, m)' /\ (raw_escape' <=> Escaped(more, m + 1)')
    <2>1. Reads(more, m)'
      BY <1>4, <1>5, SameArguments
    <2>2. Escaped(more, m + 1)' <=> Escaped(more, m + 1)
      BY <1>5, SameArguments
    <2>3. raw_escape' <=> raw_escape \/ argv[i] = <<"-", "-">>
      BY DEF Effect
    <2>. QED  BY <1>4, <2>1, <2>2, <2>3
  <1>10. /\ \A j : Given(more, m, j)' = Given(more, m, j)
         /\ Words(more, m)' = Words(more, m)
         /\ \A k : ValueAt(k)' = ValueAt(k)
    BY <1>5, SameArguments
  <1>11. FlagsAre(more, m)'
    <2> SUFFICES ASSUME NEW j \in OfType("b")
                 PROVE  argdefs'[j].bvalue <=> /\ Given(more, m, j) # {}
                                               /\ Says(argv[Max(Given(more, m, j))])
      BY <1>5, <1>10 DEF FlagsAre
    <2>1. argdefs'[j].bvalue <=> IF Now(j) THEN Says(argv[i]) ELSE argdefs[j].bvalue
      BY DEF Effect, FlagsRead
    <2>2. argdefs[j].bvalue <=> /\ Given(values, i - 1, j) # {}
                                /\ Says(argv[Max(Given(values, i - 1, j))])
      BY DEF ParsedAs, FlagsAre
    <2>. QED  BY <1>8, <2>1, <2>2, Zenon
  <1>12. ret' => ret /\ NoneMissing
    BY DEF Effect
  <1>13. StringsAre(more, m)'
    <2> SUFFICES ASSUME NEW j \in OfType("s")
                 PROVE  /\ argdefs'[j].bvalue <=> Given(more, m, j) # {}
                        /\ ret' => argdefs'[j].value = IF Given(more, m, j) = {} THEN NULL
                                                       ELSE ValueAt(Max(Given(more, m, j)))
      BY <1>10 DEF StringsAre
    <2>1. /\ argdefs'[j].bvalue <=> Now(j) \/ argdefs[j].bvalue
          /\ Now(j) /\ ValueAt(i) # NULL => argdefs'[j].value = ValueAt(i)
          /\ ~Now(j) => argdefs'[j].value = argdefs[j].value
      BY DEF Effect, StringsRead
    <2>2. /\ argdefs[j].bvalue <=> Given(values, i - 1, j) # {}
          /\ ret => argdefs[j].value = IF Given(values, i - 1, j) = {} THEN NULL
                                       ELSE ValueAt(Max(Given(values, i - 1, j)))
      BY DEF ParsedAs, StringsAre
    <2>3. ret' => ret /\ (Now(j) => ValueAt(i) # NULL)
      BY <1>12 DEF NoneMissing
    <2>. QED  BY <1>8, <2>1, <2>2, <2>3, Zenon
  <1>14. WordIs(more, m)'
    <2> SUFFICES /\ argdefs'[9].bvalue <=> Words(more, m) # {}
                 /\ argdefs'[9].value = IF Words(more, m) = {} THEN NULL
                                        ELSE argv[Min(Words(more, m))]
      BY <1>5, <1>10 DEF WordIs
    <2>1. /\ argdefs[9].bvalue <=> Words(values, i - 1) # {}
          /\ argdefs[9].value = IF Words(values, i - 1) = {} THEN NULL
                                ELSE argv[Min(Words(values, i - 1))]
      BY DEF ParsedAs, WordIs
    <2>2. /\ argdefs'[9].bvalue <=> IsWord \/ argdefs[9].bvalue
          /\ argdefs'[9].value = IF IsWord /\ ~argdefs[9].bvalue THEN argv[i] ELSE argdefs[9].value
      BY DEF Effect, WordRead
    <2>3. Min(Words(values, i - 1) \union {i}) = IF Words(values, i - 1) = {} THEN i
                                                 ELSE Min(Words(values, i - 1))
      BY <1>1, <1>7, MinGrows
    <2>. QED  BY <1>4, <2>1, <2>2, <2>3
  <1>15. RetIs(more, m)'
    <2> SUFFICES ret' <=> \A j \in OfType("s") : \A k \in Given(more, m, j) : ValueAt(k) # NULL
      BY <1>10 DEF RetIs
    <2>1. ret <=> \A j \in OfType("s") : \A k \in Given(values, i - 1, j) : ValueAt(k) # NULL
      BY DEF ParsedAs, RetIs
    <2>2. ret' <=> ret /\ \A j \in OfType("s") : Now(j) => ValueAt(i) # NULL
      BY DEF Effect, NoneMissing
    <2>. QED  BY <1>4, <2>1, <2>2
  <1>16. ParsedAs(more, i - 1)'
    BY <1>5, <1>9, <1>11, <1>13, <1>14, <1>15 DEF ParsedAs
  <1>. QED  BY <1>6, <1>16

-----------------------------------------------------------------------------
(* At first no argument is read, and nothing is found.                     *)
LEMMA InitIsParsed == StartInit => ParseInv
  <1> SUFFICES ASSUME StartInit
               PROVE  ParseInv
    OBVIOUS
  <1>1. /\ argv \in BoundedSeq(Texts, MaxArgs) /\ i = 1
        /\ argdefs = [j \in 1 .. 9 |-> [bvalue |-> FALSE, value |-> NULL, err |-> FALSE]]
        /\ raw_escape = FALSE /\ ret = TRUE /\ conf = NotConfigured /\ pc = "parse"
    BY ArgdefsAre DEF StartInit, ArgInit
  <1>2. Len(argv) \in Nat
    BY <1>1, ArgumentsAre
  <1>3. [bvalue |-> FALSE, value |-> NULL, err |-> FALSE] \in ArgdefType
    BY DEF ArgdefType, NULL, Text
  <1>4. ParseTypeOK
    <2>1. i \in 1 .. Len(argv) + 1
      BY <1>1, <1>2
    <2>2. argdefs \in [1 .. 9 -> ArgdefType]
      BY <1>1, <1>3
    <2>. QED  BY <1>1, <2>1, <2>2 DEF ParseTypeOK
  <1>5. \A j \in OfType("b") \union OfType("s") \union {9} : j \in 1 .. 9
    <2>1. OfType("b") = {1, 2, 3, 5} /\ OfType("s") = {4, 6, 7, 8}
      BY ArgdefsAre
    <2>. QED  BY <2>1
  <1>6. \A j \in OfType("b") \union OfType("s") \union {9} :
           ~argdefs[j].bvalue /\ argdefs[j].value = NULL
    BY <1>1, <1>5
  <1>7. 1 .. 0 = {} /\ i - 1 = 0 /\ (i - 1) + 1 = 1 /\ 1 .. 1 - 1 = {}
    BY <1>1
  <1>8. /\ Words({}, 0) = {} /\ \A j : Given({}, 0, j) = {}
        /\ ~Escaped({}, 1)
    BY <1>7 DEF Words, Given, Escaped
  <1>9. Reads({}, 0)
    BY <1>7 DEF Reads
  <1>10. ParsedAs({}, 0)
    <2>1. FlagsAre({}, 0) /\ StringsAre({}, 0) /\ WordIs({}, 0) /\ RetIs({}, 0)
      BY <1>1, <1>6, <1>8 DEF FlagsAre, StringsAre, WordIs, RetIs
    <2>2. raw_escape <=> Escaped({}, 0 + 1)
      BY <1>1, <1>8
    <2>. QED  BY <1>9, <2>1, <2>2 DEF ParsedAs
  <1>. QED  BY <1>1, <1>4, <1>7, <1>10 DEF ParseInv

(* main does not change what was parsed.                                   *)
LEMMA StaysParsed ==
    ASSUME ParseInv, UNCHANGED <<argv, i, argdefs, raw_escape, ret>>
    PROVE  /\ ParseTypeOK'
           /\ \E values \in SUBSET (1 .. Len(argv')) : ParsedAs(values, i - 1)'
  <1>1. ParseTypeOK'
    BY DEF ParseInv, ParseTypeOK
  <1>2. PICK values \in SUBSET (1 .. Len(argv)) : ParsedAs(values, i - 1)
    BY DEF ParseInv
  <1>3. PICK n : n = i - 1
    OBVIOUS
  <1>4. /\ Escaped(values, n + 1)' <=> Escaped(values, n + 1)
        /\ Reads(values, n)' <=> Reads(values, n)
        /\ Words(values, n)' = Words(values, n)
        /\ \A j : Given(values, n, j)' = Given(values, n, j)
        /\ \A k : ValueAt(k)' = ValueAt(k)
    BY SameArguments
  <1>5. ParsedAs(values, n)
    BY <1>2, <1>3
  <1>6. /\ Reads(values, n)' /\ (raw_escape' <=> Escaped(values, n + 1)')
        /\ FlagsAre(values, n)' /\ StringsAre(values, n)' /\ WordIs(values, n)' /\ RetIs(values, n)'
    BY <1>4, <1>5 DEF ParsedAs, FlagsAre, StringsAre, WordIs, RetIs
  <1>7. ParsedAs(values, n)'
    BY <1>6 DEF ParsedAs
  <1>8. ParsedAs(values, i - 1)'
    BY <1>3, <1>7
  <1>. QED  BY <1>1, <1>2, <1>8

(* Each step of start-up keeps the invariant.                              *)
LEMMA ParseIsParsed == ASSUME ParseInv, Parse PROVE ParseInv'
  <1>1. i <= Len(argv) /\ Effect /\ conf' = conf /\ pc = "parse" /\ pc' = pc
    BY ParseEffect DEF ParseInv, Parse
  <1>2. PICK values \in SUBSET (1 .. Len(argv)) : ParsedAs(values, i - 1)
    BY DEF ParseInv
  <1>3. \E more \in SUBSET (1 .. Len(argv)) : ParsedAs(more, i - 1)'
    BY <1>1, <1>2, ParseStep DEF ParseInv
  <1>4. ParseTypeOK'
    <2>1. i \in 1 .. Len(argv) + 1 /\ Len(argv) \in Nat /\ argv \in BoundedSeq(Texts, MaxArgs)
      BY ArgumentsAre DEF ParseInv, ParseTypeOK
    <2>2. i' \in 1 .. Len(argv) + 1
      BY <1>1, <2>1 DEF Effect
    <2>. QED  BY <1>1, <2>1, <2>2 DEF Effect, ParseTypeOK
  <1>5. argv' = argv
    BY <1>1 DEF Effect
  <1>. QED  BY <1>1, <1>3, <1>4, <1>5 DEF ParseInv

LEMMA StepIsParsed == ParseInv /\ [StartNext]_startVars => ParseInv'
  <1> SUFFICES ASSUME ParseInv, [StartNext]_startVars
               PROVE  ParseInv'
    OBVIOUS
  <1>1. ASSUME argVars' = argVars, pc' \notin {"parse", "resolve"} \/ pc' = pc
        PROVE  ParseInv'
    <2>1. Configuration' = Configuration
      BY <1>1 DEF argVars, Configuration, ValueOr, IfGiven
    <2>2. UNCHANGED <<argv, i, argdefs, raw_escape, ret, conf>>
      BY <1>1 DEF argVars
    <2>3. ParseTypeOK' /\ \E values \in SUBSET (1 .. Len(argv')) : ParsedAs(values, i - 1)'
      BY <2>2, StaysParsed
    <2>. QED  BY <1>1, <2>1, <2>2, <2>3 DEF ParseInv
  <1>2. CASE Parse
    BY <1>2, ParseIsParsed
  <1>3. CASE Configure
    <2>1. /\ UNCHANGED <<argv, i, argdefs, raw_escape, ret>>
          /\ conf' = Configuration /\ pc' = "resolve" /\ i > Len(argv) /\ ret
      BY <1>3 DEF Configure
    <2>2. Configuration' = Configuration
      BY <2>1 DEF Configuration, ValueOr, IfGiven
    <2>3. ParseTypeOK' /\ \E values \in SUBSET (1 .. Len(argv')) : ParsedAs(values, i - 1)'
      BY <2>1, StaysParsed
    <2>. QED  BY <2>1, <2>2, <2>3 DEF ParseInv
  <1>4. CASE UNCHANGED startVars
    BY <1>1, <1>4 DEF startVars
  <1>5. CASE UsageError
    BY <1>1, <1>5 DEF UsageError
  <1>6. CASE ResolveFails \/ Resolve
    BY <1>1, <1>6 DEF ResolveFails, Resolve
  <1>7. CASE Bind
    <2>1. argVars' = argVars /\ pc = "bind" /\ pc' \in {pc, "listen"}
      BY <1>7 DEF Bind
    <2>. QED  BY <1>1, <2>1
  <1>8. CASE NothingBound \/ Listen \/ ListenFails
    BY <1>1, <1>8 DEF NothingBound, Listen, ListenFails
  <1>9. CASE InitPool \/ MallocFails
    BY <1>1, <1>9 DEF InitPool, MallocFails
  <1>10. CASE Started
    BY <1>1, <1>10 DEF Started, startVars
  <1>. QED  BY <1>2, <1>3, <1>4, <1>5, <1>6, <1>7, <1>8, <1>9, <1>10 DEF StartNext

-----------------------------------------------------------------------------
(* There is one way to tell values from flags and words. *)
IsReading(values) == \A k \in DOMAIN argv : k \in values <=>
        k > 1 /\ k - 1 \notin values /\ TakesNext(argv[k - 1]) /\ ~Escaped(values, k - 1)

LEMMA ReadOneWay ==
    ASSUME DOMAIN argv = 1 .. Len(argv), Len(argv) \in Nat,
           NEW u \in SUBSET DOMAIN argv, NEW v \in SUBSET DOMAIN argv, IsReading(u), IsReading(v)
    PROVE  u = v
  <1> DEFINE Differ == {k \in 1 .. Len(argv) : ~(k \in u <=> k \in v)}
  <1>1. Differ = {}
    <2> SUFFICES ASSUME Differ # {}
                 PROVE  FALSE
      OBVIOUS
    <2>1. Differ \subseteq Nat
      OBVIOUS
    <2>2. PICK k \in Differ : \A l \in Differ : k <= l
      <3> HIDE DEF Differ
      <3>. QED  BY <2>1, LeastNumber
    <2>3. \A l \in 1 .. k - 1 : l \in u <=> l \in v
      BY <2>2
    <2>4. k > 1 => k - 1 \in 1 .. k - 1 /\ \A l \in 1 .. (k - 1) - 1 : l \in 1 .. k - 1
      OBVIOUS
    <2>5. k > 1 => /\ k - 1 \in u <=> k - 1 \in v
                   /\ Escaped(u, k - 1) <=> Escaped(v, k - 1)
      BY <2>3, <2>4 DEF Escaped
    <2>6. /\ k \in u <=> k > 1 /\ k - 1 \notin u /\ TakesNext(argv[k - 1]) /\ ~Escaped(u, k - 1)
          /\ k \in v <=> k > 1 /\ k - 1 \notin v /\ TakesNext(argv[k - 1]) /\ ~Escaped(v, k - 1)
      BY DEF IsReading
    <2>. QED  BY <2>5, <2>6
  <1>. QED  BY <1>1

(* So the values that were read are those that the whole command line has. *)
LEMMA ValuesAre ==
    ASSUME ParseTypeOK, NEW values, Reads(values, Len(argv))
    PROVE  Values = values
  <1>1. DOMAIN argv = 1 .. Len(argv) /\ Len(argv) \in Nat
    BY ArgumentsAre DEF ParseTypeOK
  <1>2. values \in SUBSET DOMAIN argv /\ IsReading(values)
    BY <1>1 DEF Reads, IsReading
  <1>3. Values = CHOOSE u \in SUBSET DOMAIN argv : IsReading(u)
    BY DEF Values, IsReading
  <1>4. Values \in SUBSET DOMAIN argv /\ IsReading(Values)
    BY <1>2, <1>3, Zenon
  <1>. QED  BY <1>1, <1>2, <1>4, ReadOneWay

(* When all arguments are read, what was found of the part is said of all. *)
LEMMA ParsedIsAsked ==
    ASSUME ParseInv, pc \in {"parse", "resolve"}
    PROVE  AsAsked
  <1> DEFINE N == Len(argv)
             values == Values
             free == {k \in DOMAIN argv \ values : Escaped(values, k)}
             words == free \union {k \in DOMAIN argv \ values : ~IsFlag(argv[k])}
             given == [j \in DOMAIN Argdefs |->
                         {k \in DOMAIN argv \ (values \union words) : Gives(argv[k], j)}]
             complete == \A j \in OfType("s") : \A k \in given[j] : ValueAt(k) # NULL
             Asked(j) == given[j] # {} /\ Says(argv[Max(given[j])])
             LastValue(j, default) == IF given[j] = {} THEN default ELSE ValueAt(Max(given[j]))
  <1>1. ParseTypeOK /\ N \in Nat /\ DOMAIN argv = 1 .. N /\ i \in 1 .. N + 1
    BY ArgumentsAre DEF ParseInv, ParseTypeOK
  <1>2. CASE ~(i > N)
    BY <1>2, Zenon DEF ParseInv, AsAsked
  <1>3. CASE i > N
    <2>1. i - 1 = N
      BY <1>1, <1>3
    <2>2. PICK v \in SUBSET (1 .. N) : ParsedAs(v, N)
      BY <2>1 DEF ParseInv
    <2>3. v = values
      BY <1>1, <2>2, ValuesAre DEF ParsedAs
    <2>4. ParsedAs(values, N)
      BY <2>2, <2>3
    <2>5. words = Words(values, N)
      BY <1>1 DEF Words
    <2>6. \A j \in 1 .. 9 : given[j] = Given(values, N, j)
      BY <1>1, <2>5, ArgdefsAre DEF Given
    <2>7. OfType("b") = {1, 2, 3, 5} /\ OfType("s") = {4, 6, 7, 8}
      BY ArgdefsAre
    <2>8. \A j \in OfType("b") \union OfType("s") : j \in 1 .. 9
      BY <2>7
    <2>9. /\ \A j \in 1 .. 9 : given[j] \subseteq 1 .. N
          /\ words \subseteq 1 .. N
      BY <1>1, <2>5, <2>6 DEF Given, Words
    <2> HIDE DEF free, words, given, N, values
    <2>10. ret <=> complete
      BY <2>4, <2>6, <2>8 DEF ParsedAs, RetIs
    <2>11. ASSUME conf # NotConfigured
           PROVE  /\ conf.verbose = Asked(1) /\ conf.quiet = Asked(2)
                  /\ conf.serve_error_files = Asked(5)
                  /\ conf.chroot = (given[4] # {})
                  /\ conf.unsafe = (Asked(3) /\ ~conf.chroot)
                  /\ conf.chroot_dir = LastValue(4, NULL)
                  /\ conf.suffix = LastValue(6, NULL) /\ conf.index = LastValue(8, NULL)
                  /\ conf.port = LastValue(7, Default("8080"))
                  /\ conf.serve_path = IF words = {} THEN Default("./") ELSE argv[Min(words)]
      <3>1. conf = Configuration /\ ret
        BY <2>11 DEF ParseInv
      <3>2. ASSUME NEW j \in OfType("b")
            PROVE  argdefs[j].bvalue = Asked(j)
        <4>1. argdefs[j].bvalue \in BOOLEAN
          BY <1>1, <2>8 DEF ParseTypeOK, ArgdefType
        <4>2. argdefs[j].bvalue <=> given[j] # {} /\ Says(argv[Max(given[j])])
          BY <2>4, <2>6, <2>8 DEF ParsedAs, FlagsAre
        <4>. QED  BY <4>1, <4>2
      <3>3. ASSUME NEW j \in OfType("s")
            PROVE  /\ argdefs[j].bvalue = (given[j] # {})
                   /\ argdefs[j].value = LastValue(j, NULL)
                   /\ given[j] # {} => argdefs[j].value # NULL
        <4>1. argdefs[j].bvalue \in BOOLEAN
          BY <1>1, <2>8 DEF ParseTypeOK, ArgdefType
        <4>2. argdefs[j].bvalue <=> given[j] # {}
          BY <2>4, <2>6, <2>8 DEF ParsedAs, StringsAre
        <4>3. argdefs[j].value = IF given[j] = {} THEN NULL ELSE ValueAt(Max(given[j]))
          BY <2>4, <2>6, <2>8, <3>1 DEF ParsedAs, StringsAre
        <4>4. given[j] # {} => Max(given[j]) \in given[j]
          BY <1>1, <2>8, <2>9, MaxIs
        <4>5. given[j] # {} => ValueAt(Max(given[j])) # NULL
          BY <2>10, <3>1, <4>4
        <4>. QED  BY <4>1, <4>2, <4>3, <4>5
      <3>4. argdefs[9].value = IF words = {} THEN NULL ELSE argv[Min(words)]
        BY <2>4, <2>5 DEF ParsedAs, WordIs
      <3>5. words # {} => argv[Min(words)] # NULL
        <4>1. words \subseteq Nat
          BY <2>9
        <4>2. words # {} => Min(words) \in words
          BY <4>1, MinIs
        <4>3. words # {} => Arg(argv[Min(words)])
          BY <1>1, <2>9, <4>2, ArgumentsAre DEF N, ParseTypeOK
        <4>. QED  BY <4>3, NoNull
      <3>6. /\ 1 \in OfType("b") /\ 2 \in OfType("b") /\ 3 \in OfType("b") /\ 5 \in OfType("b")
            /\ 4 \in OfType("s") /\ 6 \in OfType("s") /\ 7 \in OfType("s") /\ 8 \in OfType("s")
        BY <2>7
      <3> HIDE DEF complete
      <3>7. /\ conf.verbose = argdefs[1].bvalue /\ conf.quiet = argdefs[2].bvalue
            /\ conf.serve_error_files = argdefs[5].bvalue
            /\ conf.chroot = argdefs[4].bvalue
            /\ conf.unsafe = (argdefs[3].bvalue /\ ~argdefs[4].bvalue)
            /\ conf.chroot_dir = IF argdefs[4].bvalue /\ argdefs[4].value = NULL
                                 THEN ValueOr(9, "./") ELSE argdefs[4].value
            /\ conf.suffix = IfGiven(6, ".html") /\ conf.index = IfGiven(8, "index.html")
            /\ conf.port = ValueOr(7, "8080") /\ conf.serve_path = ValueOr(9, "./")
        BY <3>1 DEF Configuration
      <3>8. conf.verbose = Asked(1) /\ conf.quiet = Asked(2) /\ conf.serve_error_files = Asked(5)
        BY <3>2, <3>6, <3>7
      <3>9. conf.chroot = (given[4] # {}) /\ conf.unsafe = (Asked(3) /\ ~conf.chroot)
        <4>1. argdefs[3].bvalue = Asked(3) /\ argdefs[4].bvalue = (given[4] # {})
          BY <3>2, <3>3, <3>6
        <4>. QED  BY <3>7, <4>1
      <3>10. conf.chroot_dir = LastValue(4, NULL)
        BY <3>3, <3>6, <3>7
      <3>11. conf.suffix = LastValue(6, NULL) /\ conf.index = LastValue(8, NULL)
        BY <3>3, <3>6, <3>7 DEF IfGiven, ValueOr
      <3>12. conf.port = LastValue(7, Default("8080"))
        BY <3>3, <3>6, <3>7 DEF ValueOr
      <3>13. conf.serve_path = IF words = {} THEN Default("./") ELSE argv[Min(words)]
        BY <3>4, <3>5, <3>7 DEF ValueOr
      <3>. QED  BY <3>8, <3>9, <3>10, <3>11, <3>12, <3>13
    <2>. QED  BY <2>10, <2>11, Zenon DEF AsAsked, free, words, given, N, values
  <1>. QED  BY <1>2, <1>3

(* The configuration that main makes of the argdefs is what the command    *)
(* line asks for, whichever arguments there are and in whatever order:     *)
(* parse_args goes wrong exactly when a flag lacks its value.              *)
THEOREM ConfigAsAsked == StartSpec => []ConfigIsAsked
  <1>1. StartSpec => []ParseInv
    BY InitIsParsed, StepIsParsed, PTL DEF StartSpec
  <1>2. ParseInv => ConfigIsAsked
    BY ParsedIsAsked DEF ConfigIsAsked
  <1>. QED  BY <1>1, <1>2, PTL
=============================================================================
