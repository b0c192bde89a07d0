-------------------------- MODULE EventLoopProofs --------------------------
(***************************************************************************)
(* What a connection is between two of its steps, and what the loop keeps  *)
(* of the queue: for any number of clients, tries, bytes and seconds.      *)
(***************************************************************************)
EXTENDS EventLoop, FiniteSetTheorems, SequenceTheorems, TLAPS

(* A connection between two of its steps. Beside what the invariants of    *)
(* EventLoop say: while a request is read, nothing has been written and    *)
(* nothing is known of it, and no try is used up before it is allocated.   *)
AtRest(c) ==
    /\ c \in ConnType
    /\ c.state = "READING" =>
          /\ c.req # "parsed"
          /\ c.res = "NULL" /\ c.left = 0
          /\ c.n_items < BufSize
          /\ c.write_tries_left = MaxTries
          /\ c.keep_alive = TRUE
          /\ c.req = "NULL" => c.n_items = 0 /\ c.read_tries_left = MaxTries
    /\ c.state # "READING" => c.req = "parsed"
    /\ c.state = "WRITING_BODY" => c.res \in {"body", "file"}

QueueAtRest == \A i \in DOMAIN conns : AtRest(conns[i])
Distinct(queue) == \A i, j \in DOMAIN queue : queue[i].fd = queue[j].fd => i = j

LoopInv == /\ conns \in Seq(ConnType)
           /\ ready \subseteq Fds \union {ListenFd}
           /\ reported \subseteq Fds \union {ListenFd}
           /\ idx \in Nat \ {0}
           /\ pc \in {"poll", "accept", "serve", "exited"}
           /\ QueueAtRest
           /\ Distinct(conns)

(* c is what a step may make of the connection b. *)
Follows(b, c) == AtRest(c) /\ c.fd = b.fd /\ (c.keep_alive => b.keep_alive)

(* What the pass does to the connection b in its slot. *)
Moves(b) == Closes \/ \E c : Follows(b, c) /\ Becomes(c)

LEMMA Sizes == /\ MaxFds \in Nat \ {0} /\ Timeout \in Nat \ {0}
               /\ MaxTries \in Nat \ {0} /\ BufSize \in Nat \ {0}
               /\ HeadLen \in Nat \ {0} /\ BodyLen \in Nat
               /\ Kinds \subseteq {"body", "file", "null"}
  BY SizeAssumption, KindAssumption DEF BodyKinds

-----------------------------------------------------------------------------
(* A connection is what its fields are. *)
LEMMA ConnIsItsFields ==
    ASSUME NEW c \in ConnType
    PROVE  c = [fd |-> c.fd, state |-> c.state, req |-> c.req, n_items |-> c.n_items,
                res |-> c.res, left |-> c.left, read_tries_left |-> c.read_tries_left,
                write_tries_left |-> c.write_tries_left,
                keep_alive |-> c.keep_alive, idle |-> c.idle]
  BY DEF ConnType

(* The connection's own steps, from the innermost call outwards.           *)
LEMMA RecycledIsNew ==
    ASSUME NEW c \in ConnType
    PROVE  recycle_connection(c) = make_connection(c.fd)
  <1> DEFINE r == recycle_connection(c)
  <1>1. /\ r.fd = c.fd /\ r.state = "READING" /\ r.req = "NULL" /\ r.n_items = 0
        /\ r.res = "NULL" /\ r.left = 0 /\ r.read_tries_left = MaxTries
        /\ r.write_tries_left = MaxTries /\ r.keep_alive = TRUE /\ r.idle = 0
    BY DEF recycle_connection, ConnType
  <1>2. r \in ConnType
    <2>1. 0 \in 0 .. BufSize /\ MaxTries \in 0 .. MaxTries /\ 0 \in 0 .. Timeout
      BY Sizes
    <2>. QED  BY <2>1 DEF recycle_connection, ConnType
  <1> HIDE DEF r
  <1>3. r = make_connection(c.fd)
    BY <1>1, <1>2, ConnIsItsFields DEF make_connection
  <1>. QED  BY <1>3 DEF r

LEMMA NewIsAtRest == ASSUME NEW fd \in Fds PROVE AtRest(make_connection(fd))
  BY Sizes DEF AtRest, make_connection, ConnType

LEMMA FinishesMoves ==
    ASSUME NEW b, NEW c, Follows(b, c), Finishes(c)
    PROVE  Moves(b)
  <1>1. CASE c.keep_alive
    <2>1. c \in ConnType /\ c.fd \in Fds
      BY DEF Follows, AtRest, ConnType
    <2>2. AtRest(recycle_connection(c)) /\ recycle_connection(c).fd = c.fd
      BY <2>1, RecycledIsNew, NewIsAtRest DEF make_connection
    <2>3. Becomes(recycle_connection(c))
      BY <1>1 DEF Finishes
    <2>. QED  BY <1>1, <2>2, <2>3 DEF Follows, Moves
  <1>2. CASE ~c.keep_alive
    BY <1>2 DEF Finishes, Moves
  <1>. QED  BY <1>1, <1>2

LEMMA RetriesMoves ==
    ASSUME NEW b, NEW c, Follows(b, c), c.state # "READING", Retries(c)
    PROVE  Moves(b)
  <1> DEFINE d == [c EXCEPT !.write_tries_left = @ - 1]
  <1>1. CASE c.write_tries_left = 0
    BY <1>1 DEF Retries, Moves
  <1>2. CASE c.write_tries_left # 0
    <2>1. Follows(b, d)
      BY <1>2, Sizes DEF Follows, AtRest, ConnType
    <2>2. Becomes(d)
      BY <1>2 DEF Retries
    <2>. QED  BY <2>1, <2>2 DEF Moves
  <1>. QED  BY <1>1, <1>2

LEMMA SentPartFollows ==
    ASSUME NEW b, NEW c, Follows(b, c), c.state # "READING",
           NEW sent \in 0 .. c.left - 1, NEW tries \in 0 .. MaxTries
    PROVE  /\ Follows(b, [c EXCEPT !.left = @ - sent])
           /\ Follows(b, [c EXCEPT !.left = @ - sent, !.idle = 0])
           /\ Follows(b, [c EXCEPT !.left = @ - sent, !.write_tries_left = tries])
  <1>1. c.left - sent \in Nat /\ 0 \in 0 .. Timeout
    BY Sizes DEF Follows, AtRest, ConnType
  <1>. QED  BY <1>1 DEF Follows, AtRest, ConnType

LEMMA BodyMoves ==
    ASSUME NEW b, NEW c, c.res \in {"body", "file"} => Follows(b, c),
           c.state # "READING", BodyStep(c)
    PROVE  Moves(b)
  <1>1. CASE Closes
    BY <1>1 DEF Moves
  <1>2. CASE c.res = "body" /\ WritesBody(c)
    <2>1. Follows(b, c)
      BY <1>2
    <2>2. ASSUME NEW sent \in 0 .. c.left - 1, Retries([c EXCEPT !.left = @ - sent])
          PROVE  Moves(b)
      <3>1. 0 \in 0 .. MaxTries
        BY Sizes
      <3>2. Follows(b, [c EXCEPT !.left = @ - sent])
        BY <2>1, <3>1, SentPartFollows
      <3>3. [c EXCEPT !.left = @ - sent].state # "READING"
        BY <2>1 DEF Follows, AtRest, ConnType
      <3>. QED  BY <2>2, <3>2, <3>3, RetriesMoves
    <2>. QED  BY <1>2, <2>1, <2>2, FinishesMoves DEF WritesBody
  <1>3. CASE c.res = "file" /\ WritesFile(c)
    <2>1. Follows(b, c)
      BY <1>3
    <2>2. ASSUME NEW sent \in 0 .. c.left - 1,
                 Retries([c EXCEPT !.left = @ - sent,
                                   !.write_tries_left = IF sent > 0 THEN MaxTries ELSE @])
          PROVE  Moves(b)
      <3> DEFINE tries == IF sent > 0 THEN MaxTries ELSE c.write_tries_left
                 d == [c EXCEPT !.left = @ - sent, !.write_tries_left = tries]
      <3>1. tries \in 0 .. MaxTries
        BY <2>1, Sizes DEF Follows, AtRest, ConnType
      <3> HIDE DEF tries
      <3>2. Follows(b, d)
        BY <2>1, <3>1, SentPartFollows
      <3>3. d.state # "READING"
        BY <2>1 DEF Follows, AtRest, ConnType
      <3>4. Retries(d)
        BY <2>2 DEF tries
      <3> HIDE DEF d
      <3>. QED  BY <3>2, <3>3, <3>4, RetriesMoves
    <2>. QED  BY <1>3, <2>1, <2>2, FinishesMoves DEF WritesFile
  <1>. QED  BY <1>1, <1>2, <1>3 DEF BodyStep

LEMMA HeadMoves ==
    ASSUME NEW b, NEW c, Follows(b, c), c.state = "WRITING_HEADERS", HeadDone(c)
    PROVE  Moves(b)
  <1>1. ASSUME NEW n \in 0 .. BodyLen,
               BodyStep([c EXCEPT !.state = "WRITING_BODY", !.left = n])
        PROVE  Moves(b)
    <2> DEFINE d == [c EXCEPT !.state = "WRITING_BODY", !.left = n]
    <2>1. /\ d.res \in {"body", "file"} => Follows(b, d)
          /\ d.state # "READING"
      <3>1. c \in ConnType /\ n \in Nat
        BY Sizes DEF Follows, AtRest
      <3>2. /\ d \in ConnType /\ d.state = "WRITING_BODY"
            /\ d.fd = c.fd /\ d.req = c.req /\ d.res = c.res /\ d.keep_alive = c.keep_alive
        BY <3>1 DEF ConnType
      <3>. QED  BY <3>2 DEF Follows, AtRest
    <2>2. BodyStep(d)
      BY <1>1
    <2> HIDE DEF d
    <2>. QED  BY <2>1, <2>2, BodyMoves
  <1>. QED  BY <1>1, FinishesMoves DEF HeadDone

LEMMA WriteMoves ==
    ASSUME AtRest(This), WriteHeaders \/ WriteBody
    PROVE  Moves(This)
  <1> DEFINE b == This
  <1>1. Follows(b, b)
    BY DEF Follows
  <1>2. CASE WriteBody
    <2>1. b.state = "WRITING_BODY" /\ BodyStep(b)
      BY <1>2 DEF WriteBody, Steps
    <2>. QED  BY <1>1, <2>1, BodyMoves
  <1>3. CASE WriteHeaders
    <2>1. PICK c \in Responded(b) :
              \/ \E sent \in 0 .. c.left - 1 :
                    Retries([c EXCEPT !.left = @ - sent, !.idle = 0])
              \/ HeadDone(c)
              \/ Closes
      BY <1>3 DEF WriteHeaders
    <2>2. b.state = "WRITING_HEADERS" /\ b \in ConnType
      BY <1>3 DEF WriteHeaders, Steps, AtRest
    <2>3. Follows(b, c) /\ c.state = "WRITING_HEADERS"
      <3>1. CASE b.res # "NULL"
        BY <1>1, <2>1, <2>2, <3>1 DEF Responded
      <3>2. CASE b.res = "NULL"
        <4>1. PICK kind \in Kinds : c = [b EXCEPT !.res = kind, !.left = HeadLen, !.idle = 0]
          BY <2>1, <3>2 DEF Responded
        <4>2. HeadLen \in Nat /\ 0 \in 0 .. Timeout
          BY Sizes
        <4>3. /\ c \in ConnType /\ c.state = "WRITING_HEADERS" /\ c.fd = b.fd
              /\ c.req = b.req /\ c.keep_alive = b.keep_alive
          BY <2>2, <4>1, <4>2 DEF ConnType
        <4>. QED  BY <2>2, <4>3 DEF Follows, AtRest
      <3>. QED  BY <3>1, <3>2
    <2> HIDE DEF b
    <2>4. ASSUME NEW sent \in 0 .. c.left - 1,
                 Retries([c EXCEPT !.left = @ - sent, !.idle = 0])
          PROVE  Moves(b)
      <3> DEFINE d == [c EXCEPT !.left = @ - sent, !.idle = 0]
      <3>1. 0 \in 0 .. MaxTries
        BY Sizes
      <3>2. Follows(b, d)
        BY <2>3, <3>1, SentPartFollows
      <3>3. d.state # "READING"
        BY <2>3 DEF Follows, AtRest, ConnType
      <3>4. Retries(d)
        BY <2>4
      <3> HIDE DEF d
      <3>. QED  BY <3>2, <3>3, <3>4, RetriesMoves
    <2>5. CASE HeadDone(c)
      BY <2>3, <2>5, HeadMoves DEF b
    <2>6. CASE Closes
      BY <2>6 DEF Moves
    <2>. QED  BY <2>1, <2>4, <2>5, <2>6 DEF b
  <1>. QED  BY <1>2, <1>3

LEMMA ReadMoves ==
    ASSUME AtRest(This),
           ReceivePart \/ ReceiveAgain \/ ReceiveError \/ ReceiveEof \/ ReceiveEnd
    PROVE  Moves(This)
  <1> DEFINE b == This
  <1>1. /\ b \in ConnType /\ b.state = "READING" /\ b.res = "NULL" /\ b.left = 0
        /\ b.n_items \in Nat /\ b.n_items < BufSize
        /\ b.write_tries_left = MaxTries /\ b.keep_alive = TRUE
    <2>1. Steps("READING")
      BY Zenon DEF ReceivePart, ReceiveAgain, ReceiveError, ReceiveEof, ReceiveEnd
    <2>2. b.state = "READING"
      BY <2>1 DEF Steps
    <2>. QED  BY <2>2 DEF AtRest, ConnType
  <1>2. 0 \in 0 .. Timeout /\ 0 \in 0 .. BufSize
    BY Sizes
  <1>3. CASE ReceivePart
    <2>1. PICK n \in 1 .. Room(b) :
              IF b.n_items + n = BufSize THEN Closes
              ELSE Becomes([b EXCEPT !.req = "partial", !.idle = 0, !.n_items = @ + n])
      BY <1>3 DEF ReceivePart
    <2>2. CASE b.n_items + n = BufSize
      BY <2>1, <2>2 DEF Moves
    <2>3. CASE b.n_items + n # BufSize
      <3> DEFINE c == [b EXCEPT !.req = "partial", !.idle = 0, !.n_items = @ + n]
      <3>1. b.n_items + n \in 0 .. BufSize /\ b.n_items + n < BufSize
        BY <1>1, <2>3, Sizes DEF Room
      <3>2. Follows(b, c)
        BY <1>1, <1>2, <3>1 DEF Follows, AtRest, ConnType
      <3>. QED  BY <2>1, <2>3, <3>2 DEF Moves
    <2>. QED  BY <2>2, <2>3
  <1>4. CASE ReceiveAgain
    <2>1. CASE b.read_tries_left = 0
      BY <1>4, <2>1 DEF ReceiveAgain, Moves
    <2>2. CASE b.read_tries_left # 0
      <3> DEFINE c == [b EXCEPT !.req = "partial", !.idle = 0, !.read_tries_left = @ - 1]
      <3>1. b.read_tries_left - 1 \in 0 .. MaxTries
        BY <1>1, <2>2, Sizes DEF ConnType
      <3>2. Follows(b, c)
        BY <1>1, <1>2, <3>1 DEF Follows, AtRest, ConnType
      <3>. QED  BY <1>4, <2>2, <3>2 DEF ReceiveAgain, Moves
    <2>. QED  BY <2>1, <2>2
  <1>5. CASE ReceiveError
    <2>1. Follows(b, [b EXCEPT !.req = "partial", !.idle = 0])
      BY <1>1, <1>2 DEF Follows, AtRest, ConnType
    <2>. QED  BY <1>5, <2>1 DEF ReceiveError, Moves
  <1>6. CASE ReceiveEof
    BY <1>6 DEF ReceiveEof, Moves
  <1>7. CASE ReceiveEnd
    <2>1. ASSUME NEW keep \in BOOLEAN
          PROVE  Follows(b, [b EXCEPT !.req = "parsed", !.n_items = 0, !.idle = 0,
                                      !.keep_alive = @ /\ keep,
                                      !.state = "WRITING_HEADERS"])
      <3> DEFINE alive == b.keep_alive /\ keep
                 c == [b EXCEPT !.req = "parsed", !.n_items = 0, !.idle = 0,
                                !.keep_alive = alive, !.state = "WRITING_HEADERS"]
      <3>1. alive \in BOOLEAN /\ (alive => b.keep_alive)
        OBVIOUS
      <3> HIDE DEF alive
      <3>2. Follows(b, c)
        BY <1>1, <1>2, <3>1 DEF Follows, AtRest, ConnType
      <3>. QED  BY <3>2 DEF alive
    <2>. QED  BY <1>7, <2>1 DEF ReceiveEnd, Moves
  <1>. QED  BY <1>3, <1>4, <1>5, <1>6, <1>7

-----------------------------------------------------------------------------
(* The queue: what swap-removal and a connection's step leave of it.       *)
LEMMA SwapRemovedShape ==
    ASSUME NEW S, NEW queue \in Seq(S), NEW i \in 1 .. Len(queue)
    PROVE  LET rest == SwapRemoved(queue, i)
           IN  /\ rest \in Seq(S)
               /\ Len(rest) = Len(queue) - 1
               /\ \A j \in 1 .. Len(queue) - 1 :
                     rest[j] = IF j = i THEN queue[Len(queue)] ELSE queue[j]
  <1> DEFINE front == Front(queue)
  <1>1. /\ front \in Seq(S) /\ Len(front) = Len(queue) - 1
        /\ \A j \in 1 .. Len(queue) - 1 : front[j] = queue[j]
    <2> DEFINE n == Len(queue) - 1
    <2>1. n \in Nat /\ \A j \in 1 .. n : queue[j] \in S
      OBVIOUS
    <2>2. front = SubSeq(queue, 1, n)
      BY DEF Front
    <2> HIDE DEF n, front
    <2>3. /\ front \in Seq(S) /\ Len(front) = IF 1 <= n THEN n - 1 + 1 ELSE 0
          /\ \A j \in 1 .. n - 1 + 1 : front[j] = queue[1 + j - 1]
      BY <2>1, <2>2, SubSeqProperties
    <2>4. Len(front) = n /\ \A j \in 1 .. n : front[j] = queue[j]
      BY <2>1, <2>3
    <2>. QED  BY <2>3, <2>4 DEF n
  <1>2. queue[Len(queue)] \in S /\ Len(queue) \in Nat /\ Len(queue) > 0
    OBVIOUS
  <1> HIDE DEF front
  <1>3. CASE i = Len(queue)
    BY <1>1, <1>2, <1>3 DEF SwapRemoved, front
  <1>4. CASE i # Len(queue)
    <2>1. SwapRemoved(queue, i) = [front EXCEPT ![i] = queue[Len(queue)]]
      BY <1>4 DEF SwapRemoved, Last, front
    <2>. QED  BY <1>1, <1>2, <1>4, <2>1
  <1>. QED  BY <1>3, <1>4

(* Every connection but the one that is closed is still there, in some     *)
(* slot, as it was; and no other is.                                       *)
LEMMA ClosesKeepsOthers ==
    ASSUME LoopInv, InPass, Closes
    PROVE  /\ conns' \in Seq(ConnType)
           /\ \A j \in DOMAIN conns' : \E i \in DOMAIN conns \ {idx} : conns'[j] = conns[i]
           /\ \A i \in DOMAIN conns \ {idx} : \E j \in DOMAIN conns' : conns'[j] = conns[i]
           /\ Distinct(conns')
  <1>1. conns \in Seq(ConnType) /\ idx \in 1 .. Len(conns) /\ Distinct(conns)
    BY DEF LoopInv, InPass
  <1>2. /\ conns' \in Seq(ConnType)
        /\ Len(conns') = Len(conns) - 1
        /\ \A j \in 1 .. Len(conns) - 1 :
              conns'[j] = IF j = idx THEN conns[Len(conns)] ELSE conns[j]
    BY <1>1, SwapRemovedShape DEF Closes
  <1>3. DOMAIN conns = 1 .. Len(conns) /\ DOMAIN conns' = 1 .. Len(conns) - 1
    BY <1>1, <1>2
  <1> DEFINE old(j) == IF j = idx THEN Len(conns) ELSE j
  <1>4. \A j \in DOMAIN conns' : old(j) \in DOMAIN conns \ {idx} /\ conns'[j] = conns[old(j)]
    BY <1>1, <1>2, <1>3
  <1>5. \A i \in DOMAIN conns \ {idx} : \E j \in DOMAIN conns' : old(j) = i
    <2> TAKE i \in DOMAIN conns \ {idx}
    <2>1. CASE i = Len(conns)
      <3>1. idx \in 1 .. Len(conns) - 1
        BY <1>1, <2>1
      <3>2. idx \in DOMAIN conns' /\ old(idx) = i
        BY <1>3, <2>1, <3>1
      <3>. QED  BY <3>2
    <2>2. CASE i # Len(conns)
      <3>1. i \in DOMAIN conns' /\ old(i) = i
        BY <1>1, <1>3, <2>2
      <3>. QED  BY <3>1
    <2>. QED  BY <2>1, <2>2
  <1>6. \A j, k \in DOMAIN conns' : old(j) = old(k) => j = k
    BY <1>1, <1>3
  <1> HIDE DEF old
  <1>7. Distinct(conns')
    <2> SUFFICES ASSUME NEW j \in DOMAIN conns', NEW k \in DOMAIN conns',
                        conns'[j].fd = conns'[k].fd
                 PROVE  j = k
      BY DEF Distinct
    <2>1. conns[old(j)].fd = conns[old(k)].fd
      BY <1>4
    <2>. QED  BY <1>1, <1>4, <1>6, <2>1 DEF Distinct
  <1>. QED  BY <1>2, <1>4, <1>5, <1>7

LEMMA BecomesKeepsOthers ==
    ASSUME LoopInv, InPass, NEW c, Follows(This, c), Becomes(c)
    PROVE  /\ conns' \in Seq(ConnType)
           /\ DOMAIN conns' = DOMAIN conns
           /\ idx \in DOMAIN conns
           /\ \A i \in DOMAIN conns : conns'[i] = IF i = idx THEN c ELSE conns[i]
           /\ \A i \in DOMAIN conns : conns'[i].fd = conns[i].fd
  <1>1. conns \in Seq(ConnType) /\ idx \in 1 .. Len(conns) /\ c \in ConnType
    BY DEF LoopInv, InPass, Follows, AtRest
  <1>2. conns' = [conns EXCEPT ![idx] = c]
    BY DEF Becomes
  <1>3. c.fd = conns[idx].fd
    BY DEF Follows, This
  <1>. QED  BY <1>1, <1>2, <1>3

-----------------------------------------------------------------------------
(* The invariant, step by step: first what any step leaves of the loop's   *)
(* own variables, then what becomes of the connections.                    *)
LoopVars == /\ ready \subseteq Fds \union {ListenFd}
            /\ reported \subseteq Fds \union {ListenFd}
            /\ idx \in Nat \ {0}
            /\ pc \in {"poll", "accept", "serve", "exited"}

LEMMA InitIsSound == Init => LoopInv
  BY DEF Init, LoopInv, QueueAtRest, Distinct

LEMMA MovesKeepsLoopVars ==
    ASSUME LoopInv, Closes \/ \E c : Becomes(c)
    PROVE  LoopVars'
  BY DEF LoopInv, LoopVars, Closes, Becomes

LEMMA MovesIsSound == ASSUME LoopInv, InPass, Moves(This) PROVE LoopInv'
  <1>1. LoopVars'
    BY MovesKeepsLoopVars DEF Moves
  <1>2. CASE Closes
    <2>1. QueueAtRest'
      BY <1>2, ClosesKeepsOthers DEF LoopInv, QueueAtRest
    <2>. QED  BY <1>1, <1>2, <2>1, ClosesKeepsOthers DEF LoopInv, LoopVars
  <1>3. ASSUME NEW c, Follows(This, c), Becomes(c) PROVE LoopInv'
    <2>1. /\ conns' \in Seq(ConnType)
          /\ DOMAIN conns' = DOMAIN conns
          /\ \A i \in DOMAIN conns : conns'[i] = IF i = idx THEN c ELSE conns[i]
          /\ \A i \in DOMAIN conns : conns'[i].fd = conns[i].fd
      BY <1>3, BecomesKeepsOthers
    <2>2. AtRest(c)
      BY <1>3 DEF Follows
    <2>3. QueueAtRest'
      BY <2>1, <2>2 DEF LoopInv, QueueAtRest
    <2>4. Distinct(conns')
      BY <2>1 DEF LoopInv, Distinct
    <2>. QED  BY <1>1, <2>1, <2>3, <2>4 DEF LoopInv, LoopVars
  <1>. QED  BY <1>2, <1>3 DEF Moves

LEMMA AgedIsAtRest ==
    ASSUME NEW c, AtRest(c), NEW d \in 0 .. Timeout
    PROVE  /\ AtRest(Aged(c, d))
           /\ Aged(c, d).fd = c.fd /\ Aged(c, d).keep_alive = c.keep_alive
  <1> DEFINE idle == IF c.idle + d > Timeout THEN Timeout ELSE c.idle + d
             e == [c EXCEPT !.idle = idle]
  <1>1. c \in ConnType
    BY DEF AtRest
  <1>2. idle \in 0 .. Timeout
    BY <1>1, Sizes DEF ConnType
  <1>3. Aged(c, d) = e
    BY DEF Aged
  <1> HIDE DEF idle
  <1>4. /\ e \in ConnType /\ e.fd = c.fd /\ e.state = c.state /\ e.req = c.req
        /\ e.n_items = c.n_items /\ e.res = c.res /\ e.left = c.left
        /\ e.read_tries_left = c.read_tries_left
        /\ e.write_tries_left = c.write_tries_left /\ e.keep_alive = c.keep_alive
    BY <1>1, <1>2 DEF ConnType
  <1> HIDE DEF e
  <1>. QED  BY <1>3, <1>4 DEF AtRest

LEMMA PollIsSound ==
    ASSUME LoopInv, NEW d \in 0 .. Timeout, Poll(d)
    PROVE  /\ LoopInv'
           /\ DOMAIN conns' = DOMAIN conns
           /\ \A i \in DOMAIN conns : /\ conns'[i].fd = conns[i].fd
                                      /\ conns'[i].keep_alive = conns[i].keep_alive
  <1>1. LoopVars'
    BY DEF LoopInv, LoopVars, Poll
  <1>2. conns \in Seq(ConnType) /\ conns' = [i \in DOMAIN conns |-> Aged(conns[i], d)]
    BY DEF LoopInv, Poll
  <1>3. \A i \in DOMAIN conns : /\ AtRest(conns'[i])
                                /\ conns'[i].fd = conns[i].fd
                                /\ conns'[i].keep_alive = conns[i].keep_alive
    BY <1>2, AgedIsAtRest DEF LoopInv, QueueAtRest
  <1>4. DOMAIN conns' = 1 .. Len(conns) /\ Len(conns) \in Nat /\ DOMAIN conns' = DOMAIN conns
    BY <1>2
  <1>5. conns' \in Seq(ConnType)
    <2>1. \A i \in 1 .. Len(conns) : conns'[i] \in ConnType
      BY <1>3, <1>4 DEF AtRest
    <2>2. conns' = [i \in 1 .. Len(conns) |-> conns'[i]]
      BY <1>2
    <2>. QED  BY <1>4, <2>1, <2>2
  <1>. QED  BY <1>1, <1>3, <1>4, <1>5 DEF LoopInv, LoopVars, QueueAtRest, Distinct

LEMMA AcceptIsSound ==
    ASSUME LoopInv, NEW fd \in Fds, Accept(fd)
    PROVE  /\ LoopInv'
           /\ DOMAIN conns' = DOMAIN conns \union {Len(conns) + 1}
           /\ conns'[Len(conns) + 1] = make_connection(fd)
           /\ \A i \in DOMAIN conns : conns'[i] = conns[i]
  <1> DEFINE new == make_connection(fd)
             n == Len(conns) + 1
  <1>1. LoopVars'
    BY DEF LoopInv, LoopVars, Accept
  <1>2. /\ conns \in Seq(ConnType) /\ conns' = Append(conns, new)
        /\ \A i \in DOMAIN conns : conns[i].fd # fd
    BY DEF LoopInv, Accept, Open, FdsOf
  <1>3. AtRest(new) /\ new \in ConnType /\ new.fd = fd
    BY NewIsAtRest DEF AtRest, make_connection
  <1> HIDE DEF new
  <1>4. /\ conns' \in Seq(ConnType)
        /\ DOMAIN conns' = DOMAIN conns \union {n}
        /\ conns'[n] = new
        /\ \A i \in DOMAIN conns : conns'[i] = conns[i]
    BY <1>2, <1>3
  <1> HIDE DEF n
  <1>5. QueueAtRest'
    BY <1>3, <1>4 DEF LoopInv, QueueAtRest
  <1>6. Distinct(conns')
    BY <1>2, <1>3, <1>4 DEF LoopInv, Distinct
  <1>. QED  BY <1>1, <1>4, <1>5, <1>6 DEF LoopInv, LoopVars, n, new

(* The steps that leave the connections alone. *)
LEMMA OthersKeepConns ==
    ASSUME LoopInv,
           \/ PollFails \/ RefuseAccept \/ AcceptFails \/ ClientGivesUp \/ Exited
           \/ \E fd \in Fds \union {ListenFd} : BecomeReady(fd)
           \/ Skip \/ BrokenPipe \/ EndPass
    PROVE  LoopInv' /\ UNCHANGED conns
  <1>1. UNCHANGED conns /\ LoopVars'
    <2>1. CASE PollFails \/ RefuseAccept \/ AcceptFails \/ ClientGivesUp \/ Exited
      BY <2>1 DEF LoopInv, LoopVars, PollFails, RefuseAccept, AcceptFails,
                  ClientGivesUp, Exited, Exits, vars
    <2>2. CASE \E fd \in Fds \union {ListenFd} : BecomeReady(fd)
      BY <2>2 DEF LoopInv, LoopVars, BecomeReady
    <2>3. CASE Skip \/ BrokenPipe \/ EndPass
      BY <2>3 DEF LoopInv, LoopVars, Skip, BrokenPipe, EndPass, Exits
    <2>. QED  BY <2>1, <2>2, <2>3
  <1>. QED  BY <1>1 DEF LoopInv, LoopVars, QueueAtRest, Distinct

(* What a step may be, as far as the connections are concerned. *)
LEMMA StepKinds ==
    ASSUME LoopInv, [Next]_vars
    PROVE  \/ LoopInv' /\ UNCHANGED conns
           \/ \E d \in 0 .. Timeout : Poll(d)
           \/ \E fd \in Fds : Accept(fd)
           \/ InPass /\ Moves(This)
  <1>1. CASE UNCHANGED vars
    BY <1>1 DEF vars, LoopInv, QueueAtRest, Distinct
  <1>2. CASE Serve
    <2>1. CASE Skip \/ BrokenPipe \/ EndPass
      BY <2>1, OthersKeepConns
    <2>2. CASE DropTimedOut
      BY <2>2 DEF DropTimedOut, Moves
    <2>3. CASE WriteHeaders \/ WriteBody
      <3>1. InPass
        BY <2>3, Zenon DEF WriteHeaders, WriteBody, Steps
      <3>2. AtRest(This)
        BY <3>1 DEF LoopInv, QueueAtRest, InPass, This
      <3>. QED  BY <2>3, <3>1, <3>2, WriteMoves
    <2>4. CASE ReceivePart \/ ReceiveAgain \/ ReceiveError \/ ReceiveEof \/ ReceiveEnd
      <3>1. InPass
        BY <2>4, Zenon DEF ReceivePart, ReceiveAgain, ReceiveError, ReceiveEof,
                           ReceiveEnd, Steps
      <3>2. AtRest(This)
        BY <3>1 DEF LoopInv, QueueAtRest, InPass, This
      <3>. QED  BY <2>4, <3>1, <3>2, ReadMoves
    <2>. QED  BY <1>2, <2>1, <2>2, <2>3, <2>4 DEF Serve
  <1>. QED  BY <1>1, <1>2, OthersKeepConns DEF Next, Server

LEMMA StepIsSound == LoopInv /\ [Next]_vars => LoopInv'
  BY StepKinds, PollIsSound, AcceptIsSound, MovesIsSound

LEMMA LoopInvAlways == Spec => []LoopInv
  BY InitIsSound, StepIsSound, PTL DEF Spec

-----------------------------------------------------------------------------
(* No state meets a pointer of the kind it does not expect: do_conn_state  *)
(* (mimino.c:547) looks at none before it dereferences it.                 *)
THEOREM PointersAlwaysMatch == Spec => []PointersMatchState
  <1>1. LoopInv => PointersMatchState
    BY DEF LoopInv, QueueAtRest, AtRest, PointersMatchState
  <1>. QED  BY <1>1, LoopInvAlways, PTL

(* recv() (mimino.c:252) is always called with room for a byte.            *)
THEOREM AlwaysRoomToRead == Spec => []RoomToRead
  <1>1. LoopInv => RoomToRead
    <2> SUFFICES ASSUME LoopInv, NEW i \in DOMAIN conns, conns[i].state = "READING"
                 PROVE  Room(conns[i]) > 0
      BY DEF RoomToRead
    <2>1. AtRest(conns[i])
      BY DEF LoopInv, QueueAtRest
    <2>2. conns[i].n_items \in 0 .. BufSize /\ conns[i].n_items < BufSize
      BY <2>1 DEF AtRest, ConnType
    <2>. QED  BY <2>2, Sizes DEF Room
  <1>. QED  BY <1>1, LoopInvAlways, PTL

(* recycle_connection (mimino.c:514) leaves nothing behind, and neither    *)
(* does anything that happens before the next request is allocated.        *)
THEOREM RecycledIsLikeNew == Spec => []LikeNew
  <1>1. ASSUME LoopInv PROVE LikeNew
    <2> SUFFICES ASSUME NEW i \in DOMAIN conns,
                        conns[i].state = "READING", conns[i].req = "NULL"
                 PROVE  [conns[i] EXCEPT !.idle = 0] = make_connection(conns[i].fd)
      BY DEF LikeNew
    <2> DEFINE c == conns[i]
               e == [c EXCEPT !.idle = 0]
    <2>1. c \in ConnType /\ AtRest(c) /\ c.state = "READING" /\ c.req = "NULL"
      BY <1>1 DEF LoopInv, QueueAtRest, AtRest
    <2> HIDE DEF c
    <2>2. /\ e \in ConnType /\ e.idle = 0 /\ e.fd = c.fd /\ e.state = c.state
          /\ e.req = c.req /\ e.n_items = c.n_items /\ e.res = c.res /\ e.left = c.left
          /\ e.read_tries_left = c.read_tries_left
          /\ e.write_tries_left = c.write_tries_left /\ e.keep_alive = c.keep_alive
      <3>1. 0 \in 0 .. Timeout
        BY Sizes
      <3>. QED  BY <2>1, <3>1 DEF ConnType
    <2> HIDE DEF e
    <2>3. e = make_connection(c.fd)
      BY <2>1, <2>2, ConnIsItsFields DEF AtRest, make_connection
    <2>. QED  BY <2>3 DEF e, c
  <1>. QED  BY <1>1, LoopInvAlways, PTL

LEMMA TypeFromInv == LoopInv => TypeOK
  BY DEF LoopInv, TypeOK

(* Every slot of the queue is a connection of its type: what it has read   *)
(* fits its buffer, and its tries are within bounds on every path of       *)
(* do_conn_state (mimino.c:245), whatever the clients do.                  *)
THEOREM TypeCorrect == Spec => []TypeOK
  BY TypeFromInv, LoopInvAlways, PTL

-----------------------------------------------------------------------------
(* What a step does to the set of clients, and to what each has asked.     *)
LEMMA MovesClients ==
    ASSUME LoopInv, InPass, Moves(This)
    PROVE  /\ idx \in DOMAIN conns
           /\ \A fd : fd \in FdsOf(conns) /\ fd # This.fd => fd \in FdsOf(conns')
           /\ \A fd : WasAsked(conns, fd) => WasAsked(conns', fd) \/ fd \notin FdsOf(conns')
           /\ \/ FdsOf(conns') = FdsOf(conns)
              \/ FdsOf(conns') = FdsOf(conns) \ {This.fd}
  <1>1. idx \in DOMAIN conns /\ Distinct(conns)
    BY DEF LoopInv, InPass
  <1>2. CASE Closes
    <2>1. /\ \A j \in DOMAIN conns' : \E i \in DOMAIN conns \ {idx} : conns'[j] = conns[i]
          /\ \A i \in DOMAIN conns \ {idx} : \E j \in DOMAIN conns' : conns'[j] = conns[i]
      BY <1>2, ClosesKeepsOthers
    <2>2. \A i \in DOMAIN conns \ {idx} : conns[i].fd # This.fd
      BY <1>1 DEF Distinct, This
    <2>3. FdsOf(conns') = FdsOf(conns) \ {This.fd}
      BY <1>1, <2>1, <2>2 DEF FdsOf, This
    <2>4. ASSUME NEW fd, WasAsked(conns, fd), fd \in FdsOf(conns')
          PROVE  WasAsked(conns', fd)
      <3>1. PICK i \in DOMAIN conns : conns[i].fd = fd /\ ~conns[i].keep_alive
        BY <2>4 DEF WasAsked
      <3>2. i # idx
        BY <2>3, <2>4, <3>1 DEF This
      <3>. QED  BY <2>1, <3>1, <3>2 DEF WasAsked
    <2>. QED  BY <1>1, <2>3, <2>4
  <1>3. ASSUME NEW c, Follows(This, c), Becomes(c)
        PROVE  /\ FdsOf(conns') = FdsOf(conns)
               /\ \A fd : WasAsked(conns, fd) => WasAsked(conns', fd)
    <2>1. /\ DOMAIN conns' = DOMAIN conns
          /\ \A i \in DOMAIN conns : conns'[i] = IF i = idx THEN c ELSE conns[i]
          /\ \A i \in DOMAIN conns : conns'[i].fd = conns[i].fd
      BY <1>3, BecomesKeepsOthers
    <2>2. \A i \in DOMAIN conns : ~conns[i].keep_alive => ~conns'[i].keep_alive
      BY <1>3, <2>1 DEF Follows, This
    <2>. QED  BY <2>1, <2>2 DEF FdsOf, WasAsked
  <1>. QED  BY <1>1, <1>2, <1>3 DEF Moves

LEMMA PollClients ==
    ASSUME LoopInv, NEW d \in 0 .. Timeout, Poll(d)
    PROVE  /\ FdsOf(conns') = FdsOf(conns)
           /\ \A fd : WasAsked(conns, fd) => WasAsked(conns', fd)
  BY PollIsSound DEF FdsOf, WasAsked

LEMMA AcceptClients ==
    ASSUME LoopInv, NEW fd \in Fds, Accept(fd)
    PROVE  /\ FdsOf(conns') = FdsOf(conns) \union {fd}
           /\ \A f : WasAsked(conns, f) => WasAsked(conns', f)
  <1>1. /\ DOMAIN conns' = DOMAIN conns \union {Len(conns) + 1}
        /\ conns'[Len(conns) + 1].fd = fd
        /\ \A i \in DOMAIN conns : conns'[i] = conns[i]
    <2>1. make_connection(fd).fd = fd
      BY DEF make_connection
    <2>. QED  BY <2>1, AcceptIsSound
  <1>. QED  BY <1>1 DEF FdsOf, WasAsked

(* There are no more clients than slots. *)
LEMMA ClientsFit ==
    ASSUME LoopInv
    PROVE  IsFiniteSet(Open) /\ Cardinality(Open) <= Len(conns) + 1
  <1> DEFINE D == 1 .. Len(conns)
             f == [i \in D |-> conns[i].fd]
  <1>1. Len(conns) \in Nat /\ D = DOMAIN conns
    BY DEF LoopInv
  <1>2. IsFiniteSet(D) /\ Cardinality(D) = Len(conns)
    <2>1. /\ IsFiniteSet(1 .. Len(conns))
          /\ Cardinality(1 .. Len(conns)) = IF 1 > Len(conns) THEN 0 ELSE Len(conns) - 1 + 1
      <3>1. 1 \in Int /\ Len(conns) \in Int
        BY <1>1
      <3>. QED  BY <3>1, FS_Interval
    <2>. QED  BY <1>1, <2>1
  <1>3. f \in Surjection(D, FdsOf(conns))
    BY <1>1 DEF Surjection, FdsOf
  <1>4. IsFiniteSet(FdsOf(conns)) /\ Cardinality(FdsOf(conns)) <= Len(conns)
    BY <1>2, <1>3, FS_Surjection
  <1>5. /\ IsFiniteSet(FdsOf(conns) \union {ListenFd})
        /\ Cardinality(FdsOf(conns) \union {ListenFd}) <= Cardinality(FdsOf(conns)) + 1
    BY <1>4, FS_AddElement, FS_CardinalityType
  <1>6. Cardinality(FdsOf(conns)) \in Nat /\ Cardinality(FdsOf(conns) \union {ListenFd}) \in Nat
    BY <1>4, <1>5, FS_CardinalityType
  <1>. QED  BY <1>1, <1>4, <1>5, <1>6 DEF Open

-----------------------------------------------------------------------------
(* A client that said `Connection: close` (mimino.c:617) is answered once:   *)
(* of all that a step may do to its connection, only its end makes         *)
(* keep_alive 1 again.                                                     *)
THEOREM CloseIsFinal == Spec => CloseIsKept
  <1> DEFINE Kept == \A fd \in Fds : WasAsked(conns, fd) =>
                        WasAsked(conns', fd) \/ fd \notin FdsOf(conns')
  <1>1. ASSUME LoopInv, [Next]_vars PROVE Kept
    <2>1. CASE UNCHANGED conns
      BY <2>1 DEF WasAsked
    <2>2. ASSUME NEW d \in 0 .. Timeout, Poll(d) PROVE Kept
      BY <1>1, <2>2, PollClients
    <2>3. ASSUME NEW fd \in Fds, Accept(fd) PROVE Kept
      BY <1>1, <2>3, AcceptClients
    <2>4. CASE InPass /\ Moves(This)
      BY <1>1, <2>4, MovesClients
    <2>. QED  BY <1>1, <2>1, <2>2, <2>3, <2>4, StepKinds
  <1>2. LoopInv /\ [Next]_vars => [Kept]_vars
    BY <1>1
  <1>. QED  BY <1>2, LoopInvAlways, PTL DEF Spec, CloseIsKept

(* Of all the clients, a step closes none but the one in the slot that the *)
(* pass (mimino.c:939) has come to.                                        *)
THEOREM OthersStay == Spec => OnlyServedIsClosed
  <1> DEFINE Stay == \A fd \in Open \ FdsOf(conns') : fd # ListenFd =>
                        InPass /\ fd = This.fd
  <1>1. ASSUME LoopInv, [Next]_vars PROVE Stay
    <2> SUFFICES ASSUME NEW fd \in FdsOf(conns), fd \notin FdsOf(conns')
                 PROVE  InPass /\ fd = This.fd
      BY DEF Open
    <2>1. CASE UNCHANGED conns
      BY <2>1 DEF FdsOf
    <2>2. ASSUME NEW d \in 0 .. Timeout, Poll(d) PROVE FALSE
      BY <1>1, <2>2, PollClients
    <2>3. ASSUME NEW f \in Fds, Accept(f) PROVE FALSE
      BY <1>1, <2>3, AcceptClients
    <2>4. CASE InPass /\ Moves(This)
      BY <1>1, <2>4, MovesClients
    <2>. QED  BY <1>1, <2>1, <2>2, <2>3, <2>4, StepKinds
  <1>2. LoopInv /\ [Next]_vars => [Stay]_vars
    BY <1>1
  <1>. QED  BY <1>2, LoopInvAlways, PTL DEF Spec, OnlyServedIsClosed

(* The loop implements ConnSet, for any number of clients, of descriptors  *)
(* and of bytes: main's check (mimino.c:921) keeps the open sockets within *)
(* max_fds, and each step lets at most one client in or go.                *)
THEOREM Refinement == Spec => ImplementsConnSet
  <1>1. Init => Sockets!Init
    BY DEF Init, Sockets!Init, Open, FdsOf
  <1>2. LoopInv /\ [Next]_vars => [Sockets!Next]_Open
    <2> SUFFICES ASSUME LoopInv, [Next]_vars PROVE Sockets!Next \/ UNCHANGED Open
      OBVIOUS
    <2>1. ASSUME NEW fd \in Fds, Accept(fd) PROVE Sockets!Next
      <3>1. fd \notin Open /\ Len(conns) + 1 < MaxFds
        BY <2>1, Sizes DEF Accept, InAccept, AtCapacity, LoopInv
      <3>2. Cardinality(Open) < MaxFds
        BY <3>1, ClientsFit, FS_CardinalityType, Sizes DEF LoopInv
      <3>3. Open' = Open \union {fd}
        BY <2>1, AcceptClients DEF Open
      <3>4. Sockets!Cardinality(Open) = Cardinality(Open)
        BY DEF Sockets!Cardinality, Cardinality
      <3>. QED  BY <3>1, <3>2, <3>3, <3>4 DEF Sockets!Next, Sockets!Accept
    <2>2. CASE InPass /\ Moves(This)
      <3>1. This.fd \in Fds /\ This.fd \in FdsOf(conns)
        BY <2>2, MovesClients DEF LoopInv, QueueAtRest, AtRest, ConnType, This, FdsOf
      <3>2. This.fd # ListenFd
        BY <3>1, FdAssumption
      <3>3. Open' = Open \/ Open' = Open \ {This.fd}
        BY <2>2, <3>2, MovesClients DEF Open
      <3>. QED  BY <3>1, <3>2, <3>3 DEF Sockets!Next, Sockets!Close, Open
    <2>3. ASSUME NEW d \in 0 .. Timeout, Poll(d) PROVE UNCHANGED Open
      BY <2>3, PollClients DEF Open
    <2>4. CASE UNCHANGED conns
      BY <2>4 DEF Open, FdsOf
    <2>. QED  BY <2>1, <2>2, <2>3, <2>4, StepKinds
  <1>. QED  BY <1>1, <1>2, LoopInvAlways, PTL
            DEF Spec, ImplementsConnSet, Sockets!Spec
=============================================================================
