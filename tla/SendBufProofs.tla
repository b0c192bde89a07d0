--------------------------- MODULE SendBufProofs ---------------------------
(***************************************************************************)
(* What send_buf (mimino.c:1017) returns and puts on the wire, for every   *)
(* length of buffer and number of tries, where no room appears in the      *)
(* socket between a partial send() and the return.  Its loop is a          *)
(* recursive function: what it is equal to is read off a function that     *)
(* satisfies the same equation, and that there is no other one follows by  *)
(* induction over the tries that are left.                                 *)
(***************************************************************************)
EXTENDS SendBuf, Recursion, SequenceTheorems

LEMMA FirstBytesAreASequence ==
    ASSUME NEW k \in Nat
    PROVE  /\ FirstBytes(k) \in Seq(Nat)
           /\ Len(FirstBytes(k)) = k
           /\ FirstBytes(k) \o <<>> = FirstBytes(k)
  <1>1. FirstBytes(k) \in Seq(Nat) /\ Len(FirstBytes(k)) = k
    BY DEF FirstBytes
  <1>. QED  BY <1>1

(* Consecutive bytes: n of them, from the one at `from`. *)
Piece(from, n) == [i \in 1 .. n |-> from + i - 1]

LEMMA PieceIsASequence ==
    ASSUME NEW from \in Int, NEW n \in Nat
    PROVE  /\ Piece(from, n) \in Seq(Int)
           /\ Len(Piece(from, n)) = n
           /\ DOMAIN Piece(from, n) = 1 .. n
           /\ n > 0 => Piece(from, n) # <<>>
           /\ Piece(from, 0) = <<>>
  <1>1. Piece(from, n) \in Seq(Int) /\ Len(Piece(from, n)) = n
    BY DEF Piece
  <1>2. Piece(from, 0) \in Seq(Int) /\ Len(Piece(from, 0)) = 0
    BY DEF Piece
  <1>3. DOMAIN Piece(from, n) = 1 .. n
    BY DEF Piece
  <1>. QED  BY <1>1, <1>2, <1>3

LEMMA PiecesJoin ==
    ASSUME NEW from \in Int, NEW m \in Nat, NEW n \in Nat
    PROVE  Piece(from, m) \o Piece(from + m, n) = Piece(from, m + n)
  <1> DEFINE a == Piece(from, m)
             b == Piece(from + m, n)
             c == Piece(from, m + n)
  <1>1. /\ a \in Seq(Int) /\ Len(a) = m
        /\ b \in Seq(Int) /\ Len(b) = n
        /\ c \in Seq(Int) /\ Len(c) = m + n
    BY PieceIsASequence
  <1>2. /\ a \o b \in Seq(Int)
        /\ Len(a \o b) = m + n
        /\ \A i \in 1 .. m + n : (a \o b)[i] = IF i <= m THEN a[i] ELSE b[i - m]
    <2> HIDE DEF a, b
    <2>. QED  BY <1>1, ConcatProperties
  <1>3. ASSUME NEW i \in 1 .. m + n
        PROVE  (a \o b)[i] = c[i]
    <2>1. i <= m => i \in 1 .. m
      OBVIOUS
    <2>2. ~(i <= m) => i - m \in 1 .. n /\ from + m + (i - m) - 1 = from + i - 1
      OBVIOUS
    <2>3. c[i] = from + i - 1 /\ (i <= m => a[i] = from + i - 1)
      BY <2>1 DEF Piece
    <2>4. ~(i <= m) => b[i - m] = from + m + (i - m) - 1
      BY <2>2 DEF Piece
    <2> HIDE DEF a, b, c
    <2>. QED  BY <1>2, <2>2, <2>3, <2>4
  <1>4. a \o b = c
    <2> HIDE DEF a, b, c
    <2>. QED  BY <1>1, <1>2, <1>3, SeqEqual
  <1>. QED  BY <1>4

(* What a sent buffer is in the file or the body it was taken from. *)
LEMMA FirstBytesOfAPiece ==
    ASSUME NEW from \in Int, NEW n \in Nat
    PROVE  /\ [i \in DOMAIN FirstBytes(n) |-> from + FirstBytes(n)[i]] = Piece(from, n)
           /\ [i \in DOMAIN <<>> |-> from + <<>>[i]] = <<>>
  <1>1. DOMAIN FirstBytes(n) = 1 .. n /\ \A i \in 1 .. n : FirstBytes(n)[i] = i - 1
    BY DEF FirstBytes
  <1>2. \A i \in 1 .. n : from + FirstBytes(n)[i] = from + i - 1
    BY <1>1
  <1> HIDE DEF FirstBytes
  <1>3. [i \in DOMAIN FirstBytes(n) |-> from + FirstBytes(n)[i]] = Piece(from, n)
    BY <1>1, <1>2 DEF Piece
  <1>. QED  BY <1>3

-----------------------------------------------------------------------------
(* The loop of send_buf, its body as an operator of the function it calls. *)
Turns(n) == (0 .. 2 * n) \X (1 .. SendTries)

Turn(n, loop, nbytes_sent, try) ==
    IF nbytes_sent >= n THEN {[ret |-> nbytes_sent, wire |-> <<>>]}
    ELSE {[ret |-> -1, wire |-> <<>>]}
         \union (IF try = 1 THEN {[ret |-> nbytes_sent, wire |-> <<>>]}
                 ELSE loop[<<nbytes_sent, try - 1>>])
         \union UNION {{[ret |-> r.ret, wire |-> FirstBytes(k) \o r.wire] :
                           r \in loop[<<nbytes_sent + k, try>>]} :
                         k \in Taken(n, nbytes_sent)}

IsLoop(n, f) == f = [turn \in Turns(n) |-> Turn(n, f, turn[1], turn[2])]

(* What the loop leads to from a turn, if there is no second partial send: *)
(* without another send(), and after one that takes k bytes.               *)
Unsent(n, s) == IF s >= n THEN {[ret |-> s, wire |-> <<>>]}
                ELSE {[ret |-> -1, wire |-> <<>>], [ret |-> s, wire |-> <<>>]}
Sent(n, s, k) == {[ret |-> r.ret, wire |-> FirstBytes(k)] : r \in Unsent(n, s + k)}
SendOutcomes(n, s) ==
    IF s >= n THEN Unsent(n, s)
    ELSE Unsent(n, s) \union UNION {Sent(n, s, k) : k \in Taken(n, s)}

LEMMA TakenIs ==
    ASSUME Sends # "parts", NEW n \in Nat, NEW s \in 0 .. 2 * n, s < n
    PROVE  \A k \in Taken(n, s) : /\ k \in 1 .. n
                                  /\ s + k \in 0 .. 2 * n
                                  /\ s + k < n => Taken(n, s + k) = {}
  <1> SUFFICES ASSUME NEW k \in Taken(n, s)
               PROVE  /\ k \in 1 .. n
                      /\ s + k \in 0 .. 2 * n
                      /\ s + k < n => Taken(n, s + k) = {}
    OBVIOUS
  <1>1. CASE Sends = "whole"
    <2>1. k = n
      BY <1>1 DEF Taken
    <2>. QED  BY <2>1
  <1>2. CASE Sends = "beginning"
    <2>1. k \in 1 .. n
      BY <1>2 DEF Taken
    <2>2. s + k > 0 /\ s + k \in 0 .. 2 * n
      BY <2>1
    <2>. QED  BY <1>2, <2>1, <2>2 DEF Taken
  <1>. QED  BY <1>1, <1>2, SendAssumption DEF SendKinds

LEMMA OutcomesWithoutSend ==
    ASSUME NEW n \in Nat, NEW s \in Nat, s < n => Taken(n, s) = {}
    PROVE  SendOutcomes(n, s) = Unsent(n, s)
  BY DEF SendOutcomes

LEMMA TurnGivesOutcomes ==
    ASSUME Sends # "parts", NEW n \in Nat, NEW f,
           NEW s \in 0 .. 2 * n, NEW t \in 1 .. SendTries,
           t # 1 => f[<<s, t - 1>>] = SendOutcomes(n, s),
           s < n => \A k \in Taken(n, s) : f[<<s + k, t>>] = SendOutcomes(n, s + k)
    PROVE  Turn(n, f, s, t) = SendOutcomes(n, s)
  <1>1. CASE s >= n
    BY <1>1 DEF Turn, SendOutcomes, Unsent
  <1>2. CASE s < n
    <2> DEFINE sent(k) == {[ret |-> r.ret, wire |-> FirstBytes(k) \o r.wire] :
                              r \in f[<<s + k, t>>]}
    <2>1. ASSUME NEW k \in Taken(n, s)
          PROVE  sent(k) = Sent(n, s, k)
      <3>1. k \in Nat /\ s + k \in Nat /\ (s + k < n => Taken(n, s + k) = {})
        BY <1>2, TakenIs
      <3>2. f[<<s + k, t>>] = Unsent(n, s + k)
        BY <1>2, <3>1, OutcomesWithoutSend
      <3>3. \A r \in Unsent(n, s + k) : r.wire = <<>>
        BY DEF Unsent
      <3>4. \A r \in Unsent(n, s + k) : FirstBytes(k) \o r.wire = FirstBytes(k)
        BY <3>1, <3>3, FirstBytesAreASequence
      <3>5. {[ret |-> r.ret, wire |-> FirstBytes(k) \o r.wire] : r \in Unsent(n, s + k)}
              = {[ret |-> r.ret, wire |-> FirstBytes(k)] : r \in Unsent(n, s + k)}
        BY <3>4
      <3>. QED  BY <3>2, <3>5 DEF Sent
    <2>2. UNION {sent(k) : k \in Taken(n, s)} = UNION {Sent(n, s, k) : k \in Taken(n, s)}
      <3> HIDE DEF sent
      <3>. QED  BY <2>1
    <2>3. Turn(n, f, s, t) =
              {[ret |-> -1, wire |-> <<>>]}
              \union (IF t = 1 THEN {[ret |-> s, wire |-> <<>>]}
                      ELSE f[<<s, t - 1>>])
              \union UNION {sent(k) : k \in Taken(n, s)}
      <3>1. ~(s >= n)
        BY <1>2
      <3>. QED  BY <3>1, Zenon DEF Turn
    <2> DEFINE takes == UNION {Sent(n, s, k) : k \in Taken(n, s)}
    <2>4. /\ Unsent(n, s) = {[ret |-> -1, wire |-> <<>>], [ret |-> s, wire |-> <<>>]}
          /\ SendOutcomes(n, s) = Unsent(n, s) \union takes
      BY <1>2 DEF Unsent, SendOutcomes
    <2>5. Turn(n, f, s, t) = {[ret |-> -1, wire |-> <<>>]}
              \union (IF t = 1 THEN {[ret |-> s, wire |-> <<>>]} ELSE SendOutcomes(n, s))
              \union takes
      <3> HIDE DEF sent, takes
      <3>1. takes = UNION {Sent(n, s, k) : k \in Taken(n, s)}
        BY DEF takes
      <3>2. t # 1 => f[<<s, t - 1>>] = SendOutcomes(n, s)
        OBVIOUS
      <3>. QED  BY <2>2, <2>3, <3>1, <3>2
    <2> HIDE DEF takes
    <2>. QED  BY <2>4, <2>5
  <1>. QED  BY <1>1, <1>2

LEMMA LoopIsUnfolded ==
    ASSUME NEW n \in Nat, NEW f, IsLoop(n, f),
           NEW s \in 0 .. 2 * n, NEW t \in 1 .. SendTries
    PROVE  f[<<s, t>>] = Turn(n, f, s, t)
  <1>1. <<s, t>> \in Turns(n)
    BY DEF Turns
  <1> HIDE DEF Turn
  <1>2. f[<<s, t>>] = Turn(n, f, <<s, t>>[1], <<s, t>>[2])
    BY <1>1 DEF IsLoop
  <1>. QED  BY <1>2

LEMMA LoopExists ==
    ASSUME Sends # "parts", NEW n \in Nat
    PROVE  \E f : IsLoop(n, f)
  <1> DEFINE f == [turn \in Turns(n) |-> SendOutcomes(n, turn[1])]
  <1>1. ASSUME NEW s \in 0 .. 2 * n, NEW t \in 1 .. SendTries
        PROVE  f[<<s, t>>] = SendOutcomes(n, s)
    BY DEF Turns
  <1>2. ASSUME NEW turn \in Turns(n)
        PROVE  f[turn] = Turn(n, f, turn[1], turn[2])
    <2> DEFINE s == turn[1]
               t == turn[2]
    <2>1. s \in 0 .. 2 * n /\ t \in 1 .. SendTries
      BY DEF Turns
    <2>2. SendTries \in Nat
      BY SendAssumption
    <2>3. t # 1 => t - 1 \in 1 .. SendTries
      BY <2>1, <2>2
    <2> HIDE DEF f, s, t
    <2>4. s < n => \A k \in Taken(n, s) : s + k \in 0 .. 2 * n
      BY <2>1, TakenIs
    <2>5. s < n => \A k \in Taken(n, s) : f[<<s + k, t>>] = SendOutcomes(n, s + k)
      BY <1>1, <2>1, <2>4
    <2>6. Turn(n, f, s, t) = SendOutcomes(n, s)
      BY <1>1, <2>1, <2>3, <2>5, TurnGivesOutcomes
    <2>. QED  BY <2>6 DEF f, s, t
  <1> HIDE DEF Turn, SendOutcomes
  <1>3. f = [turn \in Turns(n) |-> Turn(n, f, turn[1], turn[2])]
    BY <1>2
  <1>. QED  BY <1>3 DEF IsLoop

(* The tries are used up one by one, whatever was sent before.             *)
LEMMA LoopCountsDown ==
    ASSUME Sends # "parts", NEW n \in Nat, NEW f, IsLoop(n, f), NEW s \in 0 .. 2 * n,
           s < n => \A k \in Taken(n, s) : \A b \in 1 .. SendTries :
                        f[<<s + k, b>>] = SendOutcomes(n, s + k)
    PROVE  \A t \in 1 .. SendTries : f[<<s, t>>] = SendOutcomes(n, s)
  <1>1. SendTries \in Nat
    BY SendAssumption
  <1> DEFINE Wrong == {b \in 1 .. SendTries : f[<<s, b>>] # SendOutcomes(n, s)}
  <1>2. Wrong = {}
    <2> SUFFICES ASSUME Wrong # {}
                 PROVE  FALSE
      OBVIOUS
    <2>1. Wrong \subseteq Nat
      OBVIOUS
    <2>2. PICK b \in Wrong : \A c \in Wrong : b <= c
      <3> HIDE DEF Wrong
      <3>. QED  BY <2>1, LeastNumber
    <2>3. b \in 1 .. SendTries
      OBVIOUS
    <2>4. b # 1 => f[<<s, b - 1>>] = SendOutcomes(n, s)
      <3> SUFFICES ASSUME b # 1
                   PROVE  b - 1 \in 1 .. SendTries /\ b - 1 \notin Wrong
        OBVIOUS
      <3>1. b - 1 \in 1 .. SendTries /\ ~(b <= b - 1)
        BY <1>1, <2>3
      <3> HIDE DEF Wrong
      <3>. QED  BY <2>2, <3>1
    <2>5. s < n => \A k \in Taken(n, s) : f[<<s + k, b>>] = SendOutcomes(n, s + k)
      BY <2>3
    <2>6. f[<<s, b>>] = SendOutcomes(n, s)
      BY <2>3, <2>4, <2>5, LoopIsUnfolded, TurnGivesOutcomes
    <2>. QED  BY <2>6
  <1>. QED  BY <1>2

LEMMA LoopIsUnique ==
    ASSUME Sends # "parts", NEW n \in Nat, NEW f, IsLoop(n, f), NEW s \in 0 .. 2 * n
    PROVE  \A t \in 1 .. SendTries : f[<<s, t>>] = SendOutcomes(n, s)
  <1>1. ASSUME NEW r \in 0 .. 2 * n, r < n => Taken(n, r) = {}
        PROVE  \A b \in 1 .. SendTries : f[<<r, b>>] = SendOutcomes(n, r)
    BY <1>1, LoopCountsDown
  <1>2. CASE s >= n
    BY <1>1, <1>2
  <1>3. CASE s < n
    <2>1. ASSUME NEW k \in Taken(n, s)
          PROVE  \A b \in 1 .. SendTries : f[<<s + k, b>>] = SendOutcomes(n, s + k)
      BY <1>1, <1>3, TakenIs
    <2>. QED  BY <2>1, LoopCountsDown
  <1>. QED  BY <1>2, <1>3

LEMMA SendBufIs ==
    ASSUME Sends # "parts", NEW n \in Nat
    PROVE  send_buf(n) = SendOutcomes(n, 0)
  <1> DEFINE f == CHOOSE g : IsLoop(n, g)
  <1>1. send_buf(n) = f[<<0, SendTries>>]
    BY Zenon DEF send_buf, IsLoop, Turn, Turns
  <1>2. IsLoop(n, f)
    BY LoopExists
  <1>3. 0 \in 0 .. 2 * n /\ SendTries \in 1 .. SendTries
    BY SendAssumption
  <1> HIDE DEF f
  <1>. QED  BY <1>1, <1>2, <1>3, LoopIsUnique

-----------------------------------------------------------------------------
(* Whatever part of the buffer the socket takes, and however often it is   *)
(* full: what send_buf (mimino.c:1017) puts on the wire is a beginning of  *)
(* the buffer, once and in order; and it returns that beginning's length,  *)
(* unless it fails -- where no room appears in the socket between a        *)
(* partial send() and the return.                                          *)
THEOREM SendsABeginning ==
    ASSUME Sends # "parts", NEW n \in Nat, NEW r \in send_buf(n)
    PROVE  \/ r.ret \in 0 .. n /\ r.wire = FirstBytes(r.ret)
           \/ r.ret = -1 /\ \E k \in 0 .. n : r.wire = FirstBytes(k)
  <1>1. FirstBytes(0) = <<>>
    BY DEF FirstBytes
  <1>2. r \in SendOutcomes(n, 0)
    BY SendBufIs
  <1>3. CASE r \in Unsent(n, 0)
    BY <1>1, <1>3 DEF Unsent
  <1>4. CASE n > 0 /\ r \notin Unsent(n, 0)
    <2>1. PICK k \in Taken(n, 0) : r \in Sent(n, 0, k)
      BY <1>2, <1>4 DEF SendOutcomes
    <2>2. k \in 1 .. n
      BY <1>4, TakenIs
    <2>3. PICK q \in Unsent(n, k) : r = [ret |-> q.ret, wire |-> FirstBytes(k)]
      BY <2>1, <2>2 DEF Sent
    <2>4. q.ret = k \/ q.ret = -1
      BY <2>2 DEF Unsent
    <2>. QED  BY <2>2, <2>3, <2>4
  <1>5. n > 0 \/ r \in Unsent(n, 0)
    BY <1>2 DEF SendOutcomes
  <1>. QED  BY <1>3, <1>4, <1>5

(* send_buf (mimino.c:1017) fails and has sent nothing, or returns 0 and   *)
(* has sent nothing, or returns the length of the buffer and has sent it   *)
(* whole and once -- where send() takes all or nothing.                    *)
THEOREM SendsAllOrNothing ==
    ASSUME Sends = "whole", NEW n \in Nat, NEW r \in send_buf(n)
    PROVE  \/ r.ret \in {-1, 0} /\ r.wire = <<>>
           \/ r.ret = n /\ r.wire = FirstBytes(n)
  <1>1. r \in SendOutcomes(n, 0)
    BY SendBufIs
  <1>2. CASE r \in Unsent(n, 0)
    BY <1>2 DEF Unsent
  <1>3. CASE n > 0 /\ r \notin Unsent(n, 0)
    <2>1. r \in Sent(n, 0, n)
      BY <1>1, <1>3 DEF SendOutcomes, Taken
    <2>2. PICK q \in Unsent(n, n) : r = [ret |-> q.ret, wire |-> FirstBytes(n)]
      BY <2>1 DEF Sent
    <2>3. q.ret = n
      BY <2>2 DEF Unsent
    <2>. QED  BY <2>2, <2>3
  <1>4. n > 0 \/ r \in Unsent(n, 0)
    BY <1>1 DEF SendOutcomes
  <1>. QED  BY <1>2, <1>3, <1>4
=============================================================================
