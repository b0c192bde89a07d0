---------------------------- MODULE BrowseProofs ----------------------------
(***************************************************************************)
(* Where links and redirects lead, for every directory, every depth, every *)
(* name that a file can have and every served path; and what is made of a  *)
(* request, however it arrives.                                            *)
(*                                                                         *)
(* The functions of http.c and ascii.c read a path byte by byte, so that   *)
(* what they compute is proved by induction: over the bytes of a path, and *)
(* for Unescaped, which takes one to three of them at a time, over what it *)
(* takes.  The sections follow the functions, and end in the invariant of  *)
(* a client that follows links, writes slashes and is redirected:          *)
(*   cleanup_path   squeezing is done once, and keeps the ends of a path;  *)
(*   Components     parts of a path lead where the parts of them lead;     *)
(*   resolve_path   joins two paths, and writes no more than it allocated; *)
(*   Unescaped      decodes the parts of a path that a slash divides;      *)
(*   buf_encode_url encodes every name to what is decoded to that name.    *)
(*                                                                         *)
(* Then what is made of a request that arrives in parts, or of which only  *)
(* a part arrives (http.c:41-319): what stands where in its text, what     *)
(* each scan of the parser finds in the first k symbols of it, the turns   *)
(* of the loop over the headers in closed form, and the invariant of a     *)
(* connection that reads.                                                  *)
(***************************************************************************)
EXTENDS Browse, Request, Recursion

Text == Seq(Bytes)

(* How a sequence is taken apart and put together. *)
LEMMA Ends ==
    ASSUME NEW s \in Seq(Bytes), NEW c \in Bytes
    PROVE  /\ Append(s, c) \in Seq(Bytes) /\ Append(s, c) # <<>>
           /\ Last(Append(s, c)) = c
           /\ Head(Append(s, c)) = IF s = <<>> THEN c ELSE Head(s)
           /\ Append(s, c) = s \o <<c>>
           /\ Len(Append(s, c)) = Len(s) + 1 /\ Len(s) \in Nat
  BY AppendProperties, HeadTailAppend, AppendIsConcat DEF Last

LEMMA EndsOfBoth ==
    ASSUME NEW s \in Seq(Bytes), NEW t \in Seq(Bytes)
    PROVE  /\ s \o t \in Seq(Bytes)
           /\ t # <<>> => s \o t # <<>> /\ Last(s \o t) = Last(t)
           /\ s # <<>> => s \o t # <<>> /\ Head(s \o t) = Head(s)
  <1>1. s \o t \in Seq(Bytes) /\ Len(s \o t) = Len(s) + Len(t)
    BY ConcatProperties
  <1>2. ASSUME t # <<>>
        PROVE  s \o t # <<>> /\ Last(s \o t) = Last(t)
    <2>1. Len(t) > 0 /\ Len(s) \in Nat /\ Len(t) \in Nat
      BY <1>2, EmptySeq
    <2>2. (s \o t)[Len(s) + Len(t)] = t[Len(t)]
      BY <2>1, ConcatProperties
    <2>. QED  BY <1>1, <2>1, <2>2, EmptySeq DEF Last
  <1>3. ASSUME s # <<>>
        PROVE  s \o t # <<>> /\ Head(s \o t) = Head(s)
    <2>1. Len(s) > 0 /\ Len(s) \in Nat /\ Len(t) \in Nat
      BY <1>3, EmptySeq
    <2>2. (s \o t)[1] = s[1]
      BY <2>1, ConcatProperties
    <2>. QED  BY <1>1, <2>1, <2>2, EmptySeq
  <1>. QED  BY <1>1, <1>2, <1>3

LEMMA AppendToBoth ==
    ASSUME NEW s \in Seq(Bytes), NEW t \in Seq(Bytes), NEW c \in Bytes
    PROVE  Append(s \o t, c) = s \o Append(t, c)
  <1>1. s \o t \in Seq(Bytes)
    BY ConcatProperties
  <1>2. Append(s \o t, c) = (s \o t) \o <<c>> /\ Append(t, c) = t \o <<c>> /\ <<c>> \in Seq(Bytes)
    BY <1>1, AppendIsConcat
  <1>. QED  BY <1>2, ConcatAssociative

LEMMA ConcatOfThree ==
    ASSUME NEW a \in Text, NEW b \in Text, NEW c \in Text
    PROVE  (a \o b) \o c = a \o (b \o c)
  BY ConcatAssociative DEF Text

(* The same, of a triple that is named as such. *)
IsJoined(a, b, c) == (a \o b) \o c = a \o (b \o c)

LEMMA AnyThreeAreJoined == \A a, b, c \in Text : IsJoined(a, b, c)
  BY ConcatOfThree DEF IsJoined

LEMMA TwoBytes ==
    ASSUME NEW a \in Bytes, NEW b \in Bytes
    PROVE  <<a>> \o <<b>> = <<a, b>>
  <1> DEFINE s == <<a>>
             t == <<b>>
             v == <<a, b>>
  <1>1. s \in Seq(Bytes) /\ Len(s) = 1 /\ s[1] = a
    OBVIOUS
  <1>2. t \in Seq(Bytes) /\ Len(t) = 1 /\ t[1] = b
    OBVIOUS
  <1>3. v \in Seq(Bytes) /\ Len(v) = 2 /\ v[1] = a /\ v[2] = b
    OBVIOUS
  <1> HIDE DEF s, t, v
  <1>4. /\ s \o t \in Seq(Bytes)
        /\ Len(s \o t) = Len(s) + Len(t)
        /\ \A k \in 1 .. Len(s) + Len(t) :
              (s \o t)[k] = IF k <= Len(s) THEN s[k] ELSE t[k - Len(s)]
    BY <1>1, <1>2, ConcatProperties
  <1>5. s \o t \in Seq(Bytes) /\ Len(s \o t) = 2 /\ (s \o t)[1] = a /\ (s \o t)[2] = b
    <2>1. 1 \in 1 .. 1 + 1 /\ 2 \in 1 .. 1 + 1 /\ 1 <= 1 /\ ~(2 <= 1) /\ 2 - 1 = 1 /\ 1 + 1 = 2
      OBVIOUS
    <2>2. (s \o t)[1] = s[1]
      BY <1>1, <1>2, <1>4, <2>1
    <2>3. (s \o t)[2] = t[1]
      BY <1>1, <1>2, <1>4, <2>1
    <2>. QED  BY <1>1, <1>2, <1>4, <2>1, <2>2, <2>3
  <1>6. s \o t = v
    <2>1. \A k \in 1 .. 2 : k = 1 \/ k = 2
      OBVIOUS
    <2>2. \A k \in 1 .. 2 : (s \o t)[k] = v[k]
      BY <1>3, <1>5, <2>1
    <2>. QED  BY <1>3, <1>5, <2>2, SeqEqual
  <1>. QED  BY <1>6 DEF s, t, v

-----------------------------------------------------------------------------
(* cleanup_path, one byte after the other. *)
LEMMA SlashIsAByte == SLASH \in Bytes /\ DOT \in Bytes /\ PERCENT \in Bytes
  BY DEF SLASH, DOT, PERCENT, Bytes

Piece(path, i) == IF i > 1 /\ path[i] = SLASH /\ path[i - 1] = SLASH THEN <<>>
                  ELSE <<path[i]>>
Pieces(path) == [i \in DOMAIN path |-> Piece(path, i)]

LEMMA PiecesOf ==
    ASSUME NEW p \in Seq(Bytes)
    PROVE  /\ Pieces(p) \in Seq(Seq(Bytes))
           /\ cleanup_path(p) = FlattenSeq(Pieces(p))
           /\ cleanup_path(p) \in Seq(Bytes)
  <1>1. DOMAIN p = 1 .. Len(p) /\ Len(p) \in Nat
    BY LenProperties
  <1>2. ASSUME NEW i \in 1 .. Len(p)
        PROVE  Piece(p, i) \in Seq(Bytes)
    <2>1. p[i] \in Bytes
      BY ElementOfSeq
    <2>. QED  BY <2>1 DEF Piece
  <1>3. Pieces(p) \in Seq(Seq(Bytes))
    BY <1>1, <1>2 DEF Pieces
  <1>4. cleanup_path(p) = FlattenSeq(Pieces(p))
    BY Zenon DEF cleanup_path, Pieces, Piece
  <1>. QED  BY <1>3, <1>4, FlattensOneByOne

LEMMA CleanupAppend ==
    ASSUME NEW p \in Seq(Bytes), NEW c \in Bytes
    PROVE  cleanup_path(Append(p, c)) =
               IF c = SLASH /\ EndsInSlash(p) THEN cleanup_path(p)
               ELSE Append(cleanup_path(p), c)
  <1> DEFINE q == Append(p, c)
             n == Len(p)
  <1>1. /\ q \in Seq(Bytes) /\ Len(q) = n + 1 /\ n \in Nat
        /\ q[n + 1] = c /\ \A i \in 1 .. n : q[i] = p[i]
    BY AppendProperties
  <1> HIDE DEF q
  <1>2. DOMAIN q = 1 .. n + 1 /\ DOMAIN p = 1 .. n
    BY <1>1, LenProperties
  <1>3. \A i \in 1 .. n : Piece(q, i) = Piece(p, i)
    BY <1>1 DEF Piece
  <1>4. Piece(q, n + 1) = IF c = SLASH /\ EndsInSlash(p) THEN <<>> ELSE <<c>>
    <2>1. n = 0 <=> p = <<>>
      BY EmptySeq
    <2>2. n > 0 => q[n] = p[n] /\ (n + 1) - 1 = n /\ n + 1 > 1
      BY <1>1
    <2>. QED  BY <1>1, <2>1, <2>2 DEF Piece, EndsInSlash, Last
  <1>5. Pieces(p) \in Seq(Seq(Bytes)) /\ Pieces(q) \in Seq(Seq(Bytes)) /\ Piece(q, n + 1) \in Seq(Bytes)
    <2>1. <<>> \in Seq(Bytes) /\ <<c>> \in Seq(Bytes)
      OBVIOUS
    <2>. QED  BY <1>1, <1>4, <2>1, PiecesOf
  <1>6. Pieces(q) = Append(Pieces(p), Piece(q, n + 1))
    <2>1. Len(Pieces(p)) = n /\ Len(Pieces(q)) = n + 1
      BY <1>1, <1>2, <1>5 DEF Pieces
    <2>2. \A i \in 1 .. n + 1 : Pieces(q)[i] = Piece(q, i)
      BY <1>2 DEF Pieces
    <2>3. \A i \in 1 .. n : Pieces(p)[i] = Piece(p, i)
      BY <1>2 DEF Pieces
    <2> DEFINE r == Append(Pieces(p), Piece(q, n + 1))
    <2>4. /\ r \in Seq(Seq(Bytes)) /\ Len(r) = n + 1
          /\ r[n + 1] = Piece(q, n + 1) /\ \A i \in 1 .. n : r[i] = Pieces(p)[i]
      BY <1>5, <2>1, AppendProperties
    <2> HIDE DEF r
    <2>5. \A i \in 1 .. n + 1 : r[i] = Pieces(q)[i]
      <3> SUFFICES ASSUME NEW i \in 1 .. n + 1
                   PROVE  r[i] = Pieces(q)[i]
        OBVIOUS
      <3>1. CASE i = n + 1
        BY <2>2, <2>4, <3>1
      <3>2. CASE i # n + 1
        <4>1. i \in 1 .. n
          BY <1>1, <3>2
        <4>. QED  BY <1>3, <2>2, <2>3, <2>4, <4>1
      <3>. QED  BY <3>1, <3>2
    <2>6. r = Pieces(q)
      BY <1>5, <2>1, <2>4, <2>5, SeqEqual
    <2>. QED  BY <2>6 DEF r
  <1>7. cleanup_path(q) = cleanup_path(p) \o Piece(q, n + 1)
    BY <1>1, <1>5, <1>6, PiecesOf, FlattenAppend
  <1>8. cleanup_path(p) \in Seq(Bytes)
    BY PiecesOf
  <1>. QED  BY <1>4, <1>7, <1>8, ConcatEmptySeq, AppendIsConcat DEF q

LEMMA CleanupEmpty == cleanup_path(<<>>) = <<>>
  <1>1. Pieces(<<>>) = <<>>
    BY DEF Pieces
  <1>2. <<>> \in Seq(Bytes)
    BY EmptySeq
  <1>3. FlattenSeq(<<>>) = <<>>
    BY EmptySeq DEF FlattenSeq
  <1>. QED  BY <1>1, <1>2, <1>3, PiecesOf

(* What it keeps: the ends, and at most as many bytes.                     *)
LEMMA CleanupKeepsEnds ==
    ASSUME NEW p \in Seq(Bytes)
    PROVE  /\ cleanup_path(p) \in Seq(Bytes)
           /\ Len(cleanup_path(p)) <= Len(p)
           /\ EndsInSlash(cleanup_path(p)) <=> EndsInSlash(p)
           /\ StartsWithSlash(cleanup_path(p)) <=> StartsWithSlash(p)
           /\ cleanup_path(p) = <<>> <=> p = <<>>
  <1> DEFINE Kept(q) == /\ Len(cleanup_path(q)) <= Len(q)
                        /\ cleanup_path(q) = <<>> <=> q = <<>>
                        /\ q # <<>> => /\ Last(cleanup_path(q)) = Last(q)
                                      /\ Head(cleanup_path(q)) = Head(q)
             T == {q \in Seq(Bytes) : Kept(q)}
  <1>1. <<>> \in T
    BY CleanupEmpty, EmptySeq
  <1>2. ASSUME NEW q \in Seq(Bytes), NEW c \in Bytes, q \in T
        PROVE  Append(q, c) \in T
    <2> DEFINE d == cleanup_path(q)
    <2>1. d \in Seq(Bytes) /\ Kept(q)
      BY <1>2, PiecesOf
    <2>2. CASE c = SLASH /\ EndsInSlash(q)
      <3>1. cleanup_path(Append(q, c)) = d
        BY <2>2, CleanupAppend
      <3>2. q # <<>> /\ Last(q) = c
        BY <2>2 DEF EndsInSlash
      <3>3. Len(Append(q, c)) = Len(q) + 1 /\ Len(q) \in Nat /\ Len(d) \in Nat
        BY <2>1, Ends
      <3>4. /\ Append(q, c) # <<>> /\ Last(Append(q, c)) = c
            /\ Head(Append(q, c)) = Head(q)
        BY <3>2, Ends
      <3>5. d # <<>> /\ Len(d) <= Len(q) /\ Last(d) = c /\ Head(d) = Head(q)
        BY <2>1, <3>2
      <3>6. Kept(Append(q, c))
        BY <3>1, <3>3, <3>4, <3>5
      <3>. QED  BY <3>6, Ends
    <2>3. CASE ~(c = SLASH /\ EndsInSlash(q))
      <3>1. cleanup_path(Append(q, c)) = Append(d, c)
        BY <2>3, CleanupAppend
      <3>2. /\ Len(Append(q, c)) = Len(q) + 1 /\ Len(q) \in Nat
            /\ Append(q, c) # <<>> /\ Last(Append(q, c)) = c
            /\ Head(Append(q, c)) = IF q = <<>> THEN c ELSE Head(q)
        BY Ends
      <3>3. /\ Len(Append(d, c)) = Len(d) + 1 /\ Len(d) \in Nat
            /\ Append(d, c) # <<>> /\ Last(Append(d, c)) = c
            /\ Head(Append(d, c)) = IF d = <<>> THEN c ELSE Head(d)
        BY <2>1, Ends
      <3>4. Len(d) <= Len(q) /\ (d = <<>> <=> q = <<>>) /\ (q # <<>> => Head(d) = Head(q))
        BY <2>1
      <3>5. Kept(Append(q, c))
        BY <3>1, <3>2, <3>3, <3>4
      <3>. QED  BY <3>5, Ends
    <2>. QED  BY <2>2, <2>3
  <1> HIDE DEF T
  <1>3. p \in T
    BY <1>1, <1>2, SeqInduction
  <1> USE DEF T
  <1>. QED  BY <1>3, PiecesOf DEF EndsInSlash, StartsWithSlash

(* Two paths are cleaned up one by one, unless slashes meet.               *)
LEMMA CleanupConcat ==
    ASSUME NEW a \in Seq(Bytes), NEW b \in Seq(Bytes),
           ~(EndsInSlash(a) /\ StartsWithSlash(b))
    PROVE  cleanup_path(a \o b) = cleanup_path(a) \o cleanup_path(b)
  <1> DEFINE Meet(d) == EndsInSlash(a) /\ StartsWithSlash(d)
             Apart(d) == cleanup_path(a \o d) = cleanup_path(a) \o cleanup_path(d)
             T == {d \in Seq(Bytes) : Meet(d) \/ Apart(d)}
  <1>1. <<>> \in T
    <2>1. a \o <<>> = a /\ cleanup_path(a) \o <<>> = cleanup_path(a)
      BY PiecesOf, ConcatEmptySeq
    <2>. QED  BY <2>1, CleanupEmpty, EmptySeq
  <1>2. ASSUME NEW d \in Seq(Bytes), NEW c \in Bytes, d \in T
        PROVE  Append(d, c) \in T
    <2> SUFFICES ASSUME ~Meet(Append(d, c))
                 PROVE  Apart(Append(d, c))
      BY Ends
    <2>1. a \o Append(d, c) = Append(a \o d, c) /\ a \o d \in Seq(Bytes)
      BY EndsOfBoth, AppendToBoth
    <2>2. /\ cleanup_path(a) \in Seq(Bytes) /\ cleanup_path(d) \in Seq(Bytes)
          /\ cleanup_path(a) \o Append(cleanup_path(d), c) = Append(cleanup_path(a) \o cleanup_path(d), c)
      <3>1. cleanup_path(a) \in Seq(Bytes) /\ cleanup_path(d) \in Seq(Bytes)
        BY PiecesOf
      <3> DEFINE x == cleanup_path(a)
                 y == cleanup_path(d)
      <3> HIDE DEF x, y
      <3>2. x \o Append(y, c) = Append(x \o y, c)
        <4>1. x \in Seq(Bytes) /\ y \in Seq(Bytes)
          BY <3>1 DEF x, y
        <4>. QED  BY <4>1, AppendToBoth
      <3>. QED  BY <3>1, <3>2 DEF x, y
    <2>3. CASE d = <<>>
      <3>1. ~(EndsInSlash(a) /\ c = SLASH) /\ ~EndsInSlash(d)
        BY <2>3, Ends DEF StartsWithSlash, EndsInSlash
      <3>2. a \o d = a /\ cleanup_path(d) = <<>> /\ cleanup_path(a) \o <<>> = cleanup_path(a)
        BY <2>2, <2>3, CleanupEmpty, ConcatEmptySeq
      <3>3. cleanup_path(Append(d, c)) = Append(cleanup_path(d), c)
        BY <3>1, CleanupAppend
      <3>4. cleanup_path(Append(a, c)) = Append(cleanup_path(a), c)
        BY <3>1, CleanupAppend
      <3>. QED  BY <2>1, <2>2, <3>2, <3>3, <3>4
    <2>4. CASE d # <<>>
      <3>1. EndsInSlash(a \o d) <=> EndsInSlash(d)
        BY <2>4, EndsOfBoth DEF EndsInSlash
      <3>2. ~Meet(d)
        BY <2>4, Ends DEF StartsWithSlash
      <3>3. Apart(d)
        BY <1>2, <3>2
      <3>4. cleanup_path(Append(d, c)) = IF c = SLASH /\ EndsInSlash(d) THEN cleanup_path(d)
                                        ELSE Append(cleanup_path(d), c)
        BY CleanupAppend
      <3>5. cleanup_path(Append(a \o d, c)) = IF c = SLASH /\ EndsInSlash(d) THEN cleanup_path(a \o d)
                                             ELSE Append(cleanup_path(a \o d), c)
        BY <2>1, <3>1, CleanupAppend
      <3>. QED  BY <2>1, <2>2, <3>3, <3>4, <3>5
    <2>. QED  BY <2>3, <2>4
  <1> HIDE DEF T
  <1>3. b \in T
    BY <1>1, <1>2, SeqInduction
  <1> USE DEF T
  <1>. QED  BY <1>3

(* Nothing is left to do the second time. *)
LEMMA CleanupOnce ==
    ASSUME NEW p \in Seq(Bytes)
    PROVE  cleanup_path(cleanup_path(p)) = cleanup_path(p)
  <1> DEFINE T == {q \in Seq(Bytes) : cleanup_path(cleanup_path(q)) = cleanup_path(q)}
  <1>1. <<>> \in T
    BY CleanupEmpty, EmptySeq
  <1>2. ASSUME NEW q \in Seq(Bytes), NEW c \in Bytes, q \in T
        PROVE  Append(q, c) \in T
    <2>1. cleanup_path(q) \in Seq(Bytes) /\ (EndsInSlash(cleanup_path(q)) <=> EndsInSlash(q))
      BY CleanupKeepsEnds
    <2>2. cleanup_path(Append(cleanup_path(q), c)) =
              IF c = SLASH /\ EndsInSlash(q) THEN cleanup_path(cleanup_path(q))
              ELSE Append(cleanup_path(cleanup_path(q)), c)
      BY <2>1, CleanupAppend
    <2>. QED  BY <1>2, <2>2, CleanupAppend, Ends
  <1> HIDE DEF T
  <1>3. p \in T
    BY <1>1, <1>2, SeqInduction
  <1> USE DEF T
  <1>. QED  BY <1>3

(* Slashes after slashes make no difference, whatever follows.             *)
LEMMA CleanupOfMore ==
    ASSUME NEW x \in Seq(Bytes), NEW y \in Seq(Bytes), NEW b \in Seq(Bytes),
           EndsInSlash(x), EndsInSlash(y), cleanup_path(x) = cleanup_path(y)
    PROVE  cleanup_path(x \o b) = cleanup_path(y \o b)
  <1> DEFINE Same(d) == cleanup_path(x \o d) = cleanup_path(y \o d)
             T == {d \in Seq(Bytes) : Same(d)}
  <1>1. <<>> \in T
    BY ConcatEmptySeq, EmptySeq
  <1>2. ASSUME NEW d \in Seq(Bytes), NEW c \in Bytes, d \in T
        PROVE  Append(d, c) \in T
    <2>1. x \o Append(d, c) = Append(x \o d, c) /\ x \o d \in Seq(Bytes)
      BY EndsOfBoth
    <2>2. y \o Append(d, c) = Append(y \o d, c) /\ y \o d \in Seq(Bytes)
      BY EndsOfBoth
    <2>3. EndsInSlash(x \o d) <=> EndsInSlash(y \o d)
      <3>1. d = <<>> => x \o d = x /\ y \o d = y
        BY ConcatEmptySeq
      <3>2. d # <<>> => x \o d # <<>> /\ Last(x \o d) = Last(d)
        BY EndsOfBoth
      <3>3. d # <<>> => y \o d # <<>> /\ Last(y \o d) = Last(d)
        BY EndsOfBoth
      <3>. QED  BY <3>1, <3>2, <3>3 DEF EndsInSlash
    <2>4. cleanup_path(Append(x \o d, c)) = IF c = SLASH /\ EndsInSlash(x \o d) THEN cleanup_path(x \o d)
                                           ELSE Append(cleanup_path(x \o d), c)
      BY <2>1, CleanupAppend
    <2>5. cleanup_path(Append(y \o d, c)) = IF c = SLASH /\ EndsInSlash(y \o d) THEN cleanup_path(y \o d)
                                           ELSE Append(cleanup_path(y \o d), c)
      BY <2>2, CleanupAppend
    <2>6. Same(Append(d, c))
      BY <1>2, <2>1, <2>2, <2>3, <2>4, <2>5
    <2>. QED  BY <2>6, Ends
  <1> HIDE DEF T
  <1>3. b \in T
    BY <1>1, <1>2, SeqInduction
  <1> USE DEF T
  <1>. QED  BY <1>3

(* A path that begins and goes on at position i. *)
LEMMA TakenApart ==
    ASSUME NEW p \in Seq(Bytes), NEW i \in 1 .. Len(p)
    PROVE  /\ SubSeq(p, 1, i - 1) \in Seq(Bytes) /\ SubSeq(p, i + 1, Len(p)) \in Seq(Bytes)
           /\ Len(SubSeq(p, 1, i - 1)) = i - 1
           /\ p = Append(SubSeq(p, 1, i - 1), p[i]) \o SubSeq(p, i + 1, Len(p))
           /\ SubSeq(p, i, Len(p)) = <<p[i]>> \o SubSeq(p, i + 1, Len(p))
           /\ SubSeq(p, 1, i) = Append(SubSeq(p, 1, i - 1), p[i])
  <1> DEFINE a == SubSeq(p, 1, i - 1)
             b == SubSeq(p, i + 1, Len(p))
  <1>1. Len(p) \in Nat /\ p[i] \in Bytes /\ \A j \in 1 .. Len(p) : p[j] \in Bytes
    BY ElementOfSeq
  <1>2. a \in Seq(Bytes) /\ b \in Seq(Bytes) /\ Len(a) = i - 1
    BY <1>1, SubSeqProperties
  <1>3. SubSeq(p, i, Len(p)) = <<p[i]>> \o b
    BY <1>1, SubSeqRecursiveFirst
  <1>4. SubSeq(p, 1, i) = a \o <<p[i]>> /\ a \o <<p[i]>> = Append(a, p[i])
    BY <1>1, <1>2, SubSeqRecursiveSecond, AppendIsConcat
  <1>5. SubSeq(p, 1, i) \o b = SubSeq(p, 1, Len(p)) /\ SubSeq(p, 1, Len(p)) = p
    BY <1>1, ConcatAdjacentSubSeq, SubSeqFull
  <1>. QED  BY <1>2, <1>3, <1>4, <1>5

LEMMA CleanupOfSlashTwice ==
    ASSUME NEW p \in Seq(Bytes), NEW i \in DOMAIN p, p[i] = SLASH
    PROVE  /\ \A S \in SUBSET Bytes : p \in Seq(S) => InsertAt(p, i, SLASH) \in Seq(S)
           /\ InsertAt(p, i, SLASH) \in Seq(Bytes)
           /\ cleanup_path(InsertAt(p, i, SLASH)) = cleanup_path(p)
           /\ StartsWithSlash(p) => StartsWithSlash(InsertAt(p, i, SLASH))
           /\ EndsInSlash(p) => EndsInSlash(InsertAt(p, i, SLASH))
  <1> DEFINE a == SubSeq(p, 1, i - 1)
             b == SubSeq(p, i + 1, Len(p))
             x == Append(a, SLASH)
             y == Append(x, SLASH)
  <1>1. i \in 1 .. Len(p) /\ Len(p) \in Nat
    BY LenProperties
  <1>2. a \in Seq(Bytes) /\ b \in Seq(Bytes) /\ p = x \o b /\ SubSeq(p, i, Len(p)) = <<SLASH>> \o b
    BY <1>1, TakenApart
  <1> HIDE DEF a, b
  <1>3. x \in Seq(Bytes) /\ y \in Seq(Bytes) /\ EndsInSlash(x) /\ EndsInSlash(y)
    <2>1. x \in Seq(Bytes) /\ x # <<>> /\ Last(x) = SLASH
      BY <1>2, Ends, SlashIsAByte
    <2> HIDE DEF x
    <2>2. y \in Seq(Bytes) /\ y # <<>> /\ Last(y) = SLASH
      BY <2>1, Ends, SlashIsAByte
    <2>. QED  BY <2>1, <2>2 DEF EndsInSlash
  <1>4. InsertAt(p, i, SLASH) = y \o b
    <2>1. InsertAt(p, i, SLASH) = (a \o <<SLASH>>) \o (<<SLASH>> \o b)
      BY <1>2 DEF InsertAt, a
    <2>2. a \o <<SLASH>> = x /\ y = x \o <<SLASH>> /\ <<SLASH>> \in Seq(Bytes)
      <3>1. x = a \o <<SLASH>>
        BY <1>2, Ends, SlashIsAByte
      <3> HIDE DEF x
      <3>2. y = x \o <<SLASH>>
        BY <1>3, Ends, SlashIsAByte
      <3>3. <<SLASH>> \in Seq(Bytes)
        BY SlashIsAByte
      <3>. QED  BY <3>1, <3>2, <3>3
    <2>3. x \o (<<SLASH>> \o b) = (x \o <<SLASH>>) \o b
      <3> DEFINE c == <<SLASH>>
      <3>1. x \in Text /\ b \in Text /\ c \in Text
        BY <1>2, <1>3, <2>2 DEF Text
      <3> HIDE DEF c, x
      <3>2. (x \o c) \o b = x \o (c \o b)
        BY <3>1, ConcatOfThree
      <3>. QED  BY <3>2 DEF c
    <2>. QED  BY <2>1, <2>2, <2>3
  <1>5. cleanup_path(y) = cleanup_path(x)
    BY <1>3, CleanupAppend, SlashIsAByte
  <1>6. y # <<>> /\ x # <<>> /\ Head(y) = Head(x) /\ Last(x) = SLASH /\ Last(y) = SLASH
    BY <1>2, <1>3, Ends, SlashIsAByte DEF EndsInSlash
  <1>7. StartsWithSlash(x \o b) => StartsWithSlash(y \o b)
    BY <1>2, <1>3, <1>6, EndsOfBoth, Zenon DEF StartsWithSlash
  <1>8. EndsInSlash(x \o b) => EndsInSlash(y \o b)
    <2>1. b = <<>> => x \o b = x /\ y \o b = y
      BY <1>3, ConcatEmptySeq
    <2>2. b # <<>> => Last(y \o b) = Last(b) /\ y \o b # <<>>
      BY <1>2, <1>3, EndsOfBoth
    <2>3. b # <<>> => Last(x \o b) = Last(b)
      BY <1>2, <1>3, EndsOfBoth
    <2>. QED  BY <1>6, <2>1, <2>2, <2>3 DEF EndsInSlash
  <1> HIDE DEF x, y
  <1>9. y \o b \in Seq(Bytes) /\ cleanup_path(y \o b) = cleanup_path(x \o b)
    BY <1>2, <1>3, <1>5, CleanupOfMore, EndsOfBoth
  <1>10. ASSUME NEW S, p \in Seq(S)
         PROVE  InsertAt(p, i, SLASH) \in Seq(S)
    <2>1. \A k \in 1 .. Len(p) : p[k] \in S
      BY <1>10, ElementOfSeq
    <2>2. SLASH \in S
      BY <1>1, <2>1
    <2>3. SubSeq(p, 1, i - 1) \in Seq(S) /\ SubSeq(p, i, Len(p)) \in Seq(S)
      BY <1>1, <2>1, SubSeqProperties
    <2>. QED  BY <2>2, <2>3 DEF InsertAt
  <1>. QED  BY <1>2, <1>4, <1>7, <1>8, <1>9, <1>10
-----------------------------------------------------------------------------
(* Components reads a path byte by byte, too.                              *)
ReadingType == [names : Seq(Text), name : Text]

LEMMA WithByteIs ==
    ASSUME NEW r \in ReadingType, NEW c \in Bytes
    PROVE  /\ WithByte(r, c) \in ReadingType
           /\ c # SLASH => WithByte(r, c) = [names |-> r.names, name |-> Append(r.name, c)]
           /\ c = SLASH => /\ WithByte(r, c).name = <<>>
                           /\ WithByte(r, c).names = IF r.name = <<>> THEN r.names
                                                     ELSE Append(r.names, r.name)
  <1>1. r.names \in Seq(Text) /\ r.name \in Text /\ r = [names |-> r.names, name |-> r.name]
    BY DEF ReadingType
  <1>2. Append(r.name, c) \in Text
    BY <1>1, Ends DEF Text
  <1>3. Append(r.names, r.name) \in Seq(Text) /\ <<>> \in Text
    BY <1>1, AppendProperties, EmptySeq DEF Text
  <1>4. CASE c # SLASH
    <2>1. WithByte(r, c) = [names |-> r.names, name |-> Append(r.name, c)]
      BY <1>1, <1>4 DEF WithByte
    <2>. QED  BY <1>1, <1>2, <1>4, <2>1 DEF ReadingType
  <1>5. CASE c = SLASH
    <2>1. CASE r.name = <<>>
      BY <1>1, <1>5, <2>1 DEF WithByte
    <2>2. CASE r.name # <<>>
      <3>1. WithByte(r, c) = [names |-> Append(r.names, r.name), name |-> <<>>]
        BY <1>5, <2>2 DEF WithByte
      <3>. QED  BY <1>3, <1>5, <2>2, <3>1 DEF ReadingType
    <2>. QED  BY <2>1, <2>2
  <1>. QED  BY <1>4, <1>5

IsReading(f, path) ==
    f = [i \in 0 .. Len(path) |-> IF i = 0 THEN NothingRead ELSE WithByte(f[i - 1], path[i])]
ReadingOf(path) == CHOOSE f : IsReading(f, path)

LEMMA ReadingExists ==
    ASSUME NEW p \in Text
    PROVE  /\ Reading(p) = ReadingOf(p)[Len(p)]
           /\ ReadingOf(p)[0] = NothingRead
           /\ \A i \in 1 .. Len(p) : ReadingOf(p)[i] = WithByte(ReadingOf(p)[i - 1], p[i])
  <1> DEFINE n == Len(p)
             step == [t \in (0 + 1 .. n) \X ReadingType |-> WithByte(t[2], p[t[1]])]
  <1>1. n \in Nat /\ 0 \in Int /\ n \in Int /\ 0 <= n /\ \A i \in 1 .. n : p[i] \in Bytes
    BY LenProperties, ElementOfSeq DEF Text
  <1>2. NothingRead \in ReadingType
    BY EmptySeq DEF NothingRead, ReadingType, Text
  <1>3. ASSUME NEW i \in 0 + 1 .. n, NEW r \in ReadingType
        PROVE  WithByte(r, p[i]) \in ReadingType
    BY <1>1, WithByteIs
  <1>4. step \in [(0 + 1 .. n) \X ReadingType -> ReadingType]
    <2> HIDE DEF n
    <2>. QED  BY <1>3
  <1>5. ASSUME NEW i \in 0 + 1 .. n, NEW r \in ReadingType
        PROVE  step[<<i, r>>] = WithByte(r, p[i])
    OBVIOUS
  <1> HIDE DEF n, step
  <1>6. PICK f : Computes(f, ReadingType, 0, n, NothingRead, step)
    BY <1>1, <1>2, <1>4, RecursionExists
  <1>7. \A i \in 0 .. n : f[i] = IF i = 0 THEN NothingRead ELSE WithByte(f[i - 1], p[i])
    <2> SUFFICES ASSUME NEW i \in 0 .. n
                 PROVE  f[i] = IF i = 0 THEN NothingRead ELSE WithByte(f[i - 1], p[i])
      OBVIOUS
    <2>1. i # 0 => i \in 0 + 1 .. n /\ i - 1 \in 0 .. n
      BY <1>1
    <2>2. i # 0 => f[i] = step[<<i, f[i - 1]>>] /\ f[i - 1] \in ReadingType
      BY <1>6, <2>1 DEF Computes
    <2>. QED  BY <1>5, <1>6, <2>1, <2>2 DEF Computes
  <1>8. f = [i \in 0 .. n |-> f[i]]
    BY <1>6 DEF Computes
  <1>9. IsReading(f, p)
    BY <1>7, <1>8 DEF IsReading, n
  <1>10. IsReading(ReadingOf(p), p)
    BY <1>9 DEF ReadingOf
  <1>11. Reading(p) = ReadingOf(p)[n]
    BY Zenon DEF Reading, ReadingOf, IsReading, n
  <1> DEFINE g == ReadingOf(p)
  <1> HIDE DEF g
  <1>12. g = [i \in 0 .. n |-> IF i = 0 THEN NothingRead ELSE WithByte(g[i - 1], p[i])]
    BY <1>10 DEF IsReading, g, n
  <1>13. 0 \in 0 .. n /\ \A i \in 1 .. n : i \in 0 .. n /\ i # 0
    BY <1>1
  <1>14. g[0] = NothingRead /\ \A i \in 1 .. n : g[i] = WithByte(g[i - 1], p[i])
    BY Zenon, <1>12, <1>13
  <1>. QED  BY <1>11, <1>14 DEF g, n

LEMMA ReadingAppend ==
    ASSUME NEW p \in Text, NEW c \in Bytes
    PROVE  Reading(Append(p, c)) = WithByte(Reading(p), c)
  <1> DEFINE q == Append(p, c)
             n == Len(p)
             f == ReadingOf(p)
             g == ReadingOf(q)
  <1>1. /\ q \in Text /\ Len(q) = n + 1 /\ n \in Nat
        /\ q[n + 1] = c /\ \A i \in 1 .. n : q[i] = p[i]
    BY AppendProperties DEF Text
  <1>2. /\ Reading(p) = f[n] /\ f[0] = NothingRead
        /\ \A i \in 1 .. n : f[i] = WithByte(f[i - 1], p[i])
    BY ReadingExists
  <1> HIDE DEF q, f
  <1>3. /\ Reading(q) = g[n + 1] /\ g[0] = NothingRead
        /\ \A i \in 1 .. n + 1 : g[i] = WithByte(g[i - 1], q[i])
    BY <1>1, ReadingExists
  <1> HIDE DEF n, g
  <1> DEFINE Bad == {i \in 0 .. n : g[i] # f[i]}
  <1>4. Bad = {}
    <2> SUFFICES ASSUME Bad # {}
                 PROVE  FALSE
      OBVIOUS
    <2>1. PICK i \in Bad : \A k \in Bad : i <= k
      <3>1. Bad \subseteq Nat
        BY <1>1
      <3> HIDE DEF Bad
      <3>. QED  BY <3>1, LeastNumber
    <2>2. i \in 0 .. n /\ g[i] # f[i]
      OBVIOUS
    <2>3. i # 0
      BY <1>2, <1>3, <2>2
    <2>4. i - 1 \in 0 .. n /\ ~(i <= i - 1) /\ i \in 1 .. n /\ i \in 1 .. n + 1
      BY <1>1, <2>2, <2>3
    <2>5. g[i - 1] = f[i - 1]
      BY <2>1, <2>4
    <2>. QED  BY <1>1, <1>2, <1>3, <2>2, <2>4, <2>5
  <1>5. n \in 0 .. n /\ n + 1 \in 1 .. n + 1 /\ (n + 1) - 1 = n
    BY <1>1
  <1>6. g[n] = f[n]
    BY <1>4, <1>5
  <1>. QED  BY <1>1, <1>2, <1>3, <1>5, <1>6 DEF q

LEMMA ReadingEmpty ==
    /\ Reading(<<>>) = NothingRead /\ NothingRead \in ReadingType
    /\ NothingRead.names = <<>> /\ NothingRead.name = <<>>
  <1>1. <<>> \in Text /\ Len(<<>>) = 0
    BY EmptySeq DEF Text
  <1>2. Reading(<<>>) = NothingRead
    BY <1>1, ReadingExists
  <1>3. NothingRead \in ReadingType
    BY EmptySeq DEF NothingRead, ReadingType, Text
  <1>. QED  BY <1>2, <1>3 DEF NothingRead

LEMMA ReadingTyped ==
    ASSUME NEW p \in Text
    PROVE  Reading(p) \in ReadingType /\ Components(p) \in Seq(Text)
  <1> DEFINE T == {q \in Text : Reading(q) \in ReadingType}
  <1>1. <<>> \in T
    BY ReadingEmpty, EmptySeq DEF Text
  <1>2. ASSUME NEW q \in Seq(Bytes), NEW c \in Bytes, q \in T
        PROVE  Append(q, c) \in T
    BY <1>2, ReadingAppend, WithByteIs, Ends DEF Text
  <1> HIDE DEF T
  <1>3. p \in T
    BY <1>1, <1>2, SeqInduction DEF Text
  <1> USE DEF T
  <1>4. WithByte(Reading(p), SLASH) \in ReadingType
    BY <1>3, WithByteIs, SlashIsAByte
  <1>. QED  BY <1>3, <1>4 DEF Components, ReadingType

(* After a slash nothing is left of what was before, but whole names.      *)
LEMMA ComponentsInParts ==
    ASSUME NEW a \in Text, NEW b \in Text
    PROVE  Components(Append(a, SLASH) \o b) = Components(a) \o Components(b)
  <1> DEFINE x == Append(a, SLASH)
             C == Components(a)
             Parted(d) == /\ Reading(x \o d).names = C \o Reading(d).names
                          /\ Reading(x \o d).name = Reading(d).name
             T == {d \in Text : Parted(d)}
  <1>1. x \in Text /\ C \in Seq(Text)
    BY Ends, SlashIsAByte, ReadingTyped DEF Text
  <1>2. Reading(x) \in ReadingType /\ Reading(x).names = C /\ Reading(x).name = <<>>
    <2>1. Reading(x) = WithByte(Reading(a), SLASH)
      BY ReadingAppend, SlashIsAByte
    <2>2. Reading(a) \in ReadingType /\ Reading(x) \in ReadingType
      BY <1>1, ReadingTyped
    <2>3. Reading(x).names = C
      BY <2>1 DEF Components
    <2>. QED  BY <2>1, <2>2, <2>3, WithByteIs, SlashIsAByte
  <1> HIDE DEF x, C
  <1>3. <<>> \in T
    <2>1. x \o <<>> = x /\ C \o <<>> = C /\ <<>> \in Text
      BY <1>1, ConcatEmptySeq, EmptySeq DEF Text
    <2>. QED  BY <1>2, <2>1, ReadingEmpty
  <1>4. ASSUME NEW d \in Text, NEW c \in Bytes, Parted(d)
        PROVE  /\ WithByte(Reading(x \o d), c).names = C \o WithByte(Reading(d), c).names
               /\ WithByte(Reading(x \o d), c).name = WithByte(Reading(d), c).name
    <2> DEFINE r == Reading(x \o d)
               s == Reading(d)
    <2>1. r \in ReadingType /\ s \in ReadingType
      <3>1. x \o d \in Text
        BY <1>1, EndsOfBoth DEF Text
      <3>. QED  BY <3>1, ReadingTyped
    <2>2. r.names = C \o s.names /\ r.name = s.name
      BY <1>4
    <2>3. s.names \in Seq(Text) /\ s.name \in Text
      BY <2>1 DEF ReadingType
    <2> HIDE DEF r, s
    <2>4. Append(C \o s.names, s.name) = C \o Append(s.names, s.name)
      <3>1. C \o s.names \in Seq(Text) /\ <<s.name>> \in Seq(Text)
        BY <1>1, <2>3, ConcatProperties
      <3>2. Append(C \o s.names, s.name) = (C \o s.names) \o <<s.name>>
        BY <2>3, <3>1, AppendIsConcat
      <3>3. Append(s.names, s.name) = s.names \o <<s.name>>
        BY <2>3, AppendIsConcat
      <3>4. (C \o s.names) \o <<s.name>> = C \o (s.names \o <<s.name>>)
        <4> DEFINE m == s.names
                   t == <<s.name>>
        <4>1. C \in Seq(Text) /\ m \in Seq(Text) /\ t \in Seq(Text)
          BY <1>1, <2>3, <3>1
        <4> HIDE DEF m, t
        <4>2. (C \o m) \o t = C \o (m \o t)
          BY <4>1, ConcatAssociative
        <4>. QED  BY <4>2 DEF m, t
      <3>. QED  BY <3>2, <3>3, <3>4
    <2>5. CASE c # SLASH
      <3>1. WithByte(r, c) = [names |-> r.names, name |-> Append(r.name, c)]
        BY <2>1, <2>5, WithByteIs
      <3>2. WithByte(s, c) = [names |-> s.names, name |-> Append(s.name, c)]
        BY <2>1, <2>5, WithByteIs
      <3>. QED  BY <2>2, <3>1, <3>2 DEF r, s
    <2>6. CASE c = SLASH
      <3>1. /\ WithByte(r, c).name = <<>>
            /\ WithByte(r, c).names = IF r.name = <<>> THEN r.names ELSE Append(r.names, r.name)
        BY <2>1, <2>6, WithByteIs
      <3>2. /\ WithByte(s, c).name = <<>>
            /\ WithByte(s, c).names = IF s.name = <<>> THEN s.names ELSE Append(s.names, s.name)
        BY <2>1, <2>6, WithByteIs
      <3>. QED  BY <2>2, <2>4, <3>1, <3>2 DEF r, s
    <2>. QED  BY <2>5, <2>6
  <1>5. ASSUME NEW d \in Seq(Bytes), NEW c \in Bytes, d \in T
        PROVE  Append(d, c) \in T
    <2>1. d \in Text /\ Parted(d)
      BY <1>5
    <2>2. Append(d, c) \in Text /\ Reading(Append(d, c)) = WithByte(Reading(d), c)
      BY <2>1, ReadingAppend, Ends DEF Text
    <2>3. x \o Append(d, c) = Append(x \o d, c) /\ x \o d \in Text
      BY <1>1, EndsOfBoth DEF Text
    <2>4. Reading(x \o Append(d, c)) = WithByte(Reading(x \o d), c)
      BY <2>3, ReadingAppend
    <2>. QED  BY <1>4, <2>1, <2>2, <2>4
  <1> HIDE DEF T
  <1>6. b \in T
    BY <1>3, <1>5, SeqInduction DEF Text
  <1> USE DEF T
  <1>7. Parted(b)
    BY <1>6
  <1>. QED  BY <1>4, <1>7, SlashIsAByte DEF Components, x, C

LEMMA ComponentsOfOne ==
    /\ Components(<<>>) = <<>>
    /\ \A name \in Seq(Bytes \ {SLASH}) : name # <<>> => Components(name) = <<name>>
  <1>1. WithByte(NothingRead, SLASH).names = <<>>
    BY ReadingEmpty, WithByteIs, SlashIsAByte
  <1> DEFINE S == Bytes \ {SLASH}
             T == {q \in Seq(S) : Reading(q) = [names |-> <<>>, name |-> q]}
  <1>2. <<>> \in T
    BY ReadingEmpty, EmptySeq DEF NothingRead
  <1>3. ASSUME NEW q \in Seq(S), NEW c \in S, q \in T
        PROVE  Append(q, c) \in T
    <2>1. q \in Seq(Bytes) /\ c \in Bytes /\ c # SLASH /\ Append(q, c) \in Seq(S)
      BY SeqMonotonic, AppendProperties
    <2>2. Reading(Append(q, c)) = WithByte([names |-> <<>>, name |-> q], c)
      BY <1>3, <2>1, ReadingAppend DEF Text
    <2>3. WithByte([names |-> <<>>, name |-> q], c) = [names |-> <<>>, name |-> Append(q, c)]
      BY <2>1 DEF WithByte
    <2>. QED  BY <2>1, <2>2, <2>3
  <1> HIDE DEF T
  <1>4. Seq(S) \subseteq T
    BY <1>2, <1>3, SeqInduction
  <1> USE DEF T
  <1>5. ASSUME NEW name \in Seq(S), name # <<>>
        PROVE  Components(name) = <<name>>
    <2>1. Reading(name) = [names |-> <<>>, name |-> name]
      BY <1>4
    <2>2. WithByte([names |-> <<>>, name |-> name], SLASH).names = Append(<<>>, name)
      BY <1>5 DEF WithByte
    <2>. QED  BY <2>1, <2>2 DEF Components
  <1>. QED  BY <1>1, <1>5, ReadingEmpty DEF Components

(* Cleaning up a path does not change where it leads.                      *)
LEMMA CleanupLeadsThere ==
    ASSUME NEW p \in Text
    PROVE  Components(cleanup_path(p)) = Components(p)
  <1> DEFINE Same(q) == /\ Reading(cleanup_path(q)) = Reading(q)
                        /\ EndsInSlash(q) => Reading(q).name = <<>>
             T == {q \in Text : Same(q)}
  <1>1. <<>> \in T
    BY CleanupEmpty, EmptySeq DEF Text, EndsInSlash
  <1>2. ASSUME NEW q \in Seq(Bytes), NEW c \in Bytes, q \in T
        PROVE  Append(q, c) \in T
    <2> DEFINE r == Reading(q)
    <2>1. q \in Text /\ cleanup_path(q) \in Text /\ r \in ReadingType
      BY PiecesOf, ReadingTyped DEF Text
    <2>2. Reading(cleanup_path(q)) = r /\ (EndsInSlash(q) => r.name = <<>>)
      BY <1>2
    <2>3. /\ Append(q, c) \in Text /\ Reading(Append(q, c)) = WithByte(r, c)
          /\ EndsInSlash(Append(q, c)) <=> c = SLASH
      BY <2>1, ReadingAppend, Ends DEF Text, EndsInSlash
    <2>4. c = SLASH => WithByte(r, c).name = <<>>
      BY <2>1, WithByteIs
    <2>5. CASE c = SLASH /\ EndsInSlash(q)
      <3>1. WithByte(r, c) = r
        BY <2>2, <2>5 DEF WithByte
      <3>2. cleanup_path(Append(q, c)) = cleanup_path(q)
        BY <2>5, CleanupAppend
      <3>. QED  BY <2>2, <2>3, <2>4, <3>1, <3>2
    <2>6. CASE ~(c = SLASH /\ EndsInSlash(q))
      <3>1. cleanup_path(Append(q, c)) = Append(cleanup_path(q), c)
        BY <2>6, CleanupAppend
      <3>2. Reading(Append(cleanup_path(q), c)) = WithByte(r, c)
        BY <2>1, <2>2, ReadingAppend
      <3>. QED  BY <2>3, <2>4, <3>1, <3>2
    <2>. QED  BY <2>5, <2>6
  <1> HIDE DEF T
  <1>3. p \in T
    BY <1>1, <1>2, SeqInduction DEF Text
  <1> USE DEF T
  <1>. QED  BY <1>3 DEF Components
-----------------------------------------------------------------------------
(* Slashes at the beginning and at the end of a path.                      *)
LEMMA FirstThatIsNot ==
    ASSUME NEW q \in Text, NEW i, i = SelectInSeq(q, NotSlash)
    PROVE  /\ i \in 0 .. Len(q)
           /\ i = 0 => \A k \in 1 .. Len(q) : q[k] = SLASH
           /\ i # 0 => q[i] # SLASH /\ \A k \in 1 .. i - 1 : q[k] = SLASH
  <1> DEFINE I == {k \in 1 .. Len(q) : NotSlash(q[k])}
  <1>1. i = IF I # {} THEN Min(I) ELSE 0
    BY DEF SelectInSeq
  <1>2. Len(q) \in Nat
    BY LenProperties DEF Text
  <1>3. ASSUME I # {}
        PROVE  i \in I /\ \A y \in I : i <= y
    <2>1. I \subseteq Nat
      OBVIOUS
    <2> HIDE DEF I
    <2>. QED  BY <1>1, <1>3, <2>1, MinIs
  <1>4. CASE I = {}
    <2>1. i = 0
      BY <1>1, <1>4
    <2>2. \A k \in 1 .. Len(q) : q[k] = SLASH
      BY <1>4 DEF NotSlash
    <2>. QED  BY <1>2, <2>1, <2>2
  <1>5. CASE I # {}
    <2>1. i \in 1 .. Len(q) /\ q[i] # SLASH /\ \A y \in I : i <= y
      BY <1>3, <1>5 DEF NotSlash
    <2>2. ASSUME NEW k \in 1 .. i - 1
          PROVE  q[k] = SLASH
      <3>1. k \in 1 .. Len(q) /\ ~(i <= k)
        BY <1>2, <2>1
      <3>. QED  BY <2>1, <3>1 DEF NotSlash
    <2>. QED  BY <1>2, <2>1, <2>2
  <1>. QED  BY <1>4, <1>5

LEMMA LastThatIsNot ==
    ASSUME NEW q \in Text, NEW i, i = SelectLastInSeq(q, NotSlash)
    PROVE  /\ i \in 0 .. Len(q)
           /\ i # 0 => q[i] # SLASH
           /\ \A k \in i + 1 .. Len(q) : q[k] = SLASH
  <1> DEFINE I == {k \in 1 .. Len(q) : NotSlash(q[k])}
  <1>1. i = IF I # {} THEN Max(I) ELSE 0
    BY DEF SelectLastInSeq
  <1>2. Len(q) \in Nat
    BY LenProperties DEF Text
  <1>3. ASSUME I # {}
        PROVE  i \in I /\ \A y \in I : i >= y
    <2>1. I \subseteq 1 .. Len(q)
      OBVIOUS
    <2> HIDE DEF I
    <2>. QED  BY <1>1, <1>2, <1>3, <2>1, MaxIs
  <1>4. CASE I = {}
    <2>1. i = 0
      BY <1>1, <1>4
    <2>2. \A k \in 1 .. Len(q) : q[k] = SLASH
      BY <1>4 DEF NotSlash
    <2>. QED  BY <1>2, <2>1, <2>2
  <1>5. CASE I # {}
    <2>1. i \in 1 .. Len(q) /\ q[i] # SLASH /\ \A y \in I : i >= y
      BY <1>3, <1>5 DEF NotSlash
    <2>2. ASSUME NEW k \in i + 1 .. Len(q)
          PROVE  q[k] = SLASH
      <3>1. k \in 1 .. Len(q) /\ ~(i >= k)
        BY <1>2, <2>1
      <3>. QED  BY <2>1, <3>1 DEF NotSlash
    <2>. QED  BY <1>2, <2>1, <2>2
  <1>. QED  BY <1>4, <1>5

LEMMA SlashesAreText ==
    ASSUME NEW t \in Seq({SLASH})
    PROVE  t \in Text
  BY SeqMonotonic, SlashIsAByte DEF Text

LEMMA SlashesAreOne ==
    ASSUME NEW t \in Seq({SLASH}), t # <<>>
    PROVE  cleanup_path(t) = <<SLASH>>
  <1> DEFINE T == {q \in Seq({SLASH}) : q # <<>> => cleanup_path(q) = <<SLASH>>}
  <1>1. <<>> \in T
    BY EmptySeq
  <1>2. ASSUME NEW q \in Seq({SLASH}), NEW c \in {SLASH}, q \in T
        PROVE  Append(q, c) \in T
    <2>1. q \in Seq(Bytes) /\ c \in Bytes /\ c = SLASH /\ Append(q, c) \in Seq({SLASH})
      BY SlashesAreText, SlashIsAByte, AppendProperties DEF Text
    <2>2. CASE q = <<>>
      <3>1. ~EndsInSlash(q)
        BY <2>2 DEF EndsInSlash
      <3>2. cleanup_path(Append(q, c)) = Append(<<>>, SLASH)
        BY <2>1, <2>2, <3>1, CleanupAppend, CleanupEmpty
      <3>. QED  BY <2>1, <3>2
    <2>3. CASE q # <<>>
      <3>1. Len(q) \in 1 .. Len(q)
        BY <2>3, EmptySeq, LenProperties
      <3>2. EndsInSlash(q)
        BY <2>3, <3>1, ElementOfSeq DEF EndsInSlash, Last
      <3>. QED  BY <1>2, <2>1, <2>3, <3>2, CleanupAppend
    <2>. QED  BY <2>2, <2>3
  <1> HIDE DEF T
  <1>3. t \in T
    BY <1>1, <1>2, SeqInduction
  <1> USE DEF T
  <1>. QED  BY <1>3

LEMMA SlashesLeadNowhere ==
    ASSUME NEW t \in Seq({SLASH}), NEW b \in Text
    PROVE  Components(t \o b) = Components(b)
  <1> DEFINE T == {q \in Seq({SLASH}) : Components(q \o b) = Components(b)}
  <1>1. <<>> \in T
    BY ConcatEmptySeq, EmptySeq DEF Text
  <1>2. ASSUME NEW q \in Seq({SLASH}), NEW c \in {SLASH}, q \in T
        PROVE  Append(q, c) \in T
    <2>1. q \in Text /\ c = SLASH /\ Append(q, c) \in Seq({SLASH}) /\ <<>> \in Text
      BY SlashesAreText, AppendProperties, EmptySeq DEF Text
    <2>2. Components(Append(q, SLASH) \o b) = Components(q) \o Components(b)
      BY <2>1, ComponentsInParts
    <2>3. CASE q = <<>>
      <3>1. Components(q) = <<>> /\ Components(b) \in Seq(Text)
        BY <2>3, ComponentsOfOne, ReadingTyped
      <3>. QED  BY <2>1, <2>2, <3>1, ConcatEmptySeq
    <2>4. CASE q # <<>>
      <3>1. PICK s \in Seq({SLASH}), d \in {SLASH} : q = Append(s, d)
        BY <2>4, SequenceEmptyOrAppend
      <3>2. s \in Text /\ d = SLASH
        BY <3>1, SlashesAreText
      <3>3. Components(q \o b) = Components(s) \o Components(b)
        BY <3>1, <3>2, ComponentsInParts
      <3>4. Components(q \o <<>>) = Components(s) \o Components(<<>>)
        BY <2>1, <3>1, <3>2, ComponentsInParts
      <3>5. q \o <<>> = q /\ Components(s) \in Seq(Text) /\ Components(s) \o <<>> = Components(s)
        BY <2>1, <3>2, ReadingTyped, ConcatEmptySeq DEF Text
      <3>. QED  BY <1>2, <2>1, <2>2, <3>3, <3>4, <3>5, ComponentsOfOne
    <2>. QED  BY <2>3, <2>4
  <1> HIDE DEF T
  <1>3. t \in T
    BY <1>1, <1>2, SeqInduction
  <1> USE DEF T
  <1>. QED  BY <1>3

LEMMA AfterSlashesIs ==
    ASSUME NEW q \in Text
    PROVE  /\ AfterSlashes(q) \in Text
           /\ ~StartsWithSlash(AfterSlashes(q))
           /\ Components(AfterSlashes(q)) = Components(q)
           /\ Len(AfterSlashes(q)) <= Len(q)
           /\ ~StartsWithSlash(q) => AfterSlashes(q) = q
           /\ StartsWithSlash(q) => Len(AfterSlashes(q)) < Len(q)
  <1> DEFINE i == SelectInSeq(q, NotSlash)
             n == Len(q)
  <1>1. /\ i \in 0 .. n
        /\ i = 0 => \A k \in 1 .. n : q[k] = SLASH
        /\ i # 0 => q[i] # SLASH /\ \A k \in 1 .. i - 1 : q[k] = SLASH
    BY FirstThatIsNot
  <1>2. AfterSlashes(q) = IF i = 0 THEN <<>> ELSE SubSeq(q, i, n)
    BY DEF AfterSlashes
  <1>3. n \in Nat /\ (q = <<>> <=> n = 0) /\ (\A k \in 1 .. n : q[k] \in Bytes)
    BY EmptySeq, LenProperties, ElementOfSeq DEF Text
  <1> HIDE DEF i
  <1>4. CASE i = 0
    <2>1. q \in Seq({SLASH})
      <3>1. SubSeq(q, 1, n) \in Seq({SLASH})
        BY <1>1, <1>3, <1>4, SubSeqProperties
      <3>. QED  BY <3>1, SubSeqFull DEF Text
    <2>2. q \o <<>> = q /\ <<>> \in Text
      BY ConcatEmptySeq, EmptySeq DEF Text
    <2>3. Components(q) = Components(<<>>)
      BY <2>1, <2>2, SlashesLeadNowhere
    <2>4. AfterSlashes(q) = <<>> /\ Len(<<>>) = 0
      BY <1>2, <1>4
    <2>5. ~StartsWithSlash(q) => n = 0
      BY <1>1, <1>3, <1>4 DEF StartsWithSlash
    <2>6. StartsWithSlash(q) => n > 0
      BY <1>3 DEF StartsWithSlash
    <2>. QED  BY <1>3, <2>2, <2>3, <2>4, <2>5, <2>6 DEF StartsWithSlash
  <1>5. CASE i # 0
    <2> DEFINE t == SubSeq(q, 1, i - 1)
               b == SubSeq(q, i, n)
    <2>1. i \in 1 .. n /\ AfterSlashes(q) = b
      BY <1>1, <1>2, <1>5
    <2>2. t \in Seq({SLASH})
      BY <1>1, <1>5, SubSeqProperties
    <2>3. /\ b \in Text /\ Len(b) = n - i + 1
          /\ \A k \in 1 .. n - i + 1 : b[k] = q[i + k - 1]
      BY <1>3, <2>1, SubSeqProperties DEF Text
    <2>4. b[1] = q[i] /\ b # <<>>
      <3>1. 1 \in 1 .. n - i + 1 /\ i + 1 - 1 = i /\ n - i + 1 # 0
        BY <1>3, <2>1
      <3>. QED  BY <2>3, <3>1
    <2>5. q = t \o b
      <3>1. t \o SubSeq(q, (i - 1) + 1, n) = SubSeq(q, 1, n)
        <4>1. 1 \in 1 .. Len(q) + 1 /\ i - 1 \in 1 - 1 .. Len(q) /\ n \in i - 1 .. Len(q)
          BY <1>3, <2>1
        <4>. QED  BY <4>1, ConcatAdjacentSubSeq DEF Text
      <3>2. (i - 1) + 1 = i /\ SubSeq(q, 1, n) = q
        BY <1>3, <2>1, SubSeqFull DEF Text
      <3>. QED  BY <3>1, <3>2
    <2>6. ~StartsWithSlash(b)
      BY <1>1, <1>5, <2>4 DEF StartsWithSlash
    <2>7. StartsWithSlash(q) => i > 1
      BY <1>1, <2>1, <1>5 DEF StartsWithSlash
    <2>8. ~StartsWithSlash(q) => i = 1
      BY <1>1, <1>3, <2>1 DEF StartsWithSlash
    <2>9. i = 1 => b = q
      BY SubSeqFull DEF Text
    <2>10. Components(q) = Components(b)
      BY <2>2, <2>3, <2>5, SlashesLeadNowhere
    <2> HIDE DEF b, t
    <2>. QED  BY <1>3, <2>1, <2>3, <2>6, <2>7, <2>8, <2>9, <2>10
  <1>. QED  BY <1>4, <1>5

(* The path of a directory without the slashes at its end.                 *)
LEMMA WithoutSlashIs ==
    ASSUME NEW q \in Text, EndsInSlash(q)
    PROVE  /\ WithoutSlash(q) \in Text
           /\ cleanup_path(q) = Append(cleanup_path(WithoutSlash(q)), SLASH)
           /\ StartsWithSlash(q) /\ WithoutSlash(q) # <<>> => StartsWithSlash(WithoutSlash(q))
  <1> DEFINE i == SelectLastInSeq(q, NotSlash)
             n == Len(q)
             w == SubSeq(q, 1, i)
             t == SubSeq(q, i + 1, n)
  <1>1. /\ i \in 0 .. n /\ (i # 0 => q[i] # SLASH)
        /\ \A k \in i + 1 .. n : q[k] = SLASH
    BY LastThatIsNot
  <1>2. WithoutSlash(q) = w
    BY DEF WithoutSlash
  <1>3. n \in Nat /\ n # 0 /\ q[n] = SLASH /\ (\A k \in 1 .. n : q[k] \in Bytes)
    BY EmptySeq, LenProperties, ElementOfSeq DEF Text, EndsInSlash, Last
  <1> HIDE DEF i
  <1>4. i + 1 \in 1 .. n
    BY <1>1, <1>3
  <1>5. w \in Seq(Bytes) /\ Len(w) = i /\ \A k \in 1 .. i : w[k] = q[k]
    BY <1>1, <1>3, SubSeqProperties
  <1>6. t \in Seq({SLASH}) /\ Len(t) = n - (i + 1) + 1
    BY <1>1, <1>3, <1>4, SubSeqProperties
  <1>7. t # <<>> /\ t \in Seq(Bytes)
    <2>1. Len(t) # 0
      <3>1. i \in Nat /\ i + 1 <= n
        BY <1>1, <1>3, <1>4
      <3>2. n - (i + 1) + 1 # 0
        BY <1>3, <3>1
      <3> HIDE DEF t, n
      <3>. QED  BY <1>6, <3>2
    <2> HIDE DEF t
    <2>. QED  BY <1>6, <2>1, SlashesAreText DEF Text
  <1>8. q = w \o t
    <2>1. w \o t = SubSeq(q, 1, n)
      <3>1. 1 \in 1 .. Len(q) + 1 /\ i \in 1 - 1 .. Len(q) /\ n \in i .. Len(q)
        BY <1>1, <1>3
      <3>. QED  BY <3>1, ConcatAdjacentSubSeq DEF Text
    <2>. QED  BY <2>1, SubSeqFull DEF Text
  <1>9. ~EndsInSlash(w)
    <2>1. i = 0 => w = <<>>
      BY <1>5, EmptySeq
    <2>. QED  BY <1>1, <1>5, <2>1 DEF EndsInSlash, Last
  <1>10. w # <<>> => Head(q) = Head(w)
    BY <1>5, <1>7, <1>8, EndsOfBoth
  <1> HIDE DEF w, t
  <1>11. cleanup_path(q) = cleanup_path(w) \o <<SLASH>>
    BY <1>5, <1>6, <1>7, <1>8, <1>9, CleanupConcat, SlashesAreOne
  <1>12. cleanup_path(w) \o <<SLASH>> = Append(cleanup_path(w), SLASH)
    <2>1. cleanup_path(w) \in Seq(Bytes)
      BY <1>5, PiecesOf
    <2>. QED  BY <2>1, Ends, SlashIsAByte
  <1>. QED  BY <1>2, <1>5, <1>10, <1>11, <1>12 DEF StartsWithSlash, Text

-----------------------------------------------------------------------------
(* resolve_path: the first path, then the second.                          *)
LEMMA JoinedIs ==
    ASSUME NEW p \in Text, cleanup_path(p) = p, NEW q \in Text
    PROVE  /\ Joined(p, q) \in Text
           /\ cleanup_path(Joined(p, q)) = Joined(p, q)
           /\ Components(Joined(p, q)) = Components(p) \o Components(q)
           /\ StartsWithSlash(q) => Len(Joined(p, q)) <= Len(p) + Len(q)
  <1> DEFINE x == AfterSlashes(q)
  <1>1. Gap(p) = <<>> /\ cleanup_path(p) \o Gap(p) = p
    <2>1. Len(p) - Len(cleanup_path(p)) = 0
      BY LenProperties DEF Text
    <2>2. Gap(p) = <<>>
      BY <2>1 DEF Gap
    <2>. QED  BY <2>2, ConcatEmptySeq DEF Text
  <1>2. /\ x \in Text /\ ~StartsWithSlash(x) /\ Components(x) = Components(q)
        /\ Len(x) <= Len(q)
    BY AfterSlashesIs
  <1> HIDE DEF x
  <1>3. ASSUME NEW a \in Text, NEW b \in Text, cleanup_path(a) = a,
               ~(EndsInSlash(a) /\ StartsWithSlash(b)),
               Components(a \o b) = Components(p) \o Components(q),
               Len(a) + Len(b) <= Len(p) + Len(q) \/ ~StartsWithSlash(q),
               Joined(p, q) = a \o cleanup_path(b)
        PROVE  /\ Joined(p, q) \in Text
               /\ cleanup_path(Joined(p, q)) = Joined(p, q)
               /\ Components(Joined(p, q)) = Components(p) \o Components(q)
               /\ StartsWithSlash(q) => Len(Joined(p, q)) <= Len(p) + Len(q)
    <2>1. cleanup_path(a \o b) = Joined(p, q)
      BY <1>3, CleanupConcat DEF Text
    <2>2. a \o b \in Text
      BY EndsOfBoth DEF Text
    <2>3. cleanup_path(b) \in Text /\ Len(cleanup_path(b)) <= Len(b)
      BY CleanupKeepsEnds DEF Text
    <2>4. Len(Joined(p, q)) = Len(a) + Len(cleanup_path(b))
      BY <1>3, <2>3, ConcatProperties DEF Text
    <2>5. Joined(p, q) \in Text
      BY <2>1, <2>2, PiecesOf DEF Text
    <2>6. cleanup_path(Joined(p, q)) = Joined(p, q)
      BY <2>1, <2>2, CleanupOnce DEF Text
    <2>7. Components(Joined(p, q)) = Components(a \o b)
      BY <2>1, <2>2, CleanupLeadsThere
    <2>8. /\ Len(a) \in Nat /\ Len(b) \in Nat /\ Len(p) \in Nat /\ Len(q) \in Nat
          /\ Len(cleanup_path(b)) \in Nat
      BY <2>3, LenProperties DEF Text
    <2>. QED  BY <1>3, <2>3, <2>4, <2>5, <2>6, <2>7, <2>8
  <1>4. CASE EndsInSlash(p)
    <2>1. PICK s \in Seq(Bytes), c \in Bytes : p = Append(s, c)
      BY <1>4, SequenceEmptyOrAppend DEF EndsInSlash, Text
    <2>2. c = SLASH
      BY <1>4, <2>1, Ends DEF EndsInSlash
    <2>3. Components(p \o x) = Components(s) \o Components(x)
      BY <1>2, <2>1, <2>2, ComponentsInParts DEF Text
    <2>4. Components(p \o <<>>) = Components(s) \o Components(<<>>)
      BY <2>1, <2>2, ComponentsInParts, EmptySeq DEF Text
    <2>5. p \o <<>> = p /\ Components(s) \o <<>> = Components(s)
      <3>1. Components(s) \in Seq(Text)
        BY ReadingTyped DEF Text
      <3>. QED  BY <3>1, ConcatEmptySeq DEF Text
    <2>6. Components(p \o x) = Components(p) \o Components(q)
      BY <1>2, <2>3, <2>4, <2>5, ComponentsOfOne
    <2>7. Joined(p, q) = p \o <<>> \o cleanup_path(x)
      BY <1>1, <1>4 DEF Joined, x
    <2>8. Joined(p, q) = p \o cleanup_path(x)
      BY <2>5, <2>7
    <2>9. Len(p) + Len(x) <= Len(p) + Len(q)
      <3>1. Len(p) \in Nat /\ Len(x) \in Nat /\ Len(q) \in Nat
        BY <1>2, LenProperties DEF Text
      <3>. QED  BY <1>2, <3>1
    <2>. QED  BY <1>2, <1>3, <2>6, <2>8, <2>9
  <1>5. CASE ~EndsInSlash(p) /\ StartsWithSlash(q)
    <2>1. Joined(p, q) = p \o <<>> \o cleanup_path(q)
      BY <1>1, <1>5 DEF Joined
    <2>2. p \o <<>> = p
      BY ConcatEmptySeq DEF Text
    <2> DEFINE y == SubSeq(q, 1 + 1, Len(q))
    <2>3. y \in Text /\ q = Append(<<>>, SLASH) \o y
      <3>1. 1 \in 1 .. Len(q) /\ q[1] = SLASH
        BY <1>5, EmptySeq, LenProperties DEF StartsWithSlash, Text
      <3>2. /\ y \in Seq(Bytes)
            /\ q = Append(SubSeq(q, 1, 1 - 1), q[1]) \o y
        BY <3>1, TakenApart DEF Text
      <3>3. SubSeq(q, 1, 1 - 1) = <<>>
        BY SubSeqEmpty
      <3>. QED  BY <3>1, <3>2, <3>3 DEF Text
    <2> HIDE DEF y
    <2>4. Components(q) = Components(<<>>) \o Components(y)
      BY <2>3, ComponentsInParts, EmptySeq DEF Text
    <2>5. p \o q = Append(p, SLASH) \o y
      <3>1. <<SLASH>> \in Seq(Bytes) /\ Append(<<>>, SLASH) = <<SLASH>> /\ Append(p, SLASH) = p \o <<SLASH>>
        BY Ends, SlashIsAByte DEF Text
      <3>. QED  BY <2>3, <3>1, ConcatAssociative DEF Text
    <2>6. Components(p \o q) = Components(p) \o Components(y)
      BY <2>3, <2>5, ComponentsInParts
    <2>7. Components(y) \in Seq(Text) /\ <<>> \o Components(y) = Components(y)
      BY <2>3, ReadingTyped, ConcatEmptySeq
    <2>8. Len(p) + Len(q) <= Len(p) + Len(q)
      BY LenProperties DEF Text
    <2>. QED  BY <1>3, <1>5, <2>1, <2>2, <2>4, <2>6, <2>7, <2>8, ComponentsOfOne
  <1>6. CASE ~EndsInSlash(p) /\ ~StartsWithSlash(q)
    <2>1. Joined(p, q) = p \o <<SLASH>> \o cleanup_path(q)
      BY <1>1, <1>6 DEF Joined
    <2>2. p \o <<SLASH>> = Append(p, SLASH) /\ Append(p, SLASH) \in Text
      BY Ends, SlashIsAByte DEF Text
    <2>3. cleanup_path(Append(p, SLASH)) = Append(p, SLASH)
      BY <1>6, CleanupAppend, SlashIsAByte DEF Text
    <2>4. Components(Append(p, SLASH) \o q) = Components(p) \o Components(q)
      BY ComponentsInParts
    <2>. QED  BY <1>3, <1>6, <2>1, <2>2, <2>3, <2>4
  <1>. QED  BY <1>4, <1>5, <1>6

(* A path that begins with a slash fits, and leads from where the first    *)
(* one leads to where it leads itself; "/." would be taken for "/".        *)
LEMMA ResolveIs ==
    ASSUME NEW p \in Text, p # <<>>, cleanup_path(p) = p,
           NEW q \in Text, StartsWithSlash(q)
    PROVE  /\ resolve_path(p, q) \in Text
           /\ cleanup_path(resolve_path(p, q)) = resolve_path(p, q)
           /\ Fits(resolve_path(p, q), p, q)
           /\ Components(q) # <<<<DOT>>>> =>
                Components(resolve_path(p, q)) = Components(p) \o Components(q)
  <1>1. Len(p) \in Nat /\ Len(q) \in Nat
    BY LenProperties DEF Text
  <1>2. CASE q \notin StaysAt
    <2>1. resolve_path(p, q) = Joined(p, q) /\ Allocated(p, q) = Len(p) + Len(q) + 1
      BY <1>2 DEF resolve_path, Allocated
    <2>2. Joined(p, q) \in Text /\ Len(Joined(p, q)) <= Len(p) + Len(q)
      BY JoinedIs
    <2>3. Len(Joined(p, q)) \in Nat
      BY <2>2, LenProperties DEF Text
    <2>4. Fits(resolve_path(p, q), p, q)
      BY <1>1, <2>1, <2>2, <2>3 DEF Fits
    <2>5. /\ cleanup_path(Joined(p, q)) = Joined(p, q)
          /\ Components(Joined(p, q)) = Components(p) \o Components(q)
      BY JoinedIs
    <2>. QED  BY <2>1, <2>2, <2>4, <2>5
  <1>3. CASE q \in StaysAt
    <2>1. resolve_path(p, q) = p /\ Allocated(p, q) = Len(p) + 1
      BY <1>3 DEF resolve_path, Allocated
    <2>2. q = <<SLASH>> \/ q = <<SLASH, DOT>>
      BY <1>3 DEF StaysAt, StartsWithSlash, SLASH, DOT
    <2>3. q = <<SLASH>> => Components(q) = <<>>
      <3>1. <<SLASH>> \in Seq({SLASH}) /\ <<>> \in Text
        BY EmptySeq DEF Text
      <3>2. Components(<<SLASH>> \o <<>>) = Components(<<>>)
        BY <3>1, SlashesLeadNowhere
      <3>. QED  BY <3>2, ComponentsOfOne
    <2>4. q = <<SLASH, DOT>> => Components(q) = <<<<DOT>>>>
      <3>1. <<SLASH>> \in Seq({SLASH}) /\ <<DOT>> \in Text
        BY SlashIsAByte DEF Text
      <3>2. Components(<<SLASH>> \o <<DOT>>) = Components(<<DOT>>)
        BY <3>1, SlashesLeadNowhere
      <3>3. <<DOT>> \in Seq(Bytes \ {SLASH}) /\ <<DOT>> # <<>>
        BY SlashIsAByte DEF SLASH, DOT
      <3>4. <<SLASH>> \o <<DOT>> = <<SLASH, DOT>>
        BY SlashIsAByte, TwoBytes
      <3>. QED  BY <3>2, <3>3, <3>4, ComponentsOfOne
    <2>5. Components(p) \o <<>> = Components(p)
      <3>1. Components(p) \in Seq(Text)
        BY ReadingTyped
      <3>. QED  BY <3>1, ConcatEmptySeq
    <2>6. Fits(p, p, q)
      BY <1>1, <2>1 DEF Fits
    <2>. QED  BY <2>1, <2>2, <2>3, <2>4, <2>5, <2>6
  <1>. QED  BY <1>2, <1>3

(* The index file, whose name is no path, is in the directory.             *)
LEMMA IndexResolves ==
    ASSUME NEW p \in Text, cleanup_path(p) = p
    PROVE  Components(resolve_path(p, Index)) = Append(Components(p), Index)
  <1>1. Index \in Seq(Bytes \ {SLASH}) /\ Index # <<>> /\ Index # <<DOT>>
    <2>1. Index \in Seq(Bytes \ {0, SLASH}) /\ Index # <<>> /\ Index # <<DOT>>
      BY NameAssumption
    <2>. QED  BY <2>1, SeqMonotonic
  <1>2. Index \in Text
    BY <1>1, SeqMonotonic DEF Text
  <1>3. \A k \in 1 .. Len(Index) : Index[k] # SLASH
    BY <1>1, ElementOfSeq
  <1>4. Index \notin StaysAt
    <2>1. \A s \in StaysAt : s = <<DOT>> \/ \E k \in 1 .. Len(s) : s[k] = SLASH
      BY DEF StaysAt
    <2>. QED  BY <1>1, <1>3, <2>1
  <1>5. resolve_path(p, Index) = Joined(p, Index)
    BY <1>4 DEF resolve_path
  <1>6. Components(Joined(p, Index)) = Components(p) \o <<Index>>
    BY <1>1, <1>2, JoinedIs, ComponentsOfOne
  <1>7. Components(p) \in Seq(Text)
    BY ReadingTyped
  <1>. QED  BY <1>2, <1>5, <1>6, <1>7, AppendIsConcat

-----------------------------------------------------------------------------
(* decode_url, byte by byte from the end. *)
HexAt(path, i) == /\ path[i] = PERCENT
                  /\ i + 2 <= Len(path)
                  /\ is_hex(path[i + 1])
                  /\ is_hex(path[i + 2])
PercentAt(path, i) == path[i] = PERCENT /\ i < Len(path) /\ path[i + 1] = PERCENT
ByteAt(path, i) == 16 * HexValue(path[i + 1]) + HexValue(path[i + 2])
IsDecoding(f, path) ==
    f = [i \in 1 .. Len(path) + 1 |->
            IF i > Len(path)    THEN <<>>
            ELSE IF PercentAt(path, i) THEN <<PERCENT>> \o f[i + 2]
            ELSE IF HexAt(path, i)     THEN <<ByteAt(path, i)>> \o f[i + 3]
            ELSE <<path[i]>> \o f[i + 1]]
Decoding(path) == CHOOSE f : IsDecoding(f, path)

LEMMA HexIsByte ==
    ASSUME NEW a \in Bytes, NEW b \in Bytes, is_hex(a), is_hex(b)
    PROVE  16 * HexValue(a) + HexValue(b) \in Bytes
  <1>1. ASSUME NEW c \in Bytes, is_hex(c)
        PROVE  HexValue(c) \in 0 .. 15
    <2>1. c \in 48 .. 57 \/ c \in 65 .. 70 \/ c \in 97 .. 102
      BY <1>1 DEF is_hex, is_digit
    <2>2. CASE c \in 48 .. 57
      BY <2>2 DEF HexValue, is_digit
    <2>3. CASE c \in 65 .. 70
      BY <2>3 DEF HexValue, is_digit
    <2>4. CASE c \in 97 .. 102
      BY <2>4 DEF HexValue, is_digit
    <2>. QED  BY <2>1, <2>2, <2>3, <2>4
  <1>2. HexValue(a) \in 0 .. 15 /\ HexValue(b) \in 0 .. 15
    BY <1>1
  <1> DEFINE x == HexValue(a)
             y == HexValue(b)
  <1> HIDE DEF x, y
  <1>3. x \in 0 .. 15 /\ y \in 0 .. 15
    BY <1>2 DEF x, y
  <1>4. 16 * x + y \in Bytes
    BY <1>3 DEF Bytes
  <1>. QED  BY <1>4 DEF x, y

LEMMA DecodingExists ==
    ASSUME NEW p \in Text
    PROVE  /\ Unescaped(p) = Decoding(p)[1]
           /\ IsDecoding(Decoding(p), p)
  <1> DEFINE n == Len(p)
             S == Text \X Text \X Text
             With(i, t) == IF PercentAt(p, i)  THEN <<PERCENT>> \o t[2]
                           ELSE IF HexAt(p, i) THEN <<ByteAt(p, i)>> \o t[3]
                           ELSE <<p[i]>> \o t[1]
             Next3(i, t) == <<With(i, t), t[1], t[2]>>
             step == [kt \in (0 + 1 .. n) \X S |-> Next3(n + 1 - kt[1], kt[2])]
             none == <<<<>>, <<>>, <<>>>>
  <1>1. n \in Nat /\ 0 \in Int /\ n \in Int /\ 0 <= n /\ \A i \in 1 .. n : p[i] \in Bytes
    BY LenProperties, ElementOfSeq DEF Text
  <1>2. none \in S
    BY EmptySeq DEF Text
  <1>3. ASSUME NEW i \in 1 .. n, NEW t \in S
        PROVE  Next3(i, t) \in S
    <2>1. t[1] \in Text /\ t[2] \in Text /\ t[3] \in Text
      OBVIOUS
    <2>2. ASSUME NEW c \in Bytes, NEW s \in Text
          PROVE  <<c>> \o s \in Text
      <3>1. <<c>> \in Seq(Bytes)
        OBVIOUS
      <3>. QED  BY <3>1, EndsOfBoth DEF Text
    <2>3. HexAt(p, i) => ByteAt(p, i) \in Bytes
      <3>1. HexAt(p, i) => i + 1 \in 1 .. n /\ i + 2 \in 1 .. n
        BY <1>1 DEF HexAt
      <3>. QED  BY <1>1, <3>1, HexIsByte DEF HexAt, ByteAt
    <2>4. With(i, t) \in Text
      BY <1>1, <2>1, <2>2, <2>3, SlashIsAByte
    <2> HIDE DEF With
    <2>. QED  BY <2>1, <2>4
  <1>4. step \in [(0 + 1 .. n) \X S -> S]
    <2>1. \A k \in 0 + 1 .. n : n + 1 - k \in 1 .. n
      BY <1>1
    <2> HIDE DEF n, S, Next3
    <2>. QED  BY <1>3, <2>1
  <1>5. ASSUME NEW k \in 0 + 1 .. n, NEW t \in S
        PROVE  step[<<k, t>>] = Next3(n + 1 - k, t)
    OBVIOUS
  <1> HIDE DEF n, step, S, none
  <1>6. PICK g : Computes(g, S, 0, n, none, step)
    BY <1>1, <1>2, <1>4, RecursionExists
  <1>7. g \in [0 .. n -> S] /\ g[0] = none /\ \A k \in 1 .. n : g[k] = Next3(n + 1 - k, g[k - 1])
    <2>1. g \in [0 .. n -> S] /\ g[0] = none /\ \A k \in 0 + 1 .. n : g[k] = step[<<k, g[k - 1]>>]
      BY <1>6 DEF Computes
    <2>2. ASSUME NEW k \in 1 .. n
          PROVE  g[k] = Next3(n + 1 - k, g[k - 1])
      <3> HIDE DEF Next3
      <3>1. k \in 0 + 1 .. n /\ k - 1 \in 0 .. n
        BY <1>1
      <3>2. g[k] = step[<<k, g[k - 1]>>] /\ g[k - 1] \in S
        BY <2>1, <3>1
      <3>. QED  BY <1>5, <3>1, <3>2
    <2>. QED  BY <2>1, <2>2
  <1>8. ASSUME NEW k \in 1 .. n
        PROVE  g[k][1] = With(n + 1 - k, g[k - 1]) /\ g[k][2] = g[k - 1][1] /\ g[k][3] = g[k - 1][2]
    <2> HIDE DEF With
    <2>. QED  BY <1>7
  <1> DEFINE f == [i \in 1 .. n + 1 |-> g[n + 1 - i][1]]
  <1>9. \A i \in 1 .. n + 1 :
            f[i] = IF i > n    THEN <<>>
                   ELSE IF PercentAt(p, i) THEN <<PERCENT>> \o f[i + 2]
                   ELSE IF HexAt(p, i)     THEN <<ByteAt(p, i)>> \o f[i + 3]
                   ELSE <<p[i]>> \o f[i + 1]
    <2> SUFFICES ASSUME NEW i \in 1 .. n + 1
                 PROVE  f[i] = IF i > n    THEN <<>>
                               ELSE IF PercentAt(p, i) THEN <<PERCENT>> \o f[i + 2]
                               ELSE IF HexAt(p, i)     THEN <<ByteAt(p, i)>> \o f[i + 3]
                               ELSE <<p[i]>> \o f[i + 1]
      OBVIOUS
    <2>1. CASE i > n
      <3>1. n + 1 - i = 0 /\ i = n + 1
        BY <1>1, <2>1
      <3>2. f[i] = g[0][1]
        BY <1>1, <3>1
      <3>3. g[0][1] = <<>>
        BY <1>7 DEF none
      <3>. QED  BY <2>1, <3>2, <3>3
    <2>2. CASE ~(i > n)
      <3> DEFINE k == n + 1 - i
      <3>1. k \in 1 .. n /\ n + 1 - k = i
        BY <1>1, <2>2
      <3>2. f[i] = g[k][1]
        BY <1>1
      <3>3. g[k][1] = With(i, g[k - 1])
        BY <1>8, <3>1
      <3>4. g[k - 1][1] = f[i + 1]
        <4>1. n + 1 - (i + 1) = k - 1 /\ i + 1 \in 1 .. n + 1
          BY <1>1, <2>2
        <4>. QED  BY <4>1
      <3>5. PercentAt(p, i) => g[k - 1][2] = f[i + 2]
        <4> SUFFICES ASSUME PercentAt(p, i)
                     PROVE  g[k - 1][2] = f[i + 2]
          OBVIOUS
        <4>1. i < n
          BY DEF PercentAt, n
        <4>2. k - 1 \in 1 .. n /\ n + 1 - (i + 2) = (k - 1) - 1 /\ i + 2 \in 1 .. n + 1
          BY <1>1, <4>1
        <4>3. f[i + 2] = g[(k - 1) - 1][1]
          BY <4>2
        <4> HIDE DEF k, f
        <4>. QED  BY <1>8, <4>2, <4>3
      <3>6. HexAt(p, i) => g[k - 1][3] = f[i + 3]
        <4> SUFFICES ASSUME HexAt(p, i)
                     PROVE  g[k - 1][3] = f[i + 3]
          OBVIOUS
        <4>1. i + 2 <= n
          BY DEF HexAt, n
        <4>2. /\ k - 1 \in 1 .. n /\ (k - 1) - 1 \in 1 .. n
              /\ n + 1 - (i + 3) = ((k - 1) - 1) - 1 /\ i + 3 \in 1 .. n + 1
          BY <1>1, <4>1
        <4>3. f[i + 3] = g[((k - 1) - 1) - 1][1]
          BY <4>2
        <4> HIDE DEF k, f
        <4>4. g[k - 1][3] = g[(k - 1) - 1][2]
          BY <1>8, <4>2
        <4>5. g[(k - 1) - 1][2] = g[((k - 1) - 1) - 1][1]
          BY <1>8, <4>2
        <4>. QED  BY <4>3, <4>4, <4>5
      <3> HIDE DEF k, f
      <3>. QED  BY <2>2, <3>2, <3>3, <3>4, <3>5, <3>6
    <2>. QED  BY <2>1, <2>2
  <1>10. f = [i \in 1 .. n + 1 |-> f[i]]
    OBVIOUS
  <1> HIDE DEF f
  <1>11. f = [i \in 1 .. n + 1 |->
                 IF i > n    THEN <<>>
                 ELSE IF PercentAt(p, i) THEN <<PERCENT>> \o f[i + 2]
                 ELSE IF HexAt(p, i)     THEN <<ByteAt(p, i)>> \o f[i + 3]
                 ELSE <<p[i]>> \o f[i + 1]]
    BY <1>9, <1>10
  <1>12. IsDecoding(f, p)
    BY <1>11, Zenon DEF IsDecoding, n
  <1>13. IsDecoding(Decoding(p), p)
    BY <1>12, Zenon DEF Decoding
  <1>14. Unescaped(p) = Decoding(p)[1]
    BY Zenon DEF Unescaped, Decoding, IsDecoding, PercentAt, HexAt, ByteAt
  <1>. QED  BY <1>13, <1>14

-----------------------------------------------------------------------------
(* Unescaped is that function, and what it makes of the rest of a path does *)
(* not depend on what it has taken.                                        *)
LEMMA DecodingIs ==
    ASSUME NEW p \in Text
    PROVE  /\ Unescaped(p) = Decoding(p)[1]
           /\ Decoding(p)[Len(p) + 1] = <<>>
           /\ \A i \in 1 .. Len(p) :
                 Decoding(p)[i] = IF PercentAt(p, i) THEN <<PERCENT>> \o Decoding(p)[i + 2]
                                  ELSE IF HexAt(p, i) THEN <<ByteAt(p, i)>> \o Decoding(p)[i + 3]
                                  ELSE <<p[i]>> \o Decoding(p)[i + 1]
  <1> DEFINE f == Decoding(p)
             n == Len(p)
  <1>1. n \in Nat
    BY LenProperties DEF Text
  <1>2. Unescaped(p) = f[1] /\ IsDecoding(f, p)
    BY DecodingExists
  <1> HIDE DEF f
  <1>3. f = [i \in 1 .. n + 1 |->
                IF i > n    THEN <<>>
                ELSE IF PercentAt(p, i) THEN <<PERCENT>> \o f[i + 2]
                ELSE IF HexAt(p, i)     THEN <<ByteAt(p, i)>> \o f[i + 3]
                ELSE <<p[i]>> \o f[i + 1]]
    BY <1>2, Zenon DEF IsDecoding
  <1> HIDE DEF n
  <1>4. /\ n + 1 \in 1 .. n + 1 /\ n + 1 > n
        /\ \A i \in 1 .. n : i \in 1 .. n + 1 /\ ~(i > n)
    BY <1>1
  <1>5. f[n + 1] = <<>>
    BY <1>3, <1>4, Zenon
  <1>6. ASSUME NEW i \in 1 .. n
        PROVE  f[i] = IF PercentAt(p, i) THEN <<PERCENT>> \o f[i + 2]
                      ELSE IF HexAt(p, i)     THEN <<ByteAt(p, i)>> \o f[i + 3]
                      ELSE <<p[i]>> \o f[i + 1]
    BY <1>3, <1>4, Zenon
  <1>. QED  BY <1>2, <1>5, <1>6 DEF f, n

(* What follows is decoded the same, whatever comes before. *)
LEMMA DecodingOfTheRest ==
    ASSUME NEW a \in Text, NEW b \in Text
    PROVE  \A i \in 1 .. Len(b) + 1 : Decoding(a \o b)[Len(a) + i] = Decoding(b)[i]
  <1> DEFINE p == a \o b
             m == Len(a)
             n == Len(b)
             f == Decoding(p)
             g == Decoding(b)
  <1>1. p \in Text /\ Len(p) = m + n /\ m \in Nat /\ n \in Nat
    BY ConcatProperties, LenProperties DEF Text
  <1>2. \A i \in 1 .. n : p[m + i] = b[i]
    <2> SUFFICES ASSUME NEW i \in 1 .. n
                 PROVE  p[m + i] = b[i]
      OBVIOUS
    <2>1. m + i \in 1 .. m + n /\ ~(m + i <= m) /\ m + i - m = i
      BY <1>1
    <2>. QED  BY <2>1, ConcatProperties DEF Text
  <1> HIDE DEF p
  <1>3. /\ f[(m + n) + 1] = <<>>
        /\ \A i \in 1 .. m + n :
              f[i] = IF PercentAt(p, i) THEN <<PERCENT>> \o f[i + 2]
                     ELSE IF HexAt(p, i) THEN <<ByteAt(p, i)>> \o f[i + 3]
                     ELSE <<p[i]>> \o f[i + 1]
    BY <1>1, DecodingIs
  <1>4. /\ g[n + 1] = <<>>
        /\ \A i \in 1 .. n :
              g[i] = IF PercentAt(b, i) THEN <<PERCENT>> \o g[i + 2]
                     ELSE IF HexAt(b, i) THEN <<ByteAt(b, i)>> \o g[i + 3]
                     ELSE <<b[i]>> \o g[i + 1]
    BY DecodingIs
  <1>5. ASSUME NEW i \in 1 .. n
        PROVE  /\ PercentAt(p, m + i) <=> PercentAt(b, i)
               /\ HexAt(p, m + i) <=> HexAt(b, i)
               /\ HexAt(b, i) => ByteAt(p, m + i) = ByteAt(b, i)
               /\ p[m + i] = b[i]
               /\ PercentAt(b, i) => i + 2 <= n + 1
               /\ HexAt(b, i) => i + 3 <= n + 1
    <2>1. i < n => i + 1 \in 1 .. n /\ m + (i + 1) = (m + i) + 1
      BY <1>1
    <2>2. i + 2 <= n => i + 2 \in 1 .. n /\ m + (i + 2) = (m + i) + 2 /\ i < n
      BY <1>1
    <2>3. (m + i < m + n <=> i < n) /\ ((m + i) + 2 <= m + n <=> i + 2 <= n)
      BY <1>1
    <2>4. p[m + i] = b[i] /\ (i < n => p[(m + i) + 1] = b[i + 1])
      BY <1>2, <2>1
    <2>5. i + 2 <= n => p[(m + i) + 2] = b[i + 2]
      BY <1>2, <2>2
    <2>6. Len(p) = m + n /\ Len(b) = n
      BY <1>1
    <2>7. PercentAt(p, m + i) <=> PercentAt(b, i)
      BY <2>3, <2>4, <2>6 DEF PercentAt
    <2>8. HexAt(p, m + i) <=> HexAt(b, i)
      BY <2>2, <2>3, <2>4, <2>5, <2>6 DEF HexAt
    <2>9. HexAt(b, i) => ByteAt(p, m + i) = ByteAt(b, i)
      BY <2>2, <2>4, <2>5, <2>6 DEF HexAt, ByteAt
    <2>10. PercentAt(b, i) => i + 2 <= n + 1
      <3>1. PercentAt(b, i) => i < n
        BY DEF PercentAt
      <3>. QED  BY <1>1, <3>1
    <2>11. HexAt(b, i) => i + 3 <= n + 1
      <3>1. HexAt(b, i) => i + 2 <= n
        BY DEF HexAt
      <3>. QED  BY <1>1, <3>1
    <2>. QED  BY <2>4, <2>7, <2>8, <2>9, <2>10, <2>11
  <1> HIDE DEF f, g, m, n
  <1> DEFINE Bad == {k \in 0 .. n : f[m + (n + 1 - k)] # g[n + 1 - k]}
  <1>6. Bad = {}
    <2> SUFFICES ASSUME Bad # {}
                 PROVE  FALSE
      OBVIOUS
    <2>1. PICK k \in Bad : \A l \in Bad : k <= l
      <3>1. Bad \subseteq Nat
        BY <1>1
      <3> HIDE DEF Bad
      <3>. QED  BY <3>1, LeastNumber
    <2> DEFINE i == n + 1 - k
    <2>2. k \in 0 .. n /\ f[m + i] # g[i]
      OBVIOUS
    <2>3. k # 0
      <3>1. k = 0 => i = n + 1 /\ m + i = (m + n) + 1
        BY <1>1
      <3>. QED  BY <1>3, <1>4, <2>2, <3>1
    <2>4. i \in 1 .. n /\ m + i \in 1 .. m + n
      BY <1>1, <2>2, <2>3
    <2>5. ASSUME NEW d \in 1 .. 3, i + d <= n + 1
          PROVE  f[(m + i) + d] = g[i + d]
      <3>1. k - d \in 0 .. n /\ ~(k <= k - d) /\ n + 1 - (k - d) = i + d /\ m + (i + d) = (m + i) + d
        BY <1>1, <2>2, <2>4, <2>5
      <3>2. k - d \notin Bad
        BY <2>1, <3>1
      <3>3. f[m + (n + 1 - (k - d))] = g[n + 1 - (k - d)]
        BY <3>1, <3>2
      <3>. QED  BY <3>1, <3>3
    <2>6. i + 1 <= n + 1 /\ 1 \in 1 .. 3 /\ 2 \in 1 .. 3 /\ 3 \in 1 .. 3
      BY <1>1, <2>4
    <2> HIDE DEF i, Bad
    <2>7. f[(m + i) + 1] = g[i + 1]
      BY <2>5, <2>6
    <2>8. PercentAt(b, i) => f[(m + i) + 2] = g[i + 2]
      BY <1>5, <2>4, <2>5, <2>6
    <2>9. HexAt(b, i) => f[(m + i) + 3] = g[i + 3]
      BY <1>5, <2>4, <2>5, <2>6
    <2>10. f[m + i] = IF PercentAt(p, m + i) THEN <<PERCENT>> \o f[(m + i) + 2]
                      ELSE IF HexAt(p, m + i) THEN <<ByteAt(p, m + i)>> \o f[(m + i) + 3]
                      ELSE <<p[m + i]>> \o f[(m + i) + 1]
      BY <1>3, <2>4
    <2>11. g[i] = IF PercentAt(b, i) THEN <<PERCENT>> \o g[i + 2]
                  ELSE IF HexAt(b, i) THEN <<ByteAt(b, i)>> \o g[i + 3]
                  ELSE <<b[i]>> \o g[i + 1]
      BY <1>4, <2>4
    <2>12. f[m + i] = g[i]
      BY <1>5, <2>4, <2>7, <2>8, <2>9, <2>10, <2>11
    <2>. QED  BY <2>2, <2>12
  <1>7. ASSUME NEW i \in 1 .. n + 1
        PROVE  f[m + i] = g[i]
    <2>1. n + 1 - i \in 0 .. n /\ n + 1 - (n + 1 - i) = i
      BY <1>1
    <2>. QED  BY <1>6, <2>1
  <1>. QED  BY <1>7 DEF f, g, m, n, p

-----------------------------------------------------------------------------
(* Unescaped takes one, two or three bytes, and gives one. *)
LEMMA OneByte ==
    ASSUME NEW c \in Bytes
    PROVE  <<c>> \in Text /\ <<c>> # <<>> /\ Len(<<c>>) = 1 /\ <<c>>[1] = c
  BY DEF Text

(* What is decoded first: that many bytes, to that one.                    *)
Taken(p) == IF PercentAt(p, 1) THEN 2 ELSE IF HexAt(p, 1) THEN 3 ELSE 1
Gives(p) == IF PercentAt(p, 1) THEN PERCENT ELSE IF HexAt(p, 1) THEN ByteAt(p, 1) ELSE p[1]

LEMMA TakenIs ==
    ASSUME NEW p \in Text, p # <<>>
    PROVE  Taken(p) \in 1 .. Len(p) /\ Gives(p) \in Bytes
  <1>1. Len(p) \in Nat /\ Len(p) > 0
    BY EmptySeq, LenProperties DEF Text
  <1>2. \A i \in 1 .. Len(p) : p[i] \in Bytes
    BY ElementOfSeq DEF Text
  <1>3. HexAt(p, 1) => 1 + 1 \in 1 .. Len(p) /\ 1 + 2 \in 1 .. Len(p)
    BY <1>1 DEF HexAt
  <1>4. HexAt(p, 1) => ByteAt(p, 1) \in Bytes
    BY <1>2, <1>3, HexIsByte DEF HexAt, ByteAt
  <1>5. PercentAt(p, 1) => 2 \in 1 .. Len(p)
    BY <1>1 DEF PercentAt
  <1>6. Taken(p) \in 1 .. Len(p)
    BY <1>1, <1>3, <1>5 DEF Taken
  <1>. QED  BY <1>1, <1>2, <1>4, <1>6, SlashIsAByte DEF Gives

LEMMA UnescapedFirst ==
    ASSUME NEW a \in Text, NEW b \in Text, a # <<>>, Len(a) = Taken(a \o b)
    PROVE  Unescaped(a \o b) = <<Gives(a \o b)>> \o Unescaped(b)
  <1> DEFINE p == a \o b
             f == Decoding(p)
  <1>1. p \in Text /\ p # <<>>
    BY EndsOfBoth DEF Text
  <1>2. f[Len(a) + 1] = Decoding(b)[1]
    <2>1. 1 \in 1 .. Len(b) + 1
      BY LenProperties DEF Text
    <2>. QED  BY <2>1, DecodingOfTheRest
  <1>3. Unescaped(b) = Decoding(b)[1]
    BY DecodingIs
  <1> HIDE DEF p, f
  <1>4. 1 \in 1 .. Len(p)
    BY <1>1, EmptySeq, LenProperties DEF Text
  <1>5. /\ Unescaped(p) = f[1]
        /\ f[1] = IF PercentAt(p, 1) THEN <<PERCENT>> \o f[1 + 2]
                  ELSE IF HexAt(p, 1) THEN <<ByteAt(p, 1)>> \o f[1 + 3]
                  ELSE <<p[1]>> \o f[1 + 1]
    BY <1>1, <1>4, DecodingIs DEF f
  <1>6. Len(a) = Taken(p)
    BY DEF p
  <1>7. f[1] = <<Gives(p)>> \o f[Len(a) + 1]
    <2>1. CASE PercentAt(p, 1)
      <3>1. Taken(p) = 2 /\ Gives(p) = PERCENT
        BY <2>1 DEF Taken, Gives
      <3>2. Len(a) + 1 = 1 + 2
        BY <1>6, <3>1
      <3>. QED  BY <1>5, <2>1, <3>1, <3>2
    <2>2. CASE ~PercentAt(p, 1) /\ HexAt(p, 1)
      <3>1. Taken(p) = 3 /\ Gives(p) = ByteAt(p, 1)
        BY <2>2 DEF Taken, Gives
      <3>2. Len(a) + 1 = 1 + 3
        BY <1>6, <3>1
      <3>. QED  BY <1>5, <2>2, <3>1, <3>2
    <2>3. CASE ~PercentAt(p, 1) /\ ~HexAt(p, 1)
      <3>1. Taken(p) = 1 /\ Gives(p) = p[1]
        BY <2>3 DEF Taken, Gives
      <3>2. Len(a) + 1 = 1 + 1
        BY <1>6, <3>1
      <3>. QED  BY <1>5, <2>3, <3>1, <3>2
    <2>. QED  BY <2>1, <2>2, <2>3
  <1>. QED  BY <1>2, <1>3, <1>5, <1>7 DEF p

LEMMA UnescapedEmpty == Unescaped(<<>>) = <<>>
  <1>1. <<>> \in Text /\ Len(<<>>) = 0
    BY EmptySeq DEF Text
  <1>2. Unescaped(<<>>) = Decoding(<<>>)[1] /\ Decoding(<<>>)[Len(<<>>) + 1] = <<>>
    BY <1>1, DecodingIs
  <1>. QED  BY <1>1, <1>2

(* Induction over what is decoded to a byte each. *)
LEMMA DecodingInduction ==
    ASSUME NEW T, <<>> \in T,
           \A a \in Text, b \in Text :
               a # <<>> /\ Len(a) = Taken(a \o b) /\ b \in T => a \o b \in T
    PROVE  Text \subseteq T
  <1> DEFINE Bad == {n \in Nat : \E s \in Text : Len(s) = n /\ s \notin T}
  <1>1. Bad = {}
    <2> SUFFICES ASSUME Bad # {}
                 PROVE  FALSE
      OBVIOUS
    <2>1. PICK n \in Bad : \A k \in Bad : n <= k
      <3>1. Bad \subseteq Nat
        OBVIOUS
      <3> HIDE DEF Bad
      <3>. QED  BY <3>1, LeastNumber
    <2>2. PICK p \in Text : Len(p) = n /\ p \notin T
      OBVIOUS
    <2>3. p # <<>>
      BY <2>2
    <2> DEFINE m == Taken(p)
               a == SubSeq(p, 1, m)
               b == SubSeq(p, m + 1, Len(p))
    <2>4. m \in 1 .. Len(p) /\ Len(p) \in Nat
      BY <2>3, TakenIs, LenProperties DEF Text
    <2> HIDE DEF m
    <2>5. \A i \in 1 .. Len(p) : p[i] \in Bytes
      BY ElementOfSeq DEF Text
    <2>6. a \in Seq(Bytes) /\ Len(a) = m
      BY <2>4, <2>5, SubSeqProperties
    <2>7. b \in Seq(Bytes) /\ Len(b) = Len(p) - m
      <3> DEFINE n1 == Len(p)
                 m1 == m + 1
      <3>1. n1 - m1 + 1 = n1 - m /\ m1 \in Int /\ n1 \in Int /\ (~(m1 <= n1) => n1 - m = 0)
        BY <2>4
      <3>2. \A i \in m1 .. n1 : p[i] \in Bytes
        BY <2>4, <2>5
      <3> HIDE DEF n1, m1
      <3>3. /\ SubSeq(p, m1, n1) \in Seq(Bytes)
            /\ Len(SubSeq(p, m1, n1)) = IF m1 <= n1 THEN n1 - m1 + 1 ELSE 0
        BY <3>1, <3>2, SubSeqProperties
      <3>. QED  BY <3>1, <3>3 DEF n1, m1
    <2>8. a \o b = p
      <3>1. 1 \in 1 .. Len(p) + 1 /\ m \in 1 - 1 .. Len(p) /\ Len(p) \in m .. Len(p)
        BY <2>4
      <3>2. a \o b = SubSeq(p, 1, Len(p))
        BY <3>1, ConcatAdjacentSubSeq DEF Text
      <3>. QED  BY <3>2, SubSeqFull DEF Text
    <2> HIDE DEF a, b
    <2>9. Len(b) \in Nat /\ ~(n <= Len(b))
      BY <2>2, <2>4, <2>7
    <2>10. b \in T
      <3>1. Len(b) \notin Bad
        <4> HIDE DEF Bad
        <4>. QED  BY <2>1, <2>9
      <3>. QED  BY <2>7, <2>9, <3>1 DEF Text
    <2>11. a # <<>>
      <3>1. Len(a) # 0
        BY <2>4, <2>6
      <3>. QED  BY <2>6, <3>1, EmptySeq
    <2>12. Len(a) = Taken(a \o b)
      BY <2>6, <2>8 DEF m
    <2>. QED  BY <2>2, <2>6, <2>7, <2>8, <2>10, <2>11, <2>12 DEF Text
  <1>2. ASSUME NEW s \in Text
        PROVE  s \in T
    <2>1. Len(s) \in Nat /\ Len(s) \notin Bad
      BY <1>1, LenProperties DEF Text
    <2>. QED  BY <2>1
  <1>. QED  BY <1>2

LEMMA UnescapedTyped ==
    ASSUME NEW p \in Text
    PROVE  Unescaped(p) \in Text
  <1> DEFINE T == {q \in Text : Unescaped(q) \in Text}
  <1>1. <<>> \in T
    BY UnescapedEmpty, EmptySeq DEF Text
  <1>2. ASSUME NEW a \in Text, NEW b \in Text, a # <<>>, Len(a) = Taken(a \o b), b \in T
        PROVE  a \o b \in T
    <2>1. a \o b \in Text /\ a \o b # <<>>
      BY <1>2, EndsOfBoth DEF Text
    <2>2. <<Gives(a \o b)>> \in Seq(Bytes)
      BY <2>1, TakenIs, OneByte DEF Text
    <2>3. Unescaped(b) \in Seq(Bytes)
      BY <1>2 DEF Text
    <2>4. Unescaped(a \o b) = <<Gives(a \o b)>> \o Unescaped(b)
      BY <1>2, UnescapedFirst
    <2>. QED  BY <2>1, <2>2, <2>3, <2>4, EndsOfBoth DEF Text
  <1> HIDE DEF T
  <1>3. Text \subseteq T
    BY <1>1, <1>2, DecodingInduction
  <1> USE DEF T
  <1>. QED  BY <1>3

(* A slash ends an encoded byte, or what looks like the beginning of one.  *)
LEMMA TakenBeforeSlash ==
    ASSUME NEW p \in Text, p # <<>>, NEW q \in Text, StartsWithSlash(q)
    PROVE  Taken(p \o q) = Taken(p) /\ Gives(p \o q) = Gives(p)
  <1> DEFINE r == p \o q
             n == Len(p)
  <1>1. n \in Nat /\ n > 0 /\ Len(q) \in Nat /\ Len(q) > 0 /\ q[1] = SLASH
    BY EmptySeq, LenProperties DEF Text, StartsWithSlash
  <1>2. Len(r) = n + Len(q) /\ \A i \in 1 .. n : r[i] = p[i]
    <2>1. \A i \in 1 .. n : i \in 1 .. n + Len(q) /\ i <= n
      BY <1>1
    <2>. QED  BY <2>1, ConcatProperties DEF Text
  <1>3. r[n + 1] = SLASH
    <2>1. n + 1 \in 1 .. n + Len(q) /\ ~(n + 1 <= n) /\ n + 1 - n = 1
      BY <1>1
    <2>2. r[n + 1] = q[n + 1 - n]
      BY <2>1, ConcatProperties DEF Text
    <2>. QED  BY <1>1, <2>1, <2>2
  <1>4. SLASH # PERCENT /\ ~is_hex(SLASH)
    BY DEF SLASH, PERCENT, is_hex, is_digit
  <1> HIDE DEF r
  <1>5. r[1] = p[1]
    BY <1>1, <1>2
  <1> HIDE DEF n
  <1>6. CASE n = 1
    <2>1. r[1 + 1] = SLASH
      BY <1>3, <1>6
    <2>2. ~PercentAt(r, 1) /\ ~HexAt(r, 1)
      BY <1>4, <2>1 DEF PercentAt, HexAt
    <2>3. ~PercentAt(p, 1) /\ ~HexAt(p, 1)
      BY <1>6 DEF PercentAt, HexAt, n
    <2>. QED  BY <1>5, <2>2, <2>3 DEF Taken, Gives, r
  <1>7. CASE n # 1
    <2>1. 1 + 1 \in 1 .. n /\ 1 < n /\ 1 < Len(r)
      BY <1>1, <1>2, <1>7
    <2>2. r[1 + 1] = p[1 + 1]
      BY <1>2, <2>1
    <2>3. PercentAt(r, 1) <=> PercentAt(p, 1)
      BY <1>5, <2>1, <2>2 DEF PercentAt, n
    <2>4. CASE n = 2
      <3>1. r[1 + 2] = SLASH
        BY <1>3, <2>4
      <3>2. ~HexAt(r, 1)
        BY <1>4, <3>1 DEF HexAt
      <3>3. ~HexAt(p, 1)
        BY <2>4 DEF HexAt, n
      <3>. QED  BY <1>5, <2>3, <3>2, <3>3 DEF Taken, Gives, r
    <2>5. CASE n # 2
      <3>1. 1 + 2 \in 1 .. n /\ 1 + 2 <= n /\ 1 + 2 <= Len(r)
        BY <1>1, <1>2, <1>7, <2>5
      <3>2. r[1 + 2] = p[1 + 2]
        BY <1>2, <3>1
      <3>3. HexAt(r, 1) <=> HexAt(p, 1)
        BY <1>5, <2>2, <3>1, <3>2 DEF HexAt, n
      <3>4. ByteAt(r, 1) = ByteAt(p, 1)
        BY <2>2, <3>2 DEF ByteAt
      <3>. QED  BY <1>5, <2>3, <3>3, <3>4 DEF Taken, Gives, r
    <2>. QED  BY <2>4, <2>5
  <1>. QED  BY <1>6, <1>7

LEMMA UnescapedInParts ==
    ASSUME NEW p \in Text, NEW q \in Text, StartsWithSlash(q)
    PROVE  Unescaped(p \o q) = Unescaped(p) \o Unescaped(q)
  <1> DEFINE Parted(s) == Unescaped(s \o q) = Unescaped(s) \o Unescaped(q)
             T == {s \in Text : Parted(s)}
  <1>1. <<>> \in T
    <2>1. <<>> \o q = q /\ <<>> \o Unescaped(q) = Unescaped(q)
      BY UnescapedTyped, ConcatEmptySeq DEF Text
    <2>. QED  BY <2>1, UnescapedEmpty, EmptySeq DEF Text
  <1>2. ASSUME NEW a \in Text, NEW b \in Text, a # <<>>, Len(a) = Taken(a \o b), b \in T
        PROVE  a \o b \in T
    <2> DEFINE s == a \o b
               c == <<Gives(s)>>
    <2>1. s \in Text /\ s # <<>>
      BY <1>2, EndsOfBoth DEF Text
    <2>2. c \in Text
      BY <2>1, TakenIs, OneByte
    <2>3. Taken(s \o q) = Taken(s) /\ Gives(s \o q) = Gives(s)
      BY <2>1, TakenBeforeSlash
    <2>4. s \o q = a \o (b \o q) /\ b \o q \in Text
      <3>1. b \o q \in Text
        BY EndsOfBoth DEF Text
      <3>2. (a \o b) \o q = a \o (b \o q)
        BY ConcatOfThree
      <3>. QED  BY <3>1, <3>2
    <2>5. Unescaped(s) = c \o Unescaped(b)
      BY <1>2, UnescapedFirst
    <2>6. Unescaped(a \o (b \o q)) = <<Gives(a \o (b \o q))>> \o Unescaped(b \o q)
      BY <1>2, <2>3, <2>4, UnescapedFirst
    <2>7. Unescaped(b) \in Text /\ Unescaped(q) \in Text
      BY UnescapedTyped
    <2>8. Unescaped(b \o q) = Unescaped(b) \o Unescaped(q)
      BY <1>2
    <2> HIDE DEF s
    <2>9. Unescaped(s \o q) = c \o (Unescaped(b) \o Unescaped(q))
      BY <2>3, <2>4, <2>6, <2>8
    <2> HIDE DEF c
    <2>10. (c \o Unescaped(b)) \o Unescaped(q) = c \o (Unescaped(b) \o Unescaped(q))
      BY <2>2, <2>7, ConcatOfThree
    <2>. QED  BY <2>1, <2>5, <2>9, <2>10 DEF s
  <1> HIDE DEF T
  <1>3. Text \subseteq T
    BY <1>1, <1>2, DecodingInduction
  <1> USE DEF T
  <1>. QED  BY <1>3

-----------------------------------------------------------------------------
(* A byte that stands for itself, and one that a link writes as three.     *)
AsItIs == {c \in Bytes : ~needs_encoding(c)}
Linked == AsItIs \union {PERCENT}
Valid == {c \in Bytes : is_valid_http_path_char(c)}

LEMMA ByteSets ==
    /\ SLASH \notin Linked /\ 0 \notin Linked /\ PERCENT \notin AsItIs
    /\ Linked \subseteq Valid /\ SLASH \in Valid
    /\ Linked \subseteq Bytes /\ Valid \subseteq Bytes
    /\ \A c \in Bytes : is_hex(c) => c # PERCENT /\ c # SLASH
  BY DEF SLASH, PERCENT, Linked, AsItIs, Valid, Bytes, needs_encoding, is_alpha, is_digit,
         is_hex, is_valid_http_path_char

(* Decoding makes d of e, whatever follows. *)
Decodes(e, d) == \A s \in Text : Unescaped(e \o s) = d \o Unescaped(s)

LEMMA UnescapedOfOther ==
    ASSUME NEW c \in Bytes, c # PERCENT, NEW s \in Text
    PROVE  Unescaped(<<c>> \o s) = <<c>> \o Unescaped(s)
  <1> DEFINE a == <<c>>
  <1>1. a \in Text /\ a # <<>> /\ Len(a) = 1 /\ a[1] = c
    BY OneByte
  <1> HIDE DEF a
  <1>2. a \o s \in Text /\ (a \o s)[1] = c
    <2>1. Len(s) \in Nat /\ Len(a) + Len(s) = 1 + Len(s) /\ 1 \in 1 .. Len(a) + Len(s) /\ 1 <= Len(a)
      BY <1>1, LenProperties DEF Text
    <2>2. a \o s \in Seq(Bytes) /\ (a \o s)[1] = a[1]
      BY <1>1, <2>1, ConcatProperties DEF Text
    <2>. QED  BY <1>1, <2>2 DEF Text
  <1>3. Taken(a \o s) = 1 /\ Gives(a \o s) = c
    BY <1>2 DEF Taken, Gives, PercentAt, HexAt
  <1>4. Unescaped(a \o s) = <<Gives(a \o s)>> \o Unescaped(s)
    BY <1>1, <1>3, UnescapedFirst
  <1>. QED  BY <1>3, <1>4 DEF a

LEMMA HexDigits ==
    ASSUME NEW d \in 0 .. 15
    PROVE  /\ HexDigit(d) \in AsItIs /\ is_hex(HexDigit(d))
           /\ HexValue(HexDigit(d)) = d
  <1>1. CASE d < 10
    <2>1. HexDigit(d) = 48 + d /\ 48 + d \in 48 .. 57
      BY <1>1 DEF HexDigit
    <2>2. HexValue(48 + d) = d
      BY <2>1 DEF HexValue, is_digit
    <2>. QED  BY <2>1, <2>2 DEF AsItIs, Bytes, needs_encoding, is_digit, is_hex
  <1>2. CASE ~(d < 10)
    <2>1. HexDigit(d) = 55 + d /\ 55 + d \in 65 .. 70
      BY <1>2 DEF HexDigit
    <2>2. HexValue(55 + d) = d
      BY <2>1 DEF HexValue, is_digit
    <2>. QED  BY <2>1, <2>2 DEF AsItIs, Bytes, needs_encoding, is_alpha, is_hex
  <1>. QED  BY <1>1, <1>2

LEMMA EncodedIs ==
    ASSUME NEW c \in Bytes
    PROVE  /\ Encoded(c) \in Seq(Linked) /\ Encoded(c) # <<>>
           /\ Decodes(Encoded(c), <<c>>)
  <1>1. CASE ~needs_encoding(c)
    <2>1. Encoded(c) = <<c>> /\ c # PERCENT /\ c \in Linked
      BY <1>1, ByteSets DEF Encoded, AsItIs, Linked
    <2>. QED  BY <2>1, UnescapedOfOther DEF Decodes
  <1>2. CASE needs_encoding(c)
    <2> DEFINE x == c \div 16
               y == c % 16
               h == HexDigit(x)
               l == HexDigit(y)
               a == <<PERCENT, h, l>>
    <2>1. x \in 0 .. 15 /\ y \in 0 .. 15 /\ 16 * x + y = c
      BY DEF Bytes
    <2>2. Encoded(c) = a
      BY <1>2 DEF Encoded
    <2> HIDE DEF x, y
    <2>3. /\ h \in AsItIs /\ l \in AsItIs /\ is_hex(h) /\ is_hex(l)
          /\ HexValue(h) = x /\ HexValue(l) = y
      BY <2>1, HexDigits
    <2> HIDE DEF h, l
    <2>4. h \in Linked /\ l \in Linked /\ PERCENT \in Linked /\ h # PERCENT
      BY <2>3, ByteSets DEF Linked
    <2>5. a \in Seq(Linked) /\ a # <<>> /\ Len(a) = 3 /\ a[1] = PERCENT /\ a[2] = h /\ a[3] = l
      BY <2>4
    <2> HIDE DEF a
    <2>6. a \in Text
      BY <2>5, ByteSets, SeqMonotonic DEF Text
    <2>7. ASSUME NEW s \in Text
          PROVE  Unescaped(a \o s) = <<c>> \o Unescaped(s)
      <3> DEFINE p == a \o s
      <3>1. /\ Len(p) = 3 + Len(s) /\ Len(s) \in Nat
            /\ \A i \in 1 .. 3 : p[i] = a[i]
        <4>1. \A i \in 1 .. 3 : i \in 1 .. 3 + Len(s) /\ i <= 3
          BY LenProperties DEF Text
        <4>2. Len(p) = Len(a) + Len(s) /\ \A i \in 1 .. Len(a) + Len(s) : i <= Len(a) => p[i] = a[i]
          BY <2>6, ConcatProperties DEF Text
        <4>. QED  BY <2>5, <4>1, <4>2, LenProperties DEF Text
      <3> HIDE DEF p
      <3>2. /\ p[1] = PERCENT /\ p[1 + 1] = h /\ p[1 + 2] = l
            /\ 1 + 2 <= Len(p)
        <4>1. 1 \in 1 .. 3 /\ 2 \in 1 .. 3 /\ 3 \in 1 .. 3 /\ 1 + 1 = 2 /\ 1 + 2 = 3
          OBVIOUS
        <4>. QED  BY <2>5, <3>1, <4>1
      <3>3. ~PercentAt(p, 1) /\ HexAt(p, 1)
        BY <2>3, <2>4, <3>2 DEF PercentAt, HexAt
      <3>4. ByteAt(p, 1) = c
        BY <2>1, <2>3, <3>2 DEF ByteAt
      <3>5. Taken(p) = 3 /\ Gives(p) = c
        BY <3>3, <3>4 DEF Taken, Gives
      <3>6. Unescaped(a \o s) = <<Gives(a \o s)>> \o Unescaped(s)
        BY <2>5, <2>6, <3>5, UnescapedFirst DEF p
      <3>. QED  BY <3>5, <3>6 DEF p
    <2>. QED  BY <2>2, <2>5, <2>7 DEF Decodes
  <1>. QED  BY <1>1, <1>2

EncodedBytes(name) == [i \in DOMAIN name |-> Encoded(name[i])]

LEMMA EncodeAppend ==
    /\ buf_encode_url(<<>>) = <<>>
    /\ \A name \in Text, c \in Bytes :
          buf_encode_url(Append(name, c)) = buf_encode_url(name) \o Encoded(c)
  <1>1. ASSUME NEW p \in Text
        PROVE  EncodedBytes(p) \in Seq(Seq(Linked)) /\ Len(EncodedBytes(p)) = Len(p)
    <2>1. DOMAIN p = 1 .. Len(p) /\ Len(p) \in Nat /\ \A i \in 1 .. Len(p) : p[i] \in Bytes
      BY LenProperties, ElementOfSeq DEF Text
    <2>2. \A i \in 1 .. Len(p) : Encoded(p[i]) \in Seq(Linked)
      BY <2>1, EncodedIs
    <2>3. EncodedBytes(p) = [i \in 1 .. Len(p) |-> Encoded(p[i])]
      BY <2>1 DEF EncodedBytes
    <2>. QED  BY <2>1, <2>2, <2>3
  <1>2. buf_encode_url(<<>>) = <<>>
    <2>1. EncodedBytes(<<>>) = <<>>
      BY DEF EncodedBytes
    <2>2. FlattenSeq(<<>>) = <<>>
      BY EmptySeq DEF FlattenSeq
    <2>. QED  BY <2>1, <2>2 DEF buf_encode_url, EncodedBytes
  <1>3. ASSUME NEW p \in Text, NEW c \in Bytes
        PROVE  buf_encode_url(Append(p, c)) = buf_encode_url(p) \o Encoded(c)
    <2> DEFINE q == Append(p, c)
               n == Len(p)
               e == EncodedBytes(p)
               f == EncodedBytes(q)
               x == Encoded(c)
               r == Append(e, x)
    <2>1. /\ q \in Text /\ Len(q) = n + 1 /\ n \in Nat
          /\ q[n + 1] = c /\ \A i \in 1 .. n : q[i] = p[i]
      BY AppendProperties DEF Text
    <2> HIDE DEF q
    <2>2. e \in Seq(Seq(Linked)) /\ Len(e) = n /\ f \in Seq(Seq(Linked)) /\ Len(f) = n + 1
      BY <1>1, <2>1
    <2>3. DOMAIN q = 1 .. n + 1 /\ DOMAIN p = 1 .. n
      BY <2>1, LenProperties DEF Text
    <2>4. (\A i \in 1 .. n + 1 : f[i] = Encoded(q[i])) /\ (\A i \in 1 .. n : e[i] = Encoded(p[i]))
      BY <2>3 DEF EncodedBytes
    <2>5. x \in Seq(Linked)
      BY EncodedIs
    <2> HIDE DEF e, f, x
    <2>6. /\ r \in Seq(Seq(Linked)) /\ Len(r) = n + 1
          /\ r[n + 1] = x /\ \A i \in 1 .. n : r[i] = e[i]
      BY <2>2, <2>5, AppendProperties
    <2> HIDE DEF r
    <2>7. \A i \in 1 .. n + 1 : r[i] = f[i]
      <3> SUFFICES ASSUME NEW i \in 1 .. n + 1
                   PROVE  r[i] = f[i]
        OBVIOUS
      <3>1. CASE i = n + 1
        BY <2>1, <2>4, <2>6, <3>1 DEF x
      <3>2. CASE i # n + 1
        <4>1. i \in 1 .. n
          BY <2>1, <3>2
        <4>. QED  BY <2>1, <2>4, <2>6, <4>1
      <3>. QED  BY <3>1, <3>2
    <2>8. r = f
      BY <2>2, <2>6, <2>7, SeqEqual
    <2>9. FlattenSeq(r) = FlattenSeq(e) \o x
      BY <2>2, <2>5, FlattenAppend DEF r
    <2>. QED  BY <2>8, <2>9, Zenon DEF buf_encode_url, EncodedBytes, e, f, x, q
  <1>. QED  BY <1>2, <1>3

LEMMA DecodedOneMore ==
    ASSUME NEW e, NEW x, NEW d, NEW k,
           e \in Text, x \in Text, d \in Text, k \in Text,
           Decodes(e, d), Decodes(x, k)
    PROVE  Decodes(e \o x, d \o k)
  <1> SUFFICES ASSUME NEW t, t \in Text
               PROVE  Unescaped((e \o x) \o t) = (d \o k) \o Unescaped(t)
    BY DEF Decodes
  <1> DEFINE u == Unescaped(t)
  <1>1. e \in Text /\ x \in Text /\ t \in Text
    OBVIOUS
  <1>2. d \in Text /\ k \in Text /\ u \in Text
    BY UnescapedTyped
  <1>3. x \o t \in Text
    BY EndsOfBoth DEF Text
  <1>4. (e \o x) \o t = e \o (x \o t)
    BY ONLY <1>1, ConcatOfThree
  <1>5. Unescaped(e \o (x \o t)) = d \o (k \o u)
    BY <1>3 DEF Decodes
  <1> HIDE DEF u
  <1>6. (d \o k) \o u = d \o (k \o u)
    BY ONLY <1>2, ConcatOfThree
  <1>. QED  BY <1>4, <1>5, <1>6 DEF u

(* A name in a link is made of characters that a path may have, and is     *)
(* decoded to itself.                                                     *)
LEMMA EncodedName ==
    ASSUME NEW name \in Text
    PROVE  /\ buf_encode_url(name) \in Seq(Linked)
           /\ name # <<>> => buf_encode_url(name) # <<>>
           /\ Decodes(buf_encode_url(name), name)
  <1> DEFINE Good(d) == /\ buf_encode_url(d) \in Seq(Linked)
                        /\ d # <<>> => buf_encode_url(d) # <<>>
                        /\ Decodes(buf_encode_url(d), d)
             T == {d \in Text : Good(d)}
  <1>1. <<>> \in T
    <2>1. <<>> \in Text /\ <<>> \in Seq(Linked)
      BY EmptySeq DEF Text
    <2>2. \A s \in Text : <<>> \o s = s /\ <<>> \o Unescaped(s) = Unescaped(s)
      BY UnescapedTyped, ConcatEmptySeq DEF Text
    <2>. QED  BY <2>1, <2>2, EncodeAppend DEF Decodes
  <1>2. ASSUME NEW d \in Seq(Bytes), NEW c \in Bytes, d \in T
        PROVE  Append(d, c) \in T
    <2> DEFINE e == buf_encode_url(d)
               x == Encoded(c)
               k == <<c>>
    <2>1. buf_encode_url(Append(d, c)) = e \o x
      BY EncodeAppend DEF Text
    <2>2. e \in Seq(Linked) /\ Decodes(e, d)
      BY <1>2
    <2>3. x \in Seq(Linked) /\ x # <<>> /\ Decodes(x, k)
      BY EncodedIs
    <2>4. k \in Text /\ Append(d, c) = d \o k /\ Append(d, c) \in Text
      BY OneByte, Ends DEF Text
    <2> HIDE DEF e, x, k
    <2>5. e \in Text /\ x \in Text
      BY <2>2, <2>3, ByteSets, SeqMonotonic DEF Text
    <2>6. e \o x \in Seq(Linked)
      BY <2>2, <2>3, ConcatProperties
    <2>7. e \o x # <<>>
      BY <2>3, <2>5, EndsOfBoth DEF Text
    <2>8. Decodes(e \o x, Append(d, c))
      <3>1. d \in Text
        BY DEF Text
      <3>2. Decodes(e \o x, d \o k)
        BY <2>2, <2>3, <2>4, <2>5, <3>1, DecodedOneMore
      <3>. QED  BY <2>4, <3>2
    <2>9. Good(Append(d, c))
      BY <2>1, <2>6, <2>7, <2>8
    <2>. QED  BY <2>4, <2>9
  <1> HIDE DEF T
  <1>3. name \in T
    BY <1>1, <1>2, SeqInduction DEF Text
  <1> USE DEF T
  <1>. QED  BY <1>3

(* Text without a '%' is decoded to itself. *)
LEMMA UnescapedOfPlain ==
    ASSUME NEW p \in Seq(Bytes \ {PERCENT})
    PROVE  Unescaped(p) = p
  <1> DEFINE S == Bytes \ {PERCENT}
             T == {d \in Seq(S) : Decodes(d, d)}
  <1>1. <<>> \in T
    <2>1. \A s \in Text : <<>> \o s = s /\ <<>> \o Unescaped(s) = Unescaped(s)
      BY UnescapedTyped, ConcatEmptySeq DEF Text
    <2>. QED  BY <2>1, EmptySeq DEF Decodes
  <1>2. ASSUME NEW d \in Seq(S), NEW c \in S, d \in T
        PROVE  Append(d, c) \in T
    <2> DEFINE k == <<c>>
    <2>1. d \in Text /\ Append(d, c) \in Seq(S)
      BY SeqMonotonic, AppendProperties DEF Text
    <2>2. k \in Text /\ Append(d, c) = d \o k
      BY <2>1, OneByte, Ends DEF Text
    <2>3. Decodes(k, k)
      BY UnescapedOfOther DEF Decodes
    <2> HIDE DEF k
    <2>4. Decodes(d \o k, d \o k)
      BY <1>2, <2>1, <2>2, <2>3, DecodedOneMore
    <2>. QED  BY <2>1, <2>2, <2>4
  <1> HIDE DEF T
  <1>3. p \in T
    BY <1>1, <1>2, SeqInduction
  <1> USE DEF T
  <1>4. p \in Text /\ <<>> \in Text
    BY SeqMonotonic, EmptySeq DEF Text
  <1>5. p \o <<>> = p
    BY <1>4, ConcatEmptySeq DEF Text
  <1>. QED  BY <1>3, <1>4, <1>5, UnescapedEmpty DEF Decodes

-----------------------------------------------------------------------------
(* What decode_url returns.                                                *)
LEMMA FirstNull ==
    ASSUME NEW d \in Text, NEW i, i = SelectInSeq(d, IsNull)
    PROVE  /\ i \in 0 .. Len(d)
           /\ i # 0 => d[i] = 0
           /\ ~Contains(d, 0) => i = 0
  <1> DEFINE I == {k \in 1 .. Len(d) : IsNull(d[k])}
  <1>1. i = IF I # {} THEN Min(I) ELSE 0
    BY DEF SelectInSeq
  <1>2. Len(d) \in Nat
    BY LenProperties DEF Text
  <1>3. CASE I = {}
    BY <1>1, <1>2, <1>3
  <1>4. CASE I # {}
    <2>1. I \subseteq Nat
      OBVIOUS
    <2>2. i \in I
      <3> HIDE DEF I
      <3>. QED  BY <1>1, <1>4, <2>1, MinIs
    <2>3. i \in 1 .. Len(d) /\ d[i] = 0
      BY <2>2 DEF IsNull
    <2>. QED  BY <1>2, <2>3 DEF Contains
  <1>. QED  BY <1>3, <1>4

LEMMA UntilNullIs ==
    ASSUME NEW d \in Text
    PROVE  /\ UntilNull(d) \in Text
           /\ StartsWithSlash(d) => StartsWithSlash(UntilNull(d))
           /\ ~Contains(d, 0) => UntilNull(d) = d
  <1> DEFINE i == SelectInSeq(d, IsNull)
  <1>1. /\ i \in 0 .. Len(d)
        /\ i # 0 => d[i] = 0
        /\ ~Contains(d, 0) => i = 0
    BY FirstNull
  <1>2. UntilNull(d) = IF i = 0 THEN d ELSE SubSeq(d, 1, i - 1)
    BY DEF UntilNull
  <1>3. Len(d) \in Nat /\ \A k \in 1 .. Len(d) : d[k] \in Bytes
    BY LenProperties, ElementOfSeq DEF Text
  <1> HIDE DEF i
  <1>4. CASE i = 0
    BY <1>2, <1>4
  <1>5. CASE i # 0
    <2> DEFINE e == SubSeq(d, 1, i - 1)
    <2>1. i - 1 \in Int /\ 1 \in Int /\ \A k \in 1 .. i - 1 : d[k] \in Bytes
      BY <1>1, <1>3
    <2>2. /\ e \in Text /\ Len(e) = IF 1 <= i - 1 THEN i - 1 - 1 + 1 ELSE 0
          /\ \A k \in 1 .. i - 1 - 1 + 1 : e[k] = d[1 + k - 1]
      BY <2>1, SubSeqProperties DEF Text
    <2>3. ASSUME StartsWithSlash(d)
          PROVE  StartsWithSlash(e)
      <3>1. d[1] = SLASH /\ SLASH # 0
        BY <2>3 DEF StartsWithSlash, SLASH
      <3>2. i # 1
        BY <1>1, <1>5, <3>1
      <3>3. 1 <= i - 1 /\ 1 \in 1 .. i - 1 - 1 + 1 /\ 1 + 1 - 1 = 1
        BY <1>1, <1>5, <3>2
      <3> HIDE DEF e
      <3>4. Len(e) # 0 /\ e[1] = SLASH
        BY <2>2, <3>1, <3>3
      <3>. QED  BY <2>2, <3>4, EmptySeq DEF StartsWithSlash, Text
    <2>. QED  BY <1>1, <1>2, <1>5, <2>2, <2>3
  <1>. QED  BY <1>4, <1>5

LEMMA UnescapedOfSlash ==
    ASSUME NEW s \in Text
    PROVE  Unescaped(<<SLASH>> \o s) = <<SLASH>> \o Unescaped(s)
  <1>1. SLASH # PERCENT
    BY DEF SLASH, PERCENT
  <1>. QED  BY <1>1, SlashIsAByte, UnescapedOfOther

LEMMA UnescapedStarts ==
    ASSUME NEW q \in Text, StartsWithSlash(q)
    PROVE  StartsWithSlash(Unescaped(q))
  <1> DEFINE y == SubSeq(q, 1 + 1, Len(q))
  <1>1. 1 \in 1 .. Len(q) /\ q[1] = SLASH
    BY EmptySeq, LenProperties DEF StartsWithSlash, Text
  <1>2. y \in Seq(Bytes) /\ SubSeq(q, 1, Len(q)) = <<q[1]>> \o y
    BY <1>1, TakenApart DEF Text
  <1>3. q = <<SLASH>> \o y
    BY <1>1, <1>2, SubSeqFull DEF Text
  <1> HIDE DEF y
  <1>4. Unescaped(q) = <<SLASH>> \o Unescaped(y)
    BY <1>2, <1>3, UnescapedOfSlash DEF Text
  <1> DEFINE u == Unescaped(y)
             c == <<SLASH>>
  <1>5. u \in Text /\ c \in Text /\ c # <<>> /\ Len(c) = 1 /\ c[1] = SLASH
    BY <1>2, UnescapedTyped, OneByte, SlashIsAByte DEF Text
  <1> HIDE DEF u, c
  <1>6. c \o u # <<>> /\ Head(c \o u) = Head(c)
    BY <1>5, EndsOfBoth DEF Text
  <1>7. Unescaped(q) = c \o u
    BY <1>4 DEF c, u
  <1>. QED  BY <1>5, <1>6, <1>7 DEF StartsWithSlash

(* After a slash, decoding begins anew. *)
LEMMA UnescapedAfterSlash ==
    ASSUME NEW p \in Text, NEW b \in Text
    PROVE  /\ Unescaped(Append(p, SLASH)) = Append(Unescaped(p), SLASH)
           /\ Unescaped(Append(p, SLASH) \o b) = Unescaped(Append(p, SLASH)) \o Unescaped(b)
  <1> DEFINE c == <<SLASH>>
  <1>1. c \in Text /\ c # <<>> /\ Len(c) = 1 /\ c[1] = SLASH
    BY OneByte, SlashIsAByte
  <1>2. ASSUME NEW s \in Text
        PROVE  /\ c \o s \in Text
               /\ Unescaped(p \o (c \o s)) = Unescaped(p) \o (c \o Unescaped(s))
    <2>1. Unescaped(c \o s) = c \o Unescaped(s)
      BY UnescapedOfSlash
    <2> HIDE DEF c
    <2>2. c \o s \in Text /\ c \o s # <<>> /\ Head(c \o s) = Head(c)
      BY <1>1, EndsOfBoth DEF Text
    <2>3. StartsWithSlash(c \o s)
      BY <1>1, <2>2 DEF StartsWithSlash
    <2>. QED  BY <2>1, <2>2, <2>3, UnescapedInParts
  <1>3. Append(p, SLASH) = p \o c
    BY Ends, SlashIsAByte DEF Text
  <1>4. Append(Unescaped(p), SLASH) = Unescaped(p) \o c
    <2>1. Unescaped(p) \in Seq(Bytes)
      BY UnescapedTyped DEF Text
    <2>. QED  BY <2>1, Ends, SlashIsAByte
  <1> HIDE DEF c
  <1>5. <<>> \in Text /\ c \o <<>> = c
    BY <1>1, ConcatEmptySeq, EmptySeq DEF Text
  <1>6. Unescaped(p \o c) = Unescaped(p) \o c
    BY <1>2, <1>5, UnescapedEmpty
  <1>7. (p \o c) \o b = p \o (c \o b)
    BY <1>1, ConcatOfThree
  <1>8. (Unescaped(p) \o c) \o Unescaped(b) = Unescaped(p) \o (c \o Unescaped(b))
    <2> DEFINE x == Unescaped(p)
               y == Unescaped(b)
    <2>1. x \in Text /\ y \in Text
      BY UnescapedTyped
    <2> HIDE DEF x, y
    <2>2. IsJoined(x, c, y)
      BY <1>1, <2>1, AnyThreeAreJoined
    <2>. QED  BY <2>2 DEF x, y, IsJoined
  <1>9. Unescaped(p \o (c \o b)) = Unescaped(p) \o (c \o Unescaped(b))
    BY <1>2
  <1>. QED  BY <1>3, <1>4, <1>6, <1>7, <1>8, <1>9

(* A name, and what a link writes for it, with a slash after it or none. *)
LEMMA CleanupOfName ==
    ASSUME NEW name \in Seq(Bytes \ {SLASH})
    PROVE  cleanup_path(name) = name /\ ~EndsInSlash(name) /\ ~StartsWithSlash(name)
  <1> DEFINE S == Bytes \ {SLASH}
             T == {d \in Seq(S) : cleanup_path(d) = d /\ ~EndsInSlash(d)}
  <1>1. <<>> \in T
    BY CleanupEmpty, EmptySeq DEF EndsInSlash
  <1>2. ASSUME NEW d \in Seq(S), NEW c \in S, d \in T
        PROVE  Append(d, c) \in T
    <2>1. d \in Seq(Bytes) /\ Append(d, c) \in Seq(S)
      BY SeqMonotonic, AppendProperties
    <2>2. cleanup_path(Append(d, c)) = Append(d, c)
      BY <1>2, <2>1, CleanupAppend
    <2>3. Last(Append(d, c)) = c
      BY <2>1, Ends
    <2>. QED  BY <2>1, <2>2, <2>3 DEF EndsInSlash
  <1> HIDE DEF T
  <1>3. name \in T
    BY <1>1, <1>2, SeqInduction
  <1> USE DEF T
  <1>4. ~StartsWithSlash(name)
    <2>1. name # <<>> => name[1] \in S
      BY ElementOfSeq, EmptySeq, LenProperties
    <2>. QED  BY <2>1 DEF StartsWithSlash
  <1>. QED  BY <1>3, <1>4

Ending(dir) == IF dir THEN <<SLASH>> ELSE <<>>

LEMMA NameAndEnding ==
    ASSUME NEW name \in Seq(Bytes \ {SLASH}), name # <<>>, NEW dir
    PROVE  /\ name \o Ending(dir) \in Text /\ name \o Ending(dir) # <<>>
           /\ ~StartsWithSlash(name \o Ending(dir))
           /\ cleanup_path(name \o Ending(dir)) = name \o Ending(dir)
           /\ Components(name \o Ending(dir)) = <<name>>
           /\ dir => EndsInSlash(name \o Ending(dir))
  <1>1. name \in Text
    BY SeqMonotonic DEF Text
  <1>2. cleanup_path(name) = name /\ ~EndsInSlash(name) /\ ~StartsWithSlash(name)
    BY CleanupOfName
  <1>3. Components(name) = <<name>>
    BY ComponentsOfOne
  <1>4. CASE ~dir
    <2>1. name \o Ending(dir) = name
      BY <1>1, <1>4, ConcatEmptySeq DEF Ending, Text
    <2>. QED  BY <1>1, <1>2, <1>3, <1>4, <2>1
  <1>5. CASE dir
    <2>1. /\ name \o Ending(dir) = Append(name, SLASH)
          /\ Append(name, SLASH) \in Text /\ Append(name, SLASH) # <<>>
          /\ Last(Append(name, SLASH)) = SLASH
          /\ Head(Append(name, SLASH)) = Head(name)
      BY <1>1, <1>5, Ends, SlashIsAByte DEF Ending, Text
    <2>2. cleanup_path(Append(name, SLASH)) = Append(name, SLASH)
      BY <1>1, <1>2, CleanupAppend, SlashIsAByte DEF Text
    <2>3. Components(Append(name, SLASH)) = <<name>>
      <3>1. Append(name, SLASH) \o <<>> = Append(name, SLASH) /\ <<>> \in Text
        BY <2>1, ConcatEmptySeq, EmptySeq DEF Text
      <3>2. Components(Append(name, SLASH) \o <<>>) = Components(name) \o Components(<<>>)
        BY <1>1, <3>1, ComponentsInParts
      <3>3. <<name>> \o <<>> = <<name>>
        BY <1>1, ConcatEmptySeq
      <3>. QED  BY <1>3, <3>1, <3>2, <3>3, ComponentsOfOne
    <2>. QED  BY <1>2, <2>1, <2>2, <2>3 DEF StartsWithSlash, EndsInSlash
  <1>. QED  BY <1>4, <1>5

-----------------------------------------------------------------------------
(* The inductive invariant.  That links lead where they should is not      *)
(* inductive: it says where the path leads, and not what is added to it    *)
(* when the client goes on.  Found says what the path is decoded to: the   *)
(* names from the served directory, without a null or two slashes in a     *)
(* row; and if they need no encoding, nothing that a second decoding would *)
(* change, for that is what a redirect comes to.                           *)
TypeInv == /\ serve_path \in ServePaths
           /\ at \in Seq(Names)
           /\ is_dir \in BOOLEAN
           /\ url \in Text
           /\ redirected \in BOOLEAN

Shaped == /\ StartsWithSlash(url)
          /\ is_dir => EndsInSlash(url)
          /\ at # <<>> => cleanup_path(url) # <<SLASH>>

AllPlain(place) == \A i \in DOMAIN place : Plain(place[i])
Good == ~redirected \/ AllPlain(at)
Meant == Unescaped(cleanup_path(url))

Found == Good => /\ url \in Seq(Valid)
                 /\ Meant \in Seq(Bytes \ {0})
                 /\ cleanup_path(Meant) = Meant
                 /\ Components(Meant) = at
                 /\ AllPlain(at) => Meant \in Seq(AsItIs \union {SLASH})

BrowseInv == TypeInv /\ Shaped /\ Found

LEMMA NamesAre ==
    ASSUME NEW name \in Names
    PROVE  /\ name \in Seq(Bytes \ {0, SLASH}) /\ name \in Seq(Bytes \ {SLASH}) /\ name \in Text
           /\ name # <<>> /\ name # <<DOT>>
  <1>1. name \in Seq(Bytes \ {0, SLASH}) /\ name # <<>> /\ name # <<DOT>>
    BY NameAssumption
  <1>. QED  BY <1>1, SeqMonotonic DEF Text

LEMMA AfterTheSlash ==
    ASSUME NEW p \in Text, EndsInSlash(p), NEW b \in Text
    PROVE  /\ EndsInSlash(Unescaped(p))
           /\ Unescaped(p \o b) = Unescaped(p) \o Unescaped(b)
           /\ Components(p \o b) = Components(p) \o Components(b)
  <1>1. PICK x \in Seq(Bytes), c \in Bytes : p = Append(x, c)
    BY SequenceEmptyOrAppend DEF EndsInSlash, Text
  <1>2. p = Append(x, SLASH) /\ x \in Text
    BY <1>1, Ends DEF EndsInSlash, Text
  <1>3. /\ Unescaped(p) = Append(Unescaped(x), SLASH)
        /\ Unescaped(p \o b) = Unescaped(p) \o Unescaped(b)
    BY <1>2, UnescapedAfterSlash
  <1>4. EndsInSlash(Append(Unescaped(x), SLASH))
    <2>1. Unescaped(x) \in Seq(Bytes)
      BY <1>2, UnescapedTyped DEF Text
    <2>. QED  BY <2>1, Ends, SlashIsAByte DEF EndsInSlash
  <1>5. Components(p \o b) = Components(x) \o Components(b)
    BY <1>2, ComponentsInParts
  <1>6. Components(p \o <<>>) = Components(x) \o Components(<<>>) /\ p \o <<>> = p
    BY <1>2, ComponentsInParts, ConcatEmptySeq, EmptySeq DEF Text
  <1>7. Components(x) \o <<>> = Components(x)
    <2>1. Components(x) \in Seq(Text)
      BY <1>2, ReadingTyped
    <2>. QED  BY <2>1, ConcatEmptySeq
  <1>. QED  BY <1>3, <1>4, <1>5, <1>6, <1>7, ComponentsOfOne

LEMMA EndingIs ==
    ASSUME NEW S, SLASH \in S, NEW dir
    PROVE  Ending(dir) \in Seq(S)
  <1>1. <<SLASH>> \in Seq(S) /\ <<>> \in Seq(S)
    BY EmptySeq
  <1>2. Ending(dir) = <<SLASH>> \/ Ending(dir) = <<>>
    BY DEF Ending
  <1>. QED  BY <1>1, <1>2

(* A link, and what it is decoded to. *)
LEMMA LinkIs ==
    ASSUME NEW name \in Names, NEW dir \in BOOLEAN
    PROVE  /\ Link(name, dir) \in Seq(Valid) /\ Link(name, dir) \in Text
           /\ Link(name, dir) # <<>> /\ ~StartsWithSlash(Link(name, dir))
           /\ cleanup_path(Link(name, dir)) = Link(name, dir)
           /\ dir => EndsInSlash(Link(name, dir))
           /\ Unescaped(Link(name, dir)) = name \o Ending(dir)
  <1> DEFINE e == buf_encode_url(name)
             x == Ending(dir)
  <1>1. name \in Text /\ name # <<>>
    BY NamesAre
  <1>2. e \in Seq(Linked) /\ e # <<>> /\ Decodes(e, name)
    BY <1>1, EncodedName
  <1>3. Link(name, dir) = e \o x
    BY DEF Link, Ending
  <1>4. x = <<>> \/ x = <<SLASH>>
    BY DEF Ending
  <1> HIDE DEF e
  <1>5. e \in Seq(Bytes \ {SLASH}) /\ e \in Seq(Valid)
    BY <1>2, ByteSets, SeqMonotonic
  <1>6. x \in Seq(Valid) /\ x \in Text
    BY ByteSets, SlashIsAByte, EndingIs DEF Text
  <1>7. e \o x \in Seq(Valid)
    BY <1>5, <1>6, ConcatProperties
  <1>8. Unescaped(x) = x
    <2>1. <<SLASH>> \o <<>> = <<SLASH>> /\ <<>> \in Text
      BY OneByte, SlashIsAByte, ConcatEmptySeq, EmptySeq DEF Text
    <2>2. Unescaped(<<SLASH>> \o <<>>) = <<SLASH>> \o Unescaped(<<>>)
      BY <2>1, UnescapedOfSlash
    <2>. QED  BY <1>4, <2>1, <2>2, UnescapedEmpty
  <1>9. Unescaped(e \o x) = name \o x
    BY <1>2, <1>6, <1>8 DEF Decodes
  <1>10. /\ e \o x \in Text /\ e \o x # <<>> /\ ~StartsWithSlash(e \o x)
         /\ cleanup_path(e \o x) = e \o x /\ (dir => EndsInSlash(e \o x))
    BY <1>2, <1>5, NameAndEnding
  <1>. QED  BY <1>3, <1>7, <1>9, <1>10

(* The served directory itself, and a link followed from a directory. *)
LEMMA InitOk ==
    ASSUME Init
    PROVE  BrowseInv
  <1> DEFINE c == <<SLASH>>
  <1>1. c \in Text /\ c # <<>> /\ Len(c) = 1 /\ c[1] = SLASH /\ <<>> \in Text
    BY OneByte, SlashIsAByte, EmptySeq DEF Text
  <1>2. c \in Seq(Valid) /\ c \in Seq(Bytes \ {0}) /\ c \in Seq(AsItIs \union {SLASH}) /\ c \in Seq({SLASH})
    BY ByteSets, SlashIsAByte DEF SLASH
  <1> HIDE DEF c
  <1>3. c \o <<>> = c
    BY <1>1, ConcatEmptySeq DEF Text
  <1>4. cleanup_path(c) = c
    BY <1>1, <1>2, SlashesAreOne DEF c
  <1>5. Unescaped(c) = c
    <2>1. Unescaped(<<SLASH>> \o <<>>) = <<SLASH>> \o Unescaped(<<>>)
      BY <1>1, UnescapedOfSlash
    <2>. QED  BY <1>3, <2>1, UnescapedEmpty DEF c
  <1>6. Components(c) = <<>>
    <2>1. Components(c \o <<>>) = Components(<<>>)
      BY <1>1, <1>2, SlashesLeadNowhere
    <2>. QED  BY <1>3, <2>1, ComponentsOfOne
  <1>7. serve_path \in ServePaths /\ at = <<>> /\ is_dir = TRUE /\ url = c /\ redirected = FALSE
    BY DEF Init, c
  <1>8. TypeInv
    BY <1>1, <1>7, EmptySeq DEF TypeInv
  <1>9. Shaped
    BY <1>1, <1>7 DEF Shaped, StartsWithSlash, EndsInSlash, Last
  <1>10. Found
    BY <1>2, <1>4, <1>5, <1>6, <1>7 DEF Found, Meant
  <1>. QED  BY <1>8, <1>9, <1>10 DEF BrowseInv

LEMMA FollowOk ==
    ASSUME BrowseInv, NEW name \in Names, NEW dir \in BOOLEAN, Follow(name, dir)
    PROVE  BrowseInv'
  <1> DEFINE l == Link(name, dir)
             m == name \o Ending(dir)
             c == cleanup_path(url)
             d == Unescaped(c)
  <1>1. /\ url \in Text /\ StartsWithSlash(url) /\ EndsInSlash(url) /\ url # <<>>
        /\ serve_path \in ServePaths /\ at \in Seq(Names)
    BY DEF BrowseInv, TypeInv, Shaped, Follow, StartsWithSlash
  <1>2. /\ l \in Seq(Valid) /\ l \in Text /\ l # <<>> /\ ~StartsWithSlash(l)
        /\ cleanup_path(l) = l /\ (dir => EndsInSlash(l)) /\ Unescaped(l) = m
    BY LinkIs
  <1>3. /\ at' = Append(at, name) /\ is_dir' = dir /\ url' = url \o l
        /\ serve_path' = serve_path /\ redirected' = redirected
    BY DEF Follow
  <1>4. /\ m \in Text /\ ~StartsWithSlash(m) /\ cleanup_path(m) = m
        /\ Components(m) = <<name>>
    BY NamesAre, NameAndEnding
  <1> HIDE DEF l, m
  <1>5. /\ url \o l \in Text /\ Last(url \o l) = Last(l) /\ url \o l # <<>>
        /\ Head(url \o l) = Head(url)
    BY <1>1, <1>2, EndsOfBoth DEF Text
  <1>6. cleanup_path(url \o l) = c \o l
    BY <1>1, <1>2, CleanupConcat DEF Text
  <1>7. c \in Text /\ EndsInSlash(c)
    BY <1>1, CleanupKeepsEnds DEF Text
  <1> HIDE DEF c
  <1>8. Meant' = d \o m
    <2>1. Meant' = Unescaped(c \o l)
      BY <1>3, <1>6 DEF Meant
    <2>. QED  BY <1>2, <1>7, <2>1, AfterTheSlash
  <1>9. d \in Text /\ EndsInSlash(d) /\ d = Meant
    BY <1>2, <1>7, AfterTheSlash, UnescapedTyped DEF Meant, c
  <1> HIDE DEF d
  <1>10. TypeInv'
    <2>1. Append(at, name) \in Seq(Names)
      BY <1>1, AppendProperties
    <2>. QED  BY <1>1, <1>3, <1>5, <2>1 DEF BrowseInv, TypeInv
  <1>11. Shaped'
    <2>1. c \o l # <<SLASH>>
      <3>1. Len(c \o l) = Len(c) + Len(l) /\ Len(c) \in Nat /\ Len(l) \in Nat
        BY <1>2, <1>7, ConcatProperties, LenProperties DEF Text
      <3>2. Len(c) # 0 /\ Len(l) # 0
        BY <1>2, <1>7, EmptySeq DEF Text, EndsInSlash
      <3>3. Len(<<SLASH>>) = 1
        OBVIOUS
      <3>. QED  BY <3>1, <3>2, <3>3
    <2>2. StartsWithSlash(url \o l)
      BY <1>1, <1>5 DEF StartsWithSlash
    <2>3. dir => EndsInSlash(url \o l)
      BY <1>2, <1>5 DEF EndsInSlash
    <2>. QED  BY <1>3, <1>6, <2>1, <2>2, <2>3 DEF Shaped
  <1>12. ASSUME Good'
         PROVE  /\ (url \in Seq(Valid))'
                /\ (Meant \in Seq(Bytes \ {0}))'
                /\ (cleanup_path(Meant) = Meant)'
                /\ (Components(Meant) = at)'
                /\ (AllPlain(at) => Meant \in Seq(AsItIs \union {SLASH}))'
    <2>1. Append(at, name) \in Seq(Names) /\ \A i \in DOMAIN at : i \in DOMAIN Append(at, name) /\ Append(at, name)[i] = at[i]
      <3>1. /\ Append(at, name) \in Seq(Names) /\ Len(Append(at, name)) = Len(at) + 1
            /\ \A i \in 1 .. Len(at) : Append(at, name)[i] = at[i]
        BY <1>1, AppendProperties
      <3>2. DOMAIN at = 1 .. Len(at) /\ DOMAIN Append(at, name) = 1 .. Len(at) + 1 /\ Len(at) \in Nat
        BY <1>1, <3>1, LenProperties
      <3>. QED  BY <3>1, <3>2
    <2>2. AllPlain(at') => AllPlain(at)
      BY <1>3, <2>1 DEF AllPlain
    <2>3. Good
      BY <1>3, <1>12, <2>2 DEF Good
    <2>4. /\ url \in Seq(Valid) /\ d \in Seq(Bytes \ {0}) /\ cleanup_path(d) = d
          /\ Components(d) = at /\ (AllPlain(at) => d \in Seq(AsItIs \union {SLASH}))
      BY <1>9, <2>3 DEF BrowseInv, Found
    <2>5. url \o l \in Seq(Valid)
      BY <1>2, <2>4, ConcatProperties
    <2>6. d \o m \in Seq(Bytes \ {0})
      <3>1. m \in Seq(Bytes \ {0})
        <4>1. name \in Seq(Bytes \ {0})
          BY NamesAre, SeqMonotonic
        <4>2. Ending(dir) \in Seq(Bytes \ {0})
          <5>1. SLASH \in Bytes \ {0}
            BY SlashIsAByte DEF SLASH
          <5>. QED  BY <5>1, EndingIs
        <4>. QED  BY <4>1, <4>2, ConcatProperties DEF m
      <3>. QED  BY <2>4, <3>1, ConcatProperties
    <2>7. cleanup_path(d \o m) = d \o m
      BY <1>4, <1>9, <2>4, CleanupConcat DEF Text
    <2>8. Components(d \o m) = Append(at, name)
      <3>1. Components(d \o m) = Components(d) \o Components(m)
        BY <1>4, <1>9, AfterTheSlash
      <3>2. at \o <<name>> = Append(at, name)
        BY <1>1, AppendIsConcat
      <3>. QED  BY <1>4, <2>4, <3>1, <3>2
    <2>9. ASSUME AllPlain(at')
          PROVE  d \o m \in Seq(AsItIs \union {SLASH})
      <3>1. name \in Seq(AsItIs)
        <4>1. Len(at) + 1 \in DOMAIN at' /\ at'[Len(at) + 1] = name
          <5>1. /\ Append(at, name) \in Seq(Names) /\ Len(Append(at, name)) = Len(at) + 1
                /\ Append(at, name)[Len(at) + 1] = name
            BY <1>1, AppendProperties
          <5>2. DOMAIN Append(at, name) = 1 .. Len(at) + 1 /\ Len(at) \in Nat
            BY <1>1, <5>1, LenProperties
          <5>. QED  BY <1>3, <5>1, <5>2
        <4>2. Plain(name)
          BY <2>9, <4>1 DEF AllPlain
        <4>3. name \in Seq(Bytes) /\ DOMAIN name = 1 .. Len(name) /\ \A i \in 1 .. Len(name) : name[i] \in Bytes
          BY NamesAre, LenProperties, ElementOfSeq DEF Text
        <4>4. \A i \in 1 .. Len(name) : name[i] \in AsItIs
          BY <4>2, <4>3 DEF Plain, AsItIs
        <4>5. SubSeq(name, 1, Len(name)) \in Seq(AsItIs)
          <5>1. Len(name) \in Int
            BY <4>3, LenProperties
          <5>. QED  BY <4>4, <5>1, SubSeqProperties
        <4>. QED  BY <4>3, <4>5, SubSeqFull
      <3>2. name \in Seq(AsItIs \union {SLASH})
        BY <3>1, SeqMonotonic
      <3>3. Ending(dir) \in Seq(AsItIs \union {SLASH})
        <4>1. SLASH \in AsItIs \union {SLASH}
          OBVIOUS
        <4>. QED  BY <4>1, EndingIs
      <3>4. m \in Seq(AsItIs \union {SLASH})
        BY <3>2, <3>3, ConcatProperties DEF m
      <3>5. d \in Seq(AsItIs \union {SLASH})
        BY <2>2, <2>4, <2>9
      <3>. QED  BY <3>4, <3>5, ConcatProperties
    <2>. QED  BY <1>3, <1>8, <2>5, <2>6, <2>7, <2>8, <2>9
  <1>13. Found'
    BY <1>12 DEF Found
  <1>. QED  BY <1>10, <1>11, <1>13 DEF BrowseInv

-----------------------------------------------------------------------------
(* A slash written twice is squeezed, and changes nothing. *)
LEMMA WriteSlashOk ==
    ASSUME BrowseInv, NEW i \in DOMAIN url, WriteSlash(i)
    PROVE  BrowseInv'
  <1> DEFINE u == InsertAt(url, i, SLASH)
  <1>1. url \in Text /\ url[i] = SLASH /\ StartsWithSlash(url)
    BY DEF BrowseInv, TypeInv, Shaped, WriteSlash
  <1>2. /\ url' = u /\ serve_path' = serve_path /\ at' = at /\ is_dir' = is_dir
        /\ redirected' = redirected
    BY DEF WriteSlash
  <1>3. /\ u \in Text /\ cleanup_path(u) = cleanup_path(url) /\ StartsWithSlash(u)
        /\ EndsInSlash(url) => EndsInSlash(u)
        /\ url \in Seq(Valid) => u \in Seq(Valid)
    <2>1. /\ \A S \in SUBSET Bytes : url \in Seq(S) => u \in Seq(S)
          /\ u \in Seq(Bytes)
          /\ cleanup_path(u) = cleanup_path(url)
          /\ StartsWithSlash(url) => StartsWithSlash(u)
          /\ EndsInSlash(url) => EndsInSlash(u)
      BY <1>1, CleanupOfSlashTwice DEF Text
    <2>2. Valid \in SUBSET Bytes
      BY ByteSets
    <2> HIDE DEF u
    <2>. QED  BY <1>1, <2>1, <2>2 DEF Text
  <1> HIDE DEF u
  <1>4. Meant' = Meant
    BY <1>2, <1>3 DEF Meant
  <1>5. Good' <=> Good
    BY <1>2 DEF Good, AllPlain
  <1>6. TypeInv'
    BY <1>2, <1>3 DEF BrowseInv, TypeInv
  <1>7. Shaped'
    BY <1>2, <1>3 DEF BrowseInv, Shaped
  <1>8. Found'
    BY <1>2, <1>3, <1>4, <1>5 DEF BrowseInv, Found, AllPlain
  <1>. QED  BY <1>6, <1>7, <1>8 DEF BrowseInv

(* Where a redirect is based: the directory's path without its last slash. *)
LEMMA BaseIs ==
    ASSUME BrowseInv, EndsInSlash(url), at # <<>>
    PROVE  LET w == cleanup_path(WithoutSlash(url))
               d == Unescaped(w)
           IN  /\ w \in Text /\ d \in Text /\ StartsWithSlash(d)
               /\ cleanup_path(url) = Append(w, SLASH)
               /\ Meant = Append(d, SLASH)
               /\ decoded_http_path(WithoutSlash(url)) = UntilNull(d)
  <1> DEFINE v == WithoutSlash(url)
             w == cleanup_path(v)
             d == Unescaped(w)
  <1>1. url \in Text /\ StartsWithSlash(url) /\ cleanup_path(url) # <<SLASH>>
    BY DEF BrowseInv, TypeInv, Shaped
  <1>2. /\ v \in Text /\ cleanup_path(url) = Append(w, SLASH)
        /\ v # <<>> => StartsWithSlash(v)
    BY <1>1, WithoutSlashIs
  <1> HIDE DEF v
  <1>3. v # <<>>
    <2>1. v = <<>> => w = <<>>
      BY CleanupEmpty
    <2>2. Append(<<>>, SLASH) = <<SLASH>>
      OBVIOUS
    <2>. QED  BY <1>1, <1>2, <2>1, <2>2
  <1>4. w \in Text /\ StartsWithSlash(w)
    BY <1>2, <1>3, CleanupKeepsEnds DEF Text
  <1> HIDE DEF w
  <1>5. d \in Text /\ StartsWithSlash(d)
    BY <1>4, UnescapedTyped, UnescapedStarts
  <1>6. Meant = Append(d, SLASH)
    BY <1>2, <1>4, UnescapedAfterSlash DEF Meant
  <1>7. decoded_http_path(v) = UntilNull(d)
    BY DEF decoded_http_path, decode_url, w
  <1>. QED  BY <1>2, <1>4, <1>5, <1>6, <1>7 DEF v, w

LEMMA NoNullIn ==
    ASSUME NEW d \in Text, Append(d, SLASH) \in Seq(Bytes \ {0})
    PROVE  UntilNull(d) = d
  <1> DEFINE e == Append(d, SLASH)
  <1>1. /\ Len(e) = Len(d) + 1 /\ Len(d) \in Nat
        /\ \A k \in 1 .. Len(d) : e[k] = d[k]
    BY AppendProperties, SlashIsAByte DEF Text
  <1>2. \A k \in 1 .. Len(e) : e[k] \in Bytes \ {0}
    BY ElementOfSeq
  <1> HIDE DEF e
  <1>3. \A k \in 1 .. Len(d) : k \in 1 .. Len(e)
    BY <1>1
  <1>4. \A k \in 1 .. Len(d) : d[k] # 0
    BY <1>1, <1>2, <1>3
  <1>5. ~Contains(d, 0)
    BY <1>4 DEF Contains
  <1>. QED  BY <1>5, UntilNullIs

(* A redirect whose names need no encoding gives back the path it was. *)
LEMMA RedirectOk ==
    ASSUME BrowseInv, Redirect
    PROVE  BrowseInv'
  <1> DEFINE w == cleanup_path(WithoutSlash(url))
             d == Unescaped(w)
             e == UntilNull(d)
             l == Append(e, SLASH)
  <1>1. /\ w \in Text /\ d \in Text /\ StartsWithSlash(d)
        /\ cleanup_path(url) = Append(w, SLASH)
        /\ Meant = Append(d, SLASH)
        /\ decoded_http_path(WithoutSlash(url)) = e
    BY BaseIs DEF Redirect
  <1> HIDE DEF w
  <1>2. /\ url' = l /\ serve_path' = serve_path /\ at' = at /\ is_dir' = is_dir
        /\ redirected' = TRUE /\ at # <<>> /\ ~EndsInSlash(e) /\ is_dir
    BY <1>1 DEF Redirect, Location
  <1>3. e \in Text /\ StartsWithSlash(e)
    BY <1>1, UntilNullIs
  <1> HIDE DEF e
  <1>4. l \in Text /\ StartsWithSlash(l) /\ EndsInSlash(l)
    BY <1>3, Ends, SlashIsAByte DEF Text, StartsWithSlash, EndsInSlash
  <1>5. cleanup_path(l) = Append(cleanup_path(e), SLASH) /\ cleanup_path(e) \in Text /\ cleanup_path(e) # <<>>
    <2>1. cleanup_path(l) = Append(cleanup_path(e), SLASH)
      BY <1>2, <1>3, CleanupAppend, SlashIsAByte DEF Text
    <2>2. cleanup_path(e) \in Text /\ cleanup_path(e) # <<>>
      BY <1>3, CleanupKeepsEnds DEF Text, StartsWithSlash
    <2>. QED  BY <2>1, <2>2
  <1> HIDE DEF l
  <1>6. cleanup_path(l) # <<SLASH>>
    <2>1. /\ Len(Append(cleanup_path(e), SLASH)) = Len(cleanup_path(e)) + 1
          /\ Len(cleanup_path(e)) \in Nat
      BY <1>5, Ends, SlashIsAByte DEF Text
    <2>2. Len(cleanup_path(e)) # 0
      BY <1>5, EmptySeq DEF Text
    <2>3. Len(<<SLASH>>) = 1
      OBVIOUS
    <2>. QED  BY <1>5, <2>1, <2>2, <2>3
  <1>7. TypeInv'
    BY <1>2, <1>4 DEF BrowseInv, TypeInv
  <1>8. Shaped'
    BY <1>2, <1>4, <1>6 DEF Shaped
  <1>9. ASSUME Good'
        PROVE  /\ (url \in Seq(Valid))'
               /\ (Meant \in Seq(Bytes \ {0}))'
               /\ (cleanup_path(Meant) = Meant)'
               /\ (Components(Meant) = at)'
               /\ (AllPlain(at) => Meant \in Seq(AsItIs \union {SLASH}))'
    <2>1. AllPlain(at)
      BY <1>2, <1>9 DEF Good
    <2>2. /\ Meant \in Seq(Bytes \ {0}) /\ cleanup_path(Meant) = Meant
          /\ Components(Meant) = at /\ Meant \in Seq(AsItIs \union {SLASH})
      BY <2>1 DEF BrowseInv, Found, Good
    <2>3. e = d
      BY <1>1, <2>2, NoNullIn DEF e
    <2>4. l = Meant
      BY <1>1, <2>3 DEF l
    <2>5. Meant \in Seq(Valid) /\ Meant \in Seq(Bytes \ {PERCENT})
      <3>1. AsItIs \union {SLASH} \subseteq Valid
        BY ByteSets DEF Linked
      <3>2. AsItIs \union {SLASH} \subseteq Bytes \ {PERCENT}
        BY ByteSets DEF Linked, SLASH, PERCENT
      <3>. QED  BY <2>2, <3>1, <3>2, SeqMonotonic
    <2>6. Unescaped(Meant) = Meant
      BY <2>5, UnescapedOfPlain
    <2>7. Meant' = Meant
      <3>1. Meant' = Unescaped(cleanup_path(l))
        BY <1>2 DEF Meant
      <3>. QED  BY <2>2, <2>4, <2>6, <3>1
    <2>. QED  BY <1>2, <2>2, <2>4, <2>5, <2>7
  <1>10. Found'
    BY <1>9 DEF Found
  <1>. QED  BY <1>7, <1>8, <1>10 DEF BrowseInv

(* Whatever the client follows, writes or is told, its path is one of the  *)
(* kind described: the argument of all that follows.                       *)
THEOREM BrowseInvariant == Spec => []BrowseInv
  <1>1. Init => BrowseInv
    BY InitOk
  <1>2. BrowseInv /\ [Next]_vars => BrowseInv'
    <2> SUFFICES ASSUME BrowseInv, [Next]_vars
                 PROVE  BrowseInv'
      OBVIOUS
    <2>1. CASE \E name \in Names, dir \in BOOLEAN : Follow(name, dir)
      BY <2>1, FollowOk
    <2>2. CASE \E i \in DOMAIN url : WriteSlash(i)
      BY <2>2, WriteSlashOk
    <2>3. CASE Redirect
      BY <2>3, RedirectOk
    <2>4. CASE UNCHANGED vars
      <3>1. /\ serve_path' = serve_path /\ at' = at /\ is_dir' = is_dir /\ url' = url
            /\ redirected' = redirected
        BY <2>4 DEF vars
      <3>2. Meant' = Meant /\ (Good' <=> Good)
        BY <3>1 DEF Meant, Good, AllPlain
      <3>. QED  BY <3>1, <3>2 DEF BrowseInv, TypeInv, Shaped, Found, AllPlain
    <2>. QED  BY <2>1, <2>2, <2>3, <2>4 DEF Next
  <1>. QED  BY <1>1, <1>2, PTL DEF Spec

-----------------------------------------------------------------------------
(* What the invariant says of a request. *)
LEMMA RequestedIs ==
    ASSUME BrowseInv
    PROVE  /\ serve_path \in Text /\ serve_path # <<>> /\ cleanup_path(serve_path) = serve_path
           /\ decoded_http_path(url) \in Text /\ StartsWithSlash(decoded_http_path(url))
           /\ Good => /\ decoded_http_path(url) = Meant
                      /\ Accepted(url)
  <1>1. /\ serve_path \in ServePaths /\ at \in Seq(Names)
        /\ url \in Text /\ StartsWithSlash(url)
    BY DEF BrowseInv, TypeInv, Shaped
  <1>2. cleanup_path(url) \in Text /\ StartsWithSlash(cleanup_path(url))
    BY <1>1, CleanupKeepsEnds DEF Text
  <1>3. Meant \in Text /\ StartsWithSlash(Meant)
    BY <1>2, UnescapedTyped, UnescapedStarts DEF Meant
  <1>4. decoded_http_path(url) = UntilNull(Meant)
    BY DEF decoded_http_path, decode_url, Meant
  <1>5. UntilNull(Meant) \in Text /\ StartsWithSlash(UntilNull(Meant))
    BY <1>3, UntilNullIs
  <1>6. ASSUME Good
        PROVE  UntilNull(Meant) = Meant /\ Accepted(url)
    <2>1. url \in Seq(Valid) /\ Meant \in Seq(Bytes \ {0})
      BY <1>6 DEF BrowseInv, Found
    <2>2. \A k \in 1 .. Len(Meant) : Meant[k] # 0
      BY <2>1, ElementOfSeq
    <2>3. ~Contains(Meant, 0)
      BY <2>2 DEF Contains
    <2>4. UntilNull(Meant) = Meant
      BY <1>3, <2>3, UntilNullIs
    <2>5. \A k \in DOMAIN url : url[k] \in Valid
      BY <2>1, ElementOfSeq, LenProperties
    <2>6. Accepted(url)
      BY <1>1, <2>5 DEF Accepted, Valid, StartsWithSlash
    <2>. QED  BY <2>4, <2>6
  <1>7. serve_path \in Text /\ serve_path # <<>> /\ cleanup_path(serve_path) = serve_path
    BY <1>1, ServePathAssumption DEF Text
  <1>. QED  BY <1>4, <1>5, <1>6, <1>7

LEMMA FoundThere ==
    ASSUME BrowseInv, Good
    PROVE  Accepted(url) /\ LeadsTo(real_path(url), at)
  <1> DEFINE q == decoded_http_path(url)
  <1>1. /\ serve_path \in Text /\ serve_path # <<>> /\ cleanup_path(serve_path) = serve_path
        /\ q \in Text /\ StartsWithSlash(q) /\ q = Meant /\ Accepted(url)
    BY RequestedIs
  <1>2. Components(q) = at /\ at \in Seq(Names)
    BY <1>1 DEF BrowseInv, Found, TypeInv
  <1>3. at # <<<<DOT>>>>
    <2> SUFFICES ASSUME at = <<<<DOT>>>>
                 PROVE  FALSE
      OBVIOUS
    <2>1. Len(at) = 1 /\ at[1] = <<DOT>>
      OBVIOUS
    <2>2. at[1] \in Names
      BY <1>2, <2>1, ElementOfSeq
    <2>. QED  BY <2>1, <2>2, NamesAre
  <1> HIDE DEF q
  <1>4. Components(resolve_path(serve_path, q)) = Components(serve_path) \o Components(q)
    BY <1>1, <1>2, <1>3, ResolveIs
  <1>. QED  BY <1>1, <1>2, <1>4 DEF LeadsTo, real_path, q

(* A link in a listing leads to the entry it was made for, whatever bytes  *)
(* the names have, however deep it is and however many slashes the client  *)
(* writes too many: parse_http_request takes its path, and decode_url and  *)
(* resolve_path undo what buf_encode_url did.                              *)
THEOREM LinksFound == Spec => []LinksLead
  <1>1. BrowseInv => LinksLead
    BY FoundThere DEF LinksLead, Good
  <1>. QED  BY <1>1, BrowseInvariant, PTL

(* So does a redirect, which does not encode the path, if the names in it  *)
(* need no encoding.                                                       *)
THEOREM RedirectsFound == Spec => []RedirectsLead
  <1>1. BrowseInv => RedirectsLead
    <2>1. AllPlain(at) => Good
      BY DEF Good
    <2>. QED  BY <2>1, FoundThere, Zenon DEF RedirectsLead, AllPlain
  <1>. QED  BY <1>1, BrowseInvariant, PTL

(* The path in a Location ends in a slash, and is not redirected again.    *)
THEOREM NoSecondRedirect == Spec => []RedirectedOnce
  <1>1. BrowseInv => RedirectedOnce
    <2> SUFFICES ASSUME BrowseInv, is_dir, ~CutShort(url)
                 PROVE  EndsInSlash(decoded_http_path(url))
      BY DEF RedirectedOnce
    <2>1. url \in Text /\ EndsInSlash(url)
      BY DEF BrowseInv, TypeInv, Shaped
    <2>2. cleanup_path(url) \in Text /\ EndsInSlash(cleanup_path(url))
      BY <2>1, CleanupKeepsEnds DEF Text
    <2>3. Meant \in Text /\ EndsInSlash(Meant)
      <3>1. <<>> \in Text
        BY EmptySeq DEF Text
      <3>. QED  BY <2>2, <3>1, AfterTheSlash, UnescapedTyped DEF Meant
    <2>4. ~Contains(Meant, 0)
      BY DEF CutShort, Meant
    <2>5. decoded_http_path(url) = UntilNull(Meant)
      BY DEF decoded_http_path, decode_url, Meant
    <2>6. UntilNull(Meant) = Meant
      BY <2>3, <2>4, UntilNullIs
    <2>. QED  BY <2>3, <2>5, <2>6
  <1>. QED  BY <1>1, BrowseInvariant, PTL

(* The index file that make_http_response looks for is the one in the      *)
(* directory that was asked for.                                           *)
THEOREM IndexFound == Spec => []IndexIsInside
  <1>1. BrowseInv => IndexIsInside
    <2> SUFFICES ASSUME BrowseInv, LeadsTo(real_path(url), at)
                 PROVE  LeadsTo(index_real_path(url), Append(at, Index))
      BY DEF IndexIsInside, Reached
    <2> DEFINE p == real_path(url)
               q == decoded_http_path(url)
    <2>1. /\ serve_path \in Text /\ serve_path # <<>> /\ cleanup_path(serve_path) = serve_path
          /\ q \in Text /\ StartsWithSlash(q) /\ at \in Seq(Names)
      BY RequestedIs DEF BrowseInv, TypeInv
    <2>2. p \in Text /\ cleanup_path(p) = p
      <3> HIDE DEF q
      <3>1. resolve_path(serve_path, q) \in Text /\ cleanup_path(resolve_path(serve_path, q)) = resolve_path(serve_path, q)
        BY <2>1, ResolveIs
      <3>. QED  BY <3>1 DEF real_path, q
    <2>3. Components(p) = Components(serve_path) \o at
      BY DEF LeadsTo
    <2> HIDE DEF p, q
    <2>4. Components(resolve_path(p, Index)) = Append(Components(p), Index)
      BY <2>2, IndexResolves
    <2>5. Append(Components(serve_path) \o at, Index) = Components(serve_path) \o Append(at, Index)
      <3> DEFINE s == Components(serve_path)
                 x == <<Index>>
      <3>1. s \in Seq(Text) /\ at \in Seq(Text) /\ x \in Seq(Text) /\ Index \in Text
        <4>1. Index \in Text
          BY NameAssumption, SeqMonotonic DEF Text
        <4>2. Names \subseteq Text
          BY NamesAre
        <4>3. at \in Seq(Text)
          BY <2>1, <4>2, SeqMonotonic
        <4>. QED  BY <2>1, <4>1, <4>3, ReadingTyped
      <3> HIDE DEF s
      <3>2. s \o at \in Seq(Text)
        BY <3>1, ConcatProperties
      <3>3. Append(s \o at, Index) = (s \o at) \o x /\ Append(at, Index) = at \o x
        BY <3>1, <3>2, AppendIsConcat
      <3> HIDE DEF x
      <3>4. (s \o at) \o x = s \o (at \o x)
        BY <3>1, ConcatAssociative
      <3>. QED  BY <3>3, <3>4 DEF s
    <2>. QED  BY <2>3, <2>4, <2>5 DEF LeadsTo, index_real_path, p
  <1>. QED  BY <1>1, BrowseInvariant, PTL

(* resolve_path writes the path of a request within the memory that it     *)
(* allocates for it.                                                       *)
THEOREM PathsFit == Spec => []PathFits
  <1>1. BrowseInv => PathFits
    <2> SUFFICES ASSUME BrowseInv
                 PROVE  PathFits
      OBVIOUS
    <2> DEFINE q == decoded_http_path(url)
    <2>1. /\ serve_path \in Text /\ serve_path # <<>> /\ cleanup_path(serve_path) = serve_path
          /\ q \in Text /\ StartsWithSlash(q)
      BY RequestedIs
    <2> HIDE DEF q
    <2>2. Fits(resolve_path(serve_path, q), serve_path, q)
      BY <2>1, ResolveIs
    <2>. QED  BY <2>2 DEF PathFits, real_path, q
  <1>. QED  BY <1>1, BrowseInvariant, PTL

-----------------------------------------------------------------------------
(* Requests. A text of lines ends as is_http_end asks only after its       *)
(* blank line: a line has something before its line feed, so that no two   *)
(* line feeds have one symbol between them before.                         *)

(* A line has its only line feed at its end, and a text of lines that none *)
(* of is empty has no two line feeds with one symbol between them.        *)
Symbols == InLine \union NameChar \union PathChar \union {" ", ":", "CR", "LF"}
Within == Symbols \ {"LF", "NUL"}
LineTexts ==
    {line \in Seq(Symbols) :
        /\ Len(line) >= 3
        /\ line[Len(line) - 1] = "CR" /\ line[Len(line)] = "LF"
        /\ \A i \in 1 .. Len(line) - 1 : line[i] \in Within}
Spaced(text) ==
    /\ text \in Seq(Symbols)
    /\ Len(text) >= 3
    /\ text[Len(text)] = "LF"
    /\ text[Len(text) - 1] = "CR" /\ text[Len(text) - 2] # "LF"
    /\ \A i \in 1 .. Len(text) : text[i] # "NUL"
    /\ \A i \in 1 .. Len(text) - 2 : text[i] = "LF" => text[i + 2] # "LF"

(* A line ends in its only line feed, and has two symbols or more before   *)
(* it.                                                                     *)
LEMMA LineIsSpaced ==
    ASSUME NEW line \in LineTexts
    PROVE  Spaced(line)
  <1>1. line \in Seq(Symbols) /\ Len(line) \in Nat
    BY DEF LineTexts
  <1>. QED  BY <1>1 DEF LineTexts, Spaced, Within

(* A line after such lines leaves them such lines. *)
LEMMA LineIsAppended ==
    ASSUME NEW text, Spaced(text), NEW line \in LineTexts
    PROVE  Spaced(text \o line)
  <1> DEFINE n == Len(text)
             m == Len(line)
             both == text \o line
  <1>1. /\ text \in Seq(Symbols) /\ line \in Seq(Symbols)
        /\ n \in Nat /\ m \in Nat /\ n >= 3 /\ m >= 3
    BY DEF LineTexts, Spaced
  <1>2. /\ both \in Seq(Symbols) /\ Len(both) = n + m
        /\ \A i \in 1 .. n : both[i] = text[i]
        /\ \A i \in n + 1 .. n + m : both[i] = line[i - n]
    BY <1>1, ConcatProperties
  <1>3. /\ line[m] = "LF" /\ line[m - 1] = "CR"
        /\ \A i \in 1 .. m - 1 : line[i] # "LF" /\ line[i] # "NUL"
    BY DEF LineTexts, Within
  <1>4. /\ text[n - 1] # "LF"
        /\ \A i \in 1 .. n : text[i] # "NUL"
        /\ \A i \in 1 .. n - 2 : text[i] = "LF" => text[i + 2] # "LF"
    BY DEF Spaced
  <1> HIDE DEF n, m, both
  <1>5. /\ both[n + m] = "LF" /\ both[n + m - 1] = "CR" /\ both[n + m - 2] # "LF"
    <2>1. /\ both[n + m] = line[m] /\ both[n + m - 1] = line[m - 1]
          /\ both[n + m - 2] = line[m - 2]
      BY <1>1, <1>2
    <2>. QED  BY <1>1, <1>3, <2>1
  <1>6. ASSUME NEW i \in 1 .. n + m
        PROVE  both[i] # "NUL"
    <2>1. CASE i <= n
      BY <1>1, <1>2, <1>4, <2>1
    <2>2. CASE i > n
      <3>1. i - n \in 1 .. m /\ both[i] = line[i - n]
        <4>1. i - n \in 1 .. m /\ i \in n + 1 .. n + m
          BY <1>1, <2>2
        <4>. QED  BY <1>2, <4>1
      <3>2. \A j \in 1 .. m : line[j] # "NUL"
        BY <1>1, <1>3
      <3>. QED  BY <3>1, <3>2
    <2>. QED  BY <1>1, <2>1, <2>2
  <1>7. ASSUME NEW i \in 1 .. n + m - 2, both[i] = "LF"
        PROVE  both[i + 2] # "LF"
    <2>1. CASE i <= n - 2
      BY <1>1, <1>2, <1>4, <1>7, <2>1
    <2>2. CASE i = n - 1
      BY <1>1, <1>2, <1>4, <1>7, <2>2
    <2>3. CASE i >= n
      <3>1. (i + 2) - n \in 2 .. m /\ both[i + 2] = line[(i + 2) - n]
        <4> DEFINE j == i + 2
        <4>1. j \in n + 1 .. n + m /\ j - n \in 2 .. m
          BY <1>1, <2>3
        <4> HIDE DEF j
        <4>2. both[j] = line[j - n]
          BY <1>2, <4>1
        <4>. QED  BY <4>1, <4>2, Zenon DEF j
      <3>2. CASE i = n
        BY <1>1, <1>3, <3>1, <3>2
      <3>3. CASE i > n
        <4>1. i - n \in 1 .. m - 2 /\ both[i] = line[i - n]
          BY <1>1, <1>2, <3>3
        <4>. QED  BY <1>1, <1>3, <1>7, <4>1
      <3>. QED  BY <1>1, <2>3, <3>2, <3>3
    <2>. QED  BY <1>1, <2>1, <2>2, <2>3
  <1>8. n + m >= 3
    BY <1>1
  <1>9. Spaced(both)
    BY <1>1, <1>2, <1>5, <1>6, <1>7, <1>8 DEF Spaced
  <1>. QED  BY <1>9 DEF both

LEMMA JoinThree ==
    ASSUME NEW s \in Seq(Symbols), NEW t \in Seq(Symbols), NEW u \in Seq(Symbols)
    PROVE  (s \o t) \o u = s \o (t \o u)
  BY ConcatAssociative

(* So do any number of lines. *)
LEMMA LinesAreAppended ==
    ASSUME NEW text, Spaced(text), NEW lines \in Seq(LineTexts)
    PROVE  Spaced(text \o FlattenSeq(lines))
  <1> DEFINE T == {q \in Seq(LineTexts) : Spaced(text \o FlattenSeq(q))}
  <1>1. text \in Seq(Symbols) /\ LineTexts \subseteq Seq(Symbols)
    BY DEF Spaced, LineTexts
  <1>2. <<>> \in T
    <2>1. FlattenSeq(<<>>) = <<>>
      BY DEF FlattenSeq
    <2>2. text \o <<>> = text
      BY <1>1, ConcatEmptySeq
    <2>. QED  BY <2>1, <2>2, EmptySeq
  <1>3. ASSUME NEW q \in Seq(LineTexts), NEW line \in LineTexts, q \in T
        PROVE  Append(q, line) \in T
    <2>1. q \in Seq(Seq(Symbols)) /\ line \in Seq(Symbols)
      BY <1>1, SeqMonotonic
    <2>2. FlattenSeq(Append(q, line)) = FlattenSeq(q) \o line /\ FlattenSeq(q) \in Seq(Symbols)
      BY <2>1, FlattenAppend, FlattensOneByOne
    <2>3. text \o (FlattenSeq(q) \o line) = (text \o FlattenSeq(q)) \o line
      <3> DEFINE flat == FlattenSeq(q)
      <3>1. flat \in Seq(Symbols)
        BY <2>2
      <3> HIDE DEF flat
      <3>2. (text \o flat) \o line = text \o (flat \o line)
        BY <1>1, <2>1, <3>1, JoinThree, Zenon
      <3>. QED  BY <3>2 DEF flat
    <2>4. Spaced((text \o FlattenSeq(q)) \o line)
      BY <1>3, LineIsAppended
    <2>5. Append(q, line) \in Seq(LineTexts)
      BY AppendProperties
    <2>. QED  BY <2>2, <2>3, <2>4, <2>5
  <1> HIDE DEF T
  <1>4. Seq(LineTexts) \subseteq T
    BY <1>2, <1>3, SeqInduction
  <1>. QED  BY <1>4 DEF T

(* A text without line feeds and its end are a line. *)
LEMMA EndOfLine ==
    ASSUME NEW text \in Seq(Within), NEW tail \in Seq(Symbols),
           Len(text) >= 1, Len(tail) >= 2, tail[Len(tail)] = "LF",
           tail[Len(tail) - 1] = "CR",
           \A i \in 1 .. Len(tail) - 1 : tail[i] \in Within
    PROVE  text \o tail \in LineTexts
  <1> DEFINE n == Len(text)
             m == Len(tail)
             both == text \o tail
  <1>1. /\ text \in Seq(Symbols) /\ tail \in Seq(Symbols)
        /\ n \in Nat /\ m \in Nat /\ n >= 1 /\ m >= 2
    BY SeqMonotonic DEF Within
  <1>2. /\ both \in Seq(Symbols) /\ Len(both) = n + m
        /\ \A i \in 1 .. n : both[i] = text[i]
        /\ \A i \in n + 1 .. n + m : both[i] = tail[i - n]
    BY <1>1, ConcatProperties
  <1>3. tail[m] = "LF" /\ tail[m - 1] = "CR" /\ \A i \in 1 .. m - 1 : tail[i] \in Within
    OBVIOUS
  <1>4. \A i \in 1 .. n : text[i] \in Within
    BY ElementOfSeq
  <1> HIDE DEF n, m, both
  <1>5. both[n + m] = "LF" /\ both[n + m - 1] = "CR"
    BY <1>1, <1>2, <1>3
  <1>6. ASSUME NEW i \in 1 .. n + m - 1
        PROVE  both[i] \in Within
    <2>1. CASE i <= n
      BY <1>1, <1>2, <1>4, <2>1
    <2>2. CASE i > n
      BY <1>1, <1>2, <1>3, <2>2
    <2>. QED  BY <1>1, <2>1, <2>2
  <1>7. both \in LineTexts
    <2>1. both \in Seq(Symbols) /\ Len(both) >= 3 /\ both[Len(both)] = "LF"
          /\ both[Len(both) - 1] = "CR"
      BY <1>1, <1>2, <1>5
    <2>2. ASSUME NEW i \in 1 .. Len(both) - 1
          PROVE  both[i] \in Within
      <3>1. i \in 1 .. n + m - 1
        BY <1>1, <1>2
      <3>. QED  BY <1>6, <3>1
    <2>. QED  BY <2>1, <2>2 DEF LineTexts
  <1>. QED  BY <1>7 DEF both

(* Two texts within a line, one after the other. *)
LEMMA JoinWithin ==
    ASSUME NEW s \in Seq(Within), NEW t \in Seq(Within)
    PROVE  /\ s \o t \in Seq(Within)
           /\ Len(s \o t) = Len(s) + Len(t)
           /\ Len(s) \in Nat /\ Len(t) \in Nat
  BY ConcatProperties

(* The request line and each header are lines that are not empty. *)
LEMMA LinesOfRequest ==
    ASSUME NEW r \in Requests
    PROVE  /\ RequestLine(r) \in LineTexts
           /\ \A i \in DOMAIN r.headers : Line(r.headers[i]) \in LineTexts
  <1>1. /\ r.method \in Seq(Within) /\ r.path \in Seq(Within)
        /\ r.headers \in Seq(Header)
    <2>1. Upper \subseteq Within /\ PathChar \subseteq Within
      BY DEF Upper, PathChar, Alpha, Digit, Within, Symbols
    <2>. QED  BY <2>1, RequestAssumption, SeqMonotonic
  <1>2. RequestLine(r) \in LineTexts
    <2> DEFINE m == r.method
               p == r.path
               space == <<" ">>
               tail == <<" ", "HTTP", "/", "1", ".", "1", "CR", "LF">>
    <2>1. /\ tail \in Seq(Symbols) /\ Len(tail) = 8 /\ tail[7] = "CR" /\ tail[8] = "LF"
          /\ \A i \in 1 .. 7 : tail[i] \in Within
      BY DEF Within, Symbols, NameChar, PathChar, Alpha, Upper, Digit
    <2>2. /\ m \in Seq(Within) /\ p \in Seq(Within) /\ space \in Seq(Within)
          /\ Len(space) = 1
      <3>1. space \in Seq(Within) /\ Len(space) = 1
        BY DEF Within, Symbols
      <3>. QED  BY <1>1, <3>1
    <2>3. RequestLine(r) = ((m \o space) \o p) \o tail
      BY DEF RequestLine
    <2> HIDE DEF m, p, space, tail
    <2> DEFINE text == (m \o space) \o p
    <2>4. text \in Seq(Within) /\ Len(text) >= 1
      <3>1. /\ m \o space \in Seq(Within) /\ Len(m \o space) = Len(m) + Len(space)
            /\ Len(m) \in Nat
        BY <2>2, JoinWithin, Zenon
      <3>2. text \in Seq(Within) /\ Len(text) = Len(m \o space) + Len(p) /\ Len(p) \in Nat
        BY <2>2, <3>1, JoinWithin, Zenon
      <3>. QED  BY <2>2, <3>1, <3>2
    <2> HIDE DEF text
    <2>5. text \o tail \in LineTexts
      <3>1. Len(tail) >= 2 /\ tail[Len(tail)] = "LF" /\ tail[Len(tail) - 1] = "CR"
        BY <2>1
      <3>2. \A i \in 1 .. Len(tail) - 1 : tail[i] \in Within
        BY <2>1
      <3>. QED  BY <2>1, <2>4, <3>1, <3>2, EndOfLine
    <2>. QED  BY <2>3, <2>5 DEF text
  <1>3. ASSUME NEW i \in DOMAIN r.headers
        PROVE  Line(r.headers[i]) \in LineTexts
    <2> DEFINE h == r.headers[i]
               colon == <<":", " ">>
               tail == <<"CR", "LF">>
    <2>1. h.name \in Seq(Within) /\ h.value \in Seq(Within)
      <3>1. h.name \in Seq(NameChar) /\ h.value \in Seq(InLine)
        <4> DEFINE hs == r.headers
        <4>1. hs \in Seq(Header) /\ i \in DOMAIN hs
          BY <1>1
        <4> HIDE DEF hs
        <4>2. hs[i] \in Header
          BY <4>1
        <4>. QED  BY <4>2 DEF hs, Header
      <3>2. NameChar \subseteq Within /\ InLine \subseteq Within
        BY DEF NameChar, Alpha, Upper, InLine, Within, Symbols
      <3>. QED  BY <3>1, <3>2, SeqMonotonic
    <2> DEFINE name == h.name
               value == h.value
               text == (name \o colon) \o value
    <2>2. colon \in Seq(Within) /\ Len(colon) = 2
      BY DEF Within, Symbols
    <2>3. /\ text \in Seq(Within) /\ text \in Seq(Symbols)
          /\ Len(text) \in Nat /\ Len(text) >= 2
      <3>1. name \in Seq(Within) /\ value \in Seq(Within)
        BY <2>1
      <3> HIDE DEF name, value, colon
      <3>2. /\ name \o colon \in Seq(Within)
            /\ Len(name \o colon) = Len(name) + Len(colon) /\ Len(name) \in Nat
        BY <2>2, <3>1, JoinWithin, Zenon
      <3>3. /\ text \in Seq(Within) /\ Len(text) = Len(name \o colon) + Len(value)
            /\ Len(value) \in Nat
        BY <3>1, <3>2, JoinWithin, Zenon
      <3> HIDE DEF text
      <3>4. text \in Seq(Symbols)
        BY <3>3, SeqMonotonic DEF Within
      <3>. QED  BY <2>2, <3>2, <3>3, <3>4
    <2>4. tail \in Seq(Symbols) /\ Len(tail) = 2 /\ tail[1] = "CR" /\ tail[2] = "LF"
      BY DEF Symbols
    <2>5. Line(h) = text \o tail
      BY DEF Line
    <2> HIDE DEF text, tail
    <2>6. text \o tail \in LineTexts
      <3>1. \A x \in 1 .. Len(tail) - 1 : tail[x] \in Within
        <4>1. "CR" \in Within
          BY DEF Within, Symbols
        <4>. QED  BY <2>4, <4>1
      <3>2. Len(text) >= 1 /\ Len(tail) >= 2 /\ tail[Len(tail)] = "LF"
            /\ tail[Len(tail) - 1] = "CR"
        BY <2>3, <2>4
      <3>. QED  BY <2>3, <2>4, <3>1, <3>2, EndOfLine
    <2>. QED  BY <2>5, <2>6
  <1>. QED  BY <1>2, <1>3

(* The text of a request is lines that are not empty, and an empty line. *)
LEMMA TextIs ==
    ASSUME NEW r \in Requests
    PROVE  \E lines : Spaced(lines) /\ RequestText(r) = lines \o <<"CR", "LF">>
  <1> DEFINE hs == r.headers
             ls == [i \in DOMAIN hs |-> Line(hs[i])]
  <1>1. hs \in Seq(Header)
    BY RequestAssumption
  <1>2. \A i \in DOMAIN hs : Line(hs[i]) \in LineTexts
    BY LinesOfRequest
  <1>3. ls \in Seq(LineTexts)
    <2> HIDE DEF hs
    <2>1. Len(hs) \in Nat /\ DOMAIN hs = 1 .. Len(hs)
      BY <1>1
    <2>. QED  BY <1>2, <2>1
  <1> HIDE DEF ls
  <1>4. Spaced(RequestLine(r))
    BY LinesOfRequest, LineIsSpaced
  <1>5. Spaced(RequestLine(r) \o FlattenSeq(ls))
    BY <1>3, <1>4, LinesAreAppended
  <1>. QED  BY <1>5 DEF RequestText, ls

(* What a client has sent so far: the first k symbols of its request. *)
Sent(r, k) == SubSeq(RequestText(r), 1, k)

(* What a client has sent when it has sent k symbols. *)
LEMMA SentIs ==
    ASSUME NEW r \in Requests, NEW k \in 0 .. Len(RequestText(r))
    PROVE  /\ RequestText(r) \in Seq(Symbols)
           /\ Len(RequestText(r)) \in Nat
           /\ Sent(r, k) \in Seq(Symbols)
           /\ Len(Sent(r, k)) = k
           /\ \A i \in 1 .. k : Sent(r, k)[i] = RequestText(r)[i]
           /\ Sent(r, Len(RequestText(r))) = RequestText(r)
  <1> DEFINE text == RequestText(r)
             end == <<"CR", "LF">>
  <1>1. text \in Seq(Symbols)
    <2>1. PICK lines : Spaced(lines) /\ text = lines \o end
      BY TextIs
    <2>2. end \in Seq(Symbols)
      BY DEF Symbols
    <2> HIDE DEF end, text
    <2>3. lines \in Seq(Symbols)
      BY <2>1 DEF Spaced
    <2>. QED  BY <2>1, <2>2, <2>3, ConcatProperties
  <1> HIDE DEF text
  <1>2. Len(text) \in Nat
    BY <1>1
  <1>3. ASSUME NEW n \in 0 .. Len(text)
        PROVE  /\ SubSeq(text, 1, n) \in Seq(Symbols) /\ Len(SubSeq(text, 1, n)) = n
               /\ \A i \in 1 .. n : SubSeq(text, 1, n)[i] = text[i]
    BY <1>1, <1>2, SubSeqProperties
  <1>4. SubSeq(text, 1, Len(text)) = text
    BY <1>1, <1>2, <1>3, SeqEqual
  <1>. QED  BY <1>1, <1>2, <1>3, <1>4 DEF Sent, text

(* Only the end of a request looks like one. *)
LEMMA EndsOnlyThere ==
    ASSUME NEW r \in Requests, NEW k \in 0 .. Len(RequestText(r)),
           is_http_end(Sent(r, k))
    PROVE  k = Len(RequestText(r))
  <1> DEFINE text == RequestText(r)
             b == Sent(r, k)
             end == <<"CR", "LF">>
  <1>1. PICK lines : Spaced(lines) /\ text = lines \o end
    BY TextIs
  <1> DEFINE n == Len(lines)
  <1>2. /\ lines \in Seq(Symbols) /\ n \in Nat /\ n >= 3
        /\ lines[n - 1] = "CR"
        /\ \A i \in 1 .. n : lines[i] # "NUL"
        /\ \A i \in 1 .. n - 2 : lines[i] = "LF" => lines[i + 2] # "LF"
    BY <1>1 DEF Spaced
  <1>3. end \in Seq(Symbols) /\ Len(end) = 2 /\ end[1] = "CR" /\ end[2] = "LF"
    BY DEF Symbols
  <1>4. /\ b \in Seq(Symbols) /\ Len(b) = k /\ k \in 0 .. Len(text)
        /\ \A i \in 1 .. k : b[i] = text[i]
    BY SentIs
  <1>5. is_http_end(b)
    OBVIOUS
  <1> HIDE DEF text, b, end, n
  <1>6. /\ Len(text) = n + 2
        /\ \A i \in 1 .. n : text[i] = lines[i]
        /\ text[n + 1] = "CR" /\ text[n + 2] = "LF"
    <2>1. /\ Len(lines \o end) = n + 2
          /\ \A i \in 1 .. n : (lines \o end)[i] = lines[i]
          /\ \A i \in n + 1 .. n + 2 : (lines \o end)[i] = end[i - n]
      <3>1. /\ Len(lines \o end) = Len(lines) + Len(end)
            /\ \A i \in 1 .. Len(lines) + Len(end) :
                  (lines \o end)[i] = IF i <= Len(lines) THEN lines[i] ELSE end[i - Len(lines)]
        BY <1>2, <1>3, ConcatProperties, Zenon
      <3>2. Len(lines) = n
        BY DEF n
      <3> HIDE DEF n
      <3>. QED  BY <1>2, <1>3, <3>1, <3>2
    <2>2. (lines \o end)[n + 1] = end[1] /\ (lines \o end)[n + 2] = end[2]
      <3> DEFINE i == n + 1
                 j == n + 2
      <3>1. i \in n + 1 .. n + 2 /\ j \in n + 1 .. n + 2 /\ i - n = 1 /\ j - n = 2
        BY <1>2
      <3> HIDE DEF i, j
      <3>2. (lines \o end)[i] = end[i - n] /\ (lines \o end)[j] = end[j - n]
        BY <2>1, <3>1
      <3>3. (lines \o end)[i] = end[1] /\ (lines \o end)[j] = end[2]
        BY <3>1, <3>2, Zenon
      <3>. QED  BY <3>3 DEF i, j
    <2>3. text = lines \o end
      BY <1>1
    <2>. QED  BY <1>3, <2>1, <2>2, <2>3
  <1>7. k >= 4 /\ b[k - 2] = "LF" /\ b[k] = "LF"
    <2>1. k # 0 => Last(b) # "NUL"
      <3> SUFFICES ASSUME k # 0
                   PROVE  b[k] # "NUL"
        BY <1>4 DEF Last
      <3>1. k \in 1 .. n \/ k = n + 1 \/ k = n + 2
        BY <1>2, <1>4, <1>6
      <3>2. b[k] = text[k]
        BY <1>4
      <3>. QED  BY <1>2, <1>6, <3>1, <3>2
    <2>2. k >= 4 /\ SubSeq(b, k - 3, k) = <<"CR", "LF", "CR", "LF">>
      BY <1>4, <1>5, <2>1 DEF is_http_end
    <2> DEFINE s == SubSeq(b, k - 3, k)
    <2>3. s[2] = b[k - 2] /\ s[4] = b[k]
      <3>1. \A i \in 1 .. 4 : s[i] = b[k - 3 + i - 1]
        BY <1>4, <2>2, SubSeqProperties
      <3>2. s[2] = b[k - 3 + 2 - 1] /\ s[4] = b[k - 3 + 4 - 1]
        BY <3>1
      <3>3. k - 3 + 2 - 1 = k - 2 /\ k - 3 + 4 - 1 = k
        BY <1>4
      <3>. QED  BY <3>2, <3>3
    <2>4. s[2] = "LF" /\ s[4] = "LF"
      <3>1. <<"CR", "LF", "CR", "LF">>[2] = "LF" /\ <<"CR", "LF", "CR", "LF">>[4] = "LF"
        OBVIOUS
      <3>2. s = <<"CR", "LF", "CR", "LF">>
        BY <2>2
      <3>. QED  BY <3>1, <3>2, Zenon
    <2>. QED  BY <2>2, <2>3, <2>4
  <1>8. text[k - 2] = "LF" /\ text[k] = "LF"
    BY <1>4, <1>7
  <1>9. k \in 4 .. n + 2
    BY <1>2, <1>4, <1>6, <1>7
  <1>10. k # n + 1
    BY <1>6, <1>8
  <1>11. ~(k <= n)
    <2> SUFFICES ASSUME k <= n
                 PROVE  FALSE
      OBVIOUS
    <2>1. lines[k - 2] = "LF" /\ lines[k] = "LF" /\ k - 2 \in 1 .. n - 2 /\ (k - 2) + 2 = k
      BY <1>2, <1>6, <1>8, <1>9
    <2>. QED  BY <1>2, <2>1
  <1>. QED  BY <1>2, <1>6, <1>9, <1>10, <1>11 DEF text

(* And its end does. *)
LEMMA EndIsFound ==
    ASSUME NEW r \in Requests
    PROVE  is_http_end(RequestText(r))
  <1> DEFINE text == RequestText(r)
             end == <<"CR", "LF">>
  <1>1. PICK lines : Spaced(lines) /\ text = lines \o end
    BY TextIs
  <1> DEFINE n == Len(lines)
  <1>2. /\ lines \in Seq(Symbols) /\ n \in Nat /\ n >= 3
        /\ lines[n - 1] = "CR" /\ lines[n] = "LF"
    BY <1>1 DEF Spaced
  <1>3. end \in Seq(Symbols) /\ Len(end) = 2 /\ end[1] = "CR" /\ end[2] = "LF"
    BY DEF Symbols
  <1> HIDE DEF n, end, text
  <1>0. /\ text \in Seq(Symbols) /\ Len(text) = n + 2
        /\ \A i \in 1 .. n : text[i] = lines[i]
        /\ \A i \in n + 1 .. n + 2 : text[i] = end[i - n]
    <2> DEFINE both == lines \o end
    <2>1. /\ both \in Seq(Symbols) /\ Len(both) = Len(lines) + Len(end)
          /\ \A i \in 1 .. Len(lines) + Len(end) :
                both[i] = IF i <= Len(lines) THEN lines[i] ELSE end[i - Len(lines)]
      BY <1>2, <1>3, ConcatProperties, Zenon
    <2>2. Len(lines) = n
      BY DEF n
    <2> HIDE DEF both
    <2>3. /\ both \in Seq(Symbols) /\ Len(both) = n + 2
          /\ \A i \in 1 .. n : both[i] = lines[i]
          /\ \A i \in n + 1 .. n + 2 : both[i] = end[i - n]
      BY <1>2, <1>3, <2>1, <2>2
    <2>. QED  BY <1>1, <2>3, Zenon DEF both
  <1>4. /\ text \in Seq(Symbols) /\ Len(text) = n + 2
        /\ \A i \in 1 .. n : text[i] = lines[i]
        /\ text[n + 1] = "CR" /\ text[n + 2] = "LF"
    <2>1. /\ text \in Seq(Symbols) /\ Len(text) = n + 2
          /\ \A i \in 1 .. n : text[i] = lines[i]
          /\ \A i \in n + 1 .. n + 2 : text[i] = end[i - n]
      BY <1>0
    <2>2. /\ n + 1 \in n + 1 .. n + 2 /\ (n + 1) - n = 1
          /\ n + 2 \in n + 1 .. n + 2 /\ (n + 2) - n = 2
      BY <1>2
    <2>. QED  BY <1>3, <2>1, <2>2
  <1>5. text[n - 1] = "CR" /\ text[n] = "LF"
    <2>1. n - 1 \in 1 .. n /\ n \in 1 .. n
      BY <1>2
    <2>. QED  BY <1>2, <1>4, <2>1
  <1> DEFINE last == SubSeq(text, (n + 2) - 3, n + 2)
  <1>6. last = <<"CR", "LF", "CR", "LF">>
    <2> DEFINE seen == <<"CR", "LF", "CR", "LF">>
    <2>1. (n + 2) - 3 = n - 1
      BY <1>2
    <2>2. /\ last \in Seq(Symbols) /\ Len(last) = 4
          /\ \A i \in 1 .. 4 : last[i] = text[(n - 1) + i - 1]
      <3> DEFINE m == n - 1
      <3>1. m \in 1 .. Len(text) + 1 /\ m <= n + 2 /\ n + 2 \in m - 1 .. Len(text)
            /\ (n + 2) - m + 1 = 4
        BY <1>2, <1>4
      <3>2. last = SubSeq(text, m, n + 2)
        BY <2>1
      <3> HIDE DEF last, m
      <3>3. /\ SubSeq(text, m, n + 2) \in Seq(Symbols)
            /\ Len(SubSeq(text, m, n + 2)) = (n + 2) - m + 1
            /\ \A i \in 1 .. (n + 2) - m + 1 : SubSeq(text, m, n + 2)[i] = text[m + i - 1]
        BY <1>4, <3>1, SubSeqProperties
      <3>. QED  BY <3>1, <3>2, <3>3 DEF m
    <2>3. seen \in Seq(Symbols) /\ Len(seen) = 4
          /\ seen[1] = "CR" /\ seen[2] = "LF" /\ seen[3] = "CR" /\ seen[4] = "LF"
      BY DEF Symbols
    <2>4. /\ (n - 1) + 1 - 1 = n - 1 /\ (n - 1) + 2 - 1 = n
          /\ (n - 1) + 3 - 1 = n + 1 /\ (n - 1) + 4 - 1 = n + 2
      BY <1>2
    <2> HIDE DEF last, seen
    <2>5. last[1] = seen[1] /\ last[2] = seen[2] /\ last[3] = seen[3] /\ last[4] = seen[4]
      <3>1. 1 \in 1 .. 4 /\ 2 \in 1 .. 4 /\ 3 \in 1 .. 4 /\ 4 \in 1 .. 4
        OBVIOUS
      <3>. QED  BY <1>4, <1>5, <2>2, <2>3, <2>4, <3>1, Zenon
    <2>6. \A i \in 1 .. 4 : i = 1 \/ i = 2 \/ i = 3 \/ i = 4
      OBVIOUS
    <2>7. last = seen
      BY <2>2, <2>3, <2>5, <2>6, SeqEqual
    <2>. QED  BY <2>7 DEF seen
  <1> HIDE DEF last
  <1>7. Last(text) # "NUL" /\ Len(text) >= 4
    BY <1>2, <1>4 DEF Last
  <1>8. SubSeq(text, Len(text) - 3, Len(text)) = last
    BY <1>4 DEF last
  <1>9. is_http_end(text)
    BY <1>6, <1>7, <1>8, Zenon DEF is_http_end
  <1>. QED  BY <1>9 DEF text

-----------------------------------------------------------------------------
(* What was received is the beginning of what the client sends. *)
RequestInv == /\ meant \in Requests
              /\ \E k \in 0 .. Len(RequestText(meant)) : buf = Sent(meant, k)

(* Nothing has been received at first. *)
LEMMA StartsEmpty == RequestInit => RequestInv
  <1> SUFFICES ASSUME RequestInit
               PROVE  RequestInv
    OBVIOUS
  <1>1. meant \in Requests /\ buf = <<>>
    BY DEF RequestInit
  <1>2. Len(RequestText(meant)) \in Nat
    BY <1>1, SentIs
  <1>3. 0 \in 0 .. Len(RequestText(meant))
    BY <1>2
  <1>4. Sent(meant, 0) \in Seq(Symbols) /\ Len(Sent(meant, 0)) = 0
    BY <1>1, <1>3, SentIs
  <1>5. Sent(meant, 0) = <<>>
    BY <1>4, EmptySeq
  <1>. QED  BY <1>1, <1>3, <1>5 DEF RequestInv

(* What a call of recv adds is what the client sends next. *)
LEMMA ReceivesMore ==
    ASSUME RequestInv, NEW n \in 1 .. Len(Rest), Receive(SubSeq(Rest, 1, n))
    PROVE  RequestInv'
  <1> DEFINE text == RequestText(meant)
  <1>1. PICK k \in 0 .. Len(text) : buf = Sent(meant, k)
    BY DEF RequestInv
  <1>2. /\ meant \in Requests /\ meant' = meant
        /\ buf' = buf \o SubSeq(Rest, 1, n)
    BY DEF RequestInv, Receive, Complete
  <1>3. /\ text \in Seq(Symbols) /\ Len(text) \in Nat
        /\ buf \in Seq(Symbols) /\ Len(buf) = k
        /\ \A i \in 1 .. k : buf[i] = text[i]
    BY <1>1, <1>2, SentIs
  <1> DEFINE rest == SubSeq(text, k + 1, Len(text))
             part == SubSeq(rest, 1, n)
             m == k + n
  <1>4. Rest = rest
    BY <1>3 DEF Rest
  <1> HIDE DEF text
  <1>5. /\ rest \in Seq(Symbols) /\ Len(rest) = Len(text) - k
        /\ \A i \in 1 .. Len(text) - k : rest[i] = text[k + i]
    <2>1. /\ rest \in Seq(Symbols)
          /\ Len(rest) = IF k + 1 <= Len(text) THEN Len(text) - (k + 1) + 1 ELSE 0
          /\ \A i \in 1 .. Len(text) - (k + 1) + 1 : rest[i] = text[(k + 1) + i - 1]
      BY <1>3, SubSeqProperties
    <2> HIDE DEF rest
    <2>2. \A i \in 1 .. Len(text) - k : (k + 1) + i - 1 = k + i
      BY <1>3
    <2>. QED  BY <1>3, <2>1, <2>2
  <1>6. n \in 1 .. Len(text) - k
    BY <1>4, <1>5
  <1> HIDE DEF rest
  <1>7. /\ part \in Seq(Symbols) /\ Len(part) = n
        /\ \A i \in 1 .. n : part[i] = rest[i]
    BY <1>3, <1>5, <1>6, SubSeqProperties
  <1> HIDE DEF part
  <1>8. m \in 0 .. Len(text)
    BY <1>3, <1>6
  <1>9. /\ buf \o part \in Seq(Symbols) /\ Len(buf \o part) = m
        /\ \A i \in 1 .. m : (buf \o part)[i] = IF i <= k THEN buf[i] ELSE part[i - k]
    BY <1>3, <1>6, <1>7, ConcatProperties
  <1>10. \A i \in 1 .. m : (buf \o part)[i] = text[i]
    <2> SUFFICES ASSUME NEW i \in 1 .. m
                 PROVE  (buf \o part)[i] = text[i]
      OBVIOUS
    <2>1. CASE i <= k
      BY <1>3, <1>6, <1>9, <2>1
    <2>2. CASE i > k
      <3> DEFINE j == i - k
      <3>1. (buf \o part)[i] = part[j]
        BY <1>3, <1>6, <1>9, <2>2
      <3>2. j \in 1 .. n /\ i = k + j
        BY <1>3, <1>6, <2>2
      <3> HIDE DEF j
      <3>3. j \in 1 .. Len(text) - k
        BY <1>3, <1>6, <3>2
      <3>4. part[j] = rest[j]
        BY <1>7, <3>2
      <3>5. rest[j] = text[k + j]
        BY <1>5, <3>3
      <3>6. text[k + j] = text[i]
        BY <3>2
      <3>. QED  BY <3>1, <3>4, <3>5, <3>6
    <2>3. i <= k \/ i > k
      BY <1>3, <1>6
    <2>. QED  BY <2>1, <2>2, <2>3, Zenon
  <1>11. buf \o part = Sent(meant, m)
    <2>1. /\ Sent(meant, m) \in Seq(Symbols) /\ Len(Sent(meant, m)) = m
          /\ \A i \in 1 .. m : Sent(meant, m)[i] = text[i]
      BY <1>2, <1>8, SentIs DEF text
    <2> DEFINE a == buf \o part
               c == Sent(meant, m)
    <2>2. a \in Seq(Symbols) /\ c \in Seq(Symbols) /\ Len(a) = Len(c)
          /\ \A i \in 1 .. Len(a) : a[i] = c[i]
      BY <1>9, <1>10, <2>1
    <2> HIDE DEF a, c
    <2>3. a = c
      BY <2>2, SeqEqual
    <2>. QED  BY <2>3 DEF a, c
  <1>12. buf' = Sent(meant, m)
    BY <1>2, <1>4, <1>11 DEF part
  <1>. QED  BY <1>2, <1>8, <1>12 DEF RequestInv, text

(* No step makes anything of what was received but its continuation. *)
LEMMA RequestStep ==
    ASSUME RequestInv, [RequestNext]_requestVars
    PROVE  RequestInv'
  <1>1. CASE \E n \in 1 .. Len(Rest) : Receive(SubSeq(Rest, 1, n))
    BY <1>1, ReceivesMore
  <1>2. CASE Eof \/ UNCHANGED requestVars
    <2>1. UNCHANGED <<meant, buf>>
      BY <1>2 DEF Eof, Complete, requestVars
    <2>. QED  BY <2>1 DEF RequestInv
  <1>. QED  BY <1>1, <1>2 DEF RequestNext

(* What read_request has collected in the buffer of a connection is the    *)
(* beginning of one request of its client, in its order and with nothing   *)
(* missing, after each recv and whatever it returned (mimino.c:250-286).   *)
THEOREM RequestInvariant == RequestSpec => []RequestInv
  BY StartsEmpty, RequestStep, PTL DEF RequestSpec

(* A request that its client has not ended is parsed only when all of it   *)
(* has arrived, however recv cuts it into parts: is_http_end finds a       *)
(* blank line nowhere but at its end (http.c:41-59).                       *)
THEOREM ParsedAtItsEnd == RequestSpec => NotBeforeTheEnd
  <1> DEFINE Step == state = "READING" /\ state' = "WRITING_HEADERS" /\ buf' # buf
                        => buf' = RequestText(meant)
  <1>1. ASSUME RequestInv, RequestInv', [RequestNext]_requestVars
        PROVE  [Step]_requestVars
    <2> SUFFICES ASSUME state = "READING", state' = "WRITING_HEADERS", buf' # buf
                 PROVE  buf' = RequestText(meant)
      OBVIOUS
    <2>1. PICK n : Receive(SubSeq(Rest, 1, n))
      BY <1>1 DEF RequestNext, Eof, requestVars
    <2>2. is_http_end(buf') /\ meant' = meant
      BY <2>1 DEF Receive, Complete
    <2>3. PICK k \in 0 .. Len(RequestText(meant)) : buf' = Sent(meant, k)
      BY <1>1, <2>2 DEF RequestInv
    <2>4. k = Len(RequestText(meant))
      BY <1>1, <2>2, <2>3, EndsOnlyThere DEF RequestInv
    <2>. QED  BY <1>1, <2>3, <2>4, SentIs DEF RequestInv
  <1>2. RequestSpec => [][Step]_requestVars
    BY <1>1, RequestInvariant, PTL DEF RequestSpec
  <1>. QED  BY <1>2 DEF NotBeforeTheEnd

-----------------------------------------------------------------------------
(* What stands where in a request: its request line, then its headers,    *)
(* then the blank line.                                                    *)

(* Where the symbols of two texts are when they are joined. *)
LEMMA JoinPlaces ==
    ASSUME NEW s \in Seq(Symbols), NEW t \in Seq(Symbols)
    PROVE  /\ s \o t \in Seq(Symbols)
           /\ Len(s) \in Nat /\ Len(t) \in Nat
           /\ Len(s \o t) = Len(s) + Len(t)
           /\ \A i \in 1 .. Len(s) : (s \o t)[i] = s[i]
           /\ \A i \in 1 .. Len(t) : (s \o t)[Len(s) + i] = t[i]
  <1> DEFINE S == Symbols
  <1>1. s \in Seq(S) /\ t \in Seq(S)
    OBVIOUS
  <1> HIDE DEF S
  <1>2. /\ s \o t \in Seq(S)
        /\ Len(s) \in Nat /\ Len(t) \in Nat
        /\ Len(s \o t) = Len(s) + Len(t)
        /\ \A i \in 1 .. Len(s) : (s \o t)[i] = s[i]
        /\ \A i \in 1 .. Len(t) : (s \o t)[Len(s) + i] = t[i]
    BY <1>1, JoinedPlaces
  <1>. QED  BY <1>2 DEF S

(* Where a header's line has its parts. *)
LEMMA LinePlaces ==
    ASSUME NEW h \in Header
    PROVE  /\ Line(h) \in Seq(Symbols)
           /\ h.name \in Seq(Symbols) /\ h.value \in Seq(Symbols)
           /\ Len(h.name) \in Nat /\ Len(h.value) \in Nat
           /\ Len(Line(h)) = Len(h.name) + Len(h.value) + 4
           /\ \A i \in 1 .. Len(h.name) : Line(h)[i] = h.name[i]
           /\ Line(h)[Len(h.name) + 1] = ":"
           /\ Line(h)[Len(h.name) + 2] = " "
           /\ \A i \in 1 .. Len(h.value) : Line(h)[Len(h.name) + 2 + i] = h.value[i]
           /\ Line(h)[Len(h.name) + 2 + Len(h.value) + 1] = "CR"
           /\ Line(h)[Len(h.name) + 2 + Len(h.value) + 2] = "LF"
  <1> DEFINE name == h.name
             value == h.value
             colon == <<":", " ">>
             end == <<"CR", "LF">>
             s == name \o colon
             t == s \o value
             l == t \o end
             a == Len(name)
             b == Len(value)
  <1>1. name \in Seq(Symbols) /\ value \in Seq(Symbols)
    <2>1. h.name \in Seq(NameChar) /\ h.value \in Seq(InLine)
      BY DEF Header
    <2>2. NameChar \subseteq Symbols /\ InLine \subseteq Symbols
      BY DEF Symbols
    <2>. QED  BY <2>1, <2>2, SeqMonotonic
  <1>2. /\ colon \in Seq(Symbols) /\ Len(colon) = 2
        /\ colon[1] = ":" /\ colon[2] = " "
    BY DEF Symbols
  <1>3. /\ end \in Seq(Symbols) /\ Len(end) = 2
        /\ end[1] = "CR" /\ end[2] = "LF"
    BY DEF Symbols
  <1>4. Line(h) = l
    BY DEF Line
  <1> HIDE DEF name, value, colon, end
  <1>5. /\ s \in Seq(Symbols) /\ a \in Nat /\ Len(s) = a + 2
        /\ \A i \in 1 .. a : s[i] = name[i]
        /\ s[a + 1] = ":" /\ s[a + 2] = " "
    <2>1. /\ s \in Seq(Symbols) /\ a \in Nat /\ Len(s) = a + Len(colon)
          /\ \A i \in 1 .. a : s[i] = name[i]
          /\ \A i \in 1 .. Len(colon) : s[a + i] = colon[i]
      BY <1>1, <1>2, JoinPlaces, Zenon
    <2> HIDE DEF s, a
    <2>2. s[a + 1] = colon[1] /\ s[a + 2] = colon[2]
      <3>1. Len(colon) = 2 => 1 \in 1 .. Len(colon) /\ 2 \in 1 .. Len(colon)
        OBVIOUS
      <3>. QED  BY <1>2, <2>1, <3>1, Zenon
    <2>3. Len(s) = a + 2
      BY <1>2, <2>1
    <2>. QED  BY <1>2, <2>1, <2>2, <2>3, Zenon
  <1> HIDE DEF s
  <1>6. /\ t \in Seq(Symbols) /\ b \in Nat /\ Len(t) = a + 2 + b
        /\ \A i \in 1 .. a + 2 : t[i] = s[i]
        /\ \A i \in 1 .. b : t[a + 2 + i] = value[i]
    <2>1. /\ t \in Seq(Symbols) /\ b \in Nat /\ Len(t) = Len(s) + b
          /\ \A i \in 1 .. Len(s) : t[i] = s[i]
          /\ \A i \in 1 .. b : t[Len(s) + i] = value[i]
      BY <1>1, <1>5, JoinPlaces, Zenon
    <2> HIDE DEF t, a, b
    <2>. QED  BY <1>5, <2>1
  <1> HIDE DEF t
  <1>7. /\ l \in Seq(Symbols) /\ Len(l) = a + 2 + b + 2
        /\ \A i \in 1 .. a + 2 + b : l[i] = t[i]
        /\ l[a + 2 + b + 1] = "CR" /\ l[a + 2 + b + 2] = "LF"
    <2>1. /\ l \in Seq(Symbols) /\ Len(l) = Len(t) + Len(end)
          /\ \A i \in 1 .. Len(t) : l[i] = t[i]
          /\ \A i \in 1 .. Len(end) : l[Len(t) + i] = end[i]
      BY <1>3, <1>6, JoinPlaces, Zenon
    <2> HIDE DEF l, a, b
    <2>2. l[Len(t) + 1] = "CR" /\ l[Len(t) + 2] = "LF"
      BY <1>3, <2>1
    <2>. QED  BY <1>3, <1>6, <2>1, <2>2
  <1>0. a \in Nat /\ b \in Nat
    BY <1>5, <1>6
  <1> HIDE DEF l, a, b
  <1>8. ASSUME NEW i \in 1 .. a
        PROVE  l[i] = name[i]
    <2>1. i \in 1 .. a + 2 /\ i \in 1 .. a + 2 + b
      BY <1>0
    <2>. QED  BY <1>5, <1>6, <1>7, <2>1
  <1>9. l[a + 1] = ":" /\ l[a + 2] = " "
    <2>1. /\ a + 1 \in 1 .. a + 2 /\ a + 1 \in 1 .. a + 2 + b
          /\ a + 2 \in 1 .. a + 2 /\ a + 2 \in 1 .. a + 2 + b
      BY <1>0
    <2>. QED  BY <1>5, <1>6, <1>7, <2>1
  <1>10. ASSUME NEW i \in 1 .. b
         PROVE  l[a + 2 + i] = value[i]
    <2>1. a + 2 + i \in 1 .. a + 2 + b
      BY <1>0
    <2>. QED  BY <1>6, <1>7, <2>1
  <1>11. a + 2 + b + 2 = a + b + 4
    BY <1>0
  <1>. QED  BY <1>1, <1>4, <1>5, <1>6, <1>7, <1>8, <1>9, <1>10, <1>11 DEF name, value, a, b

(* Where the request line has its parts. *)
LEMMA RequestLinePlaces ==
    ASSUME NEW r \in Requests
    PROVE  /\ RequestLine(r) \in Seq(Symbols)
           /\ r.method \in Seq(Upper) /\ r.method \in Seq(Symbols)
           /\ r.path \in Seq(PathChar) /\ r.path \in Seq(Symbols)
           /\ Len(r.method) \in Nat \ {0} /\ Len(r.path) \in Nat \ {0}
           /\ Len(RequestLine(r)) = Len(r.method) + 1 + Len(r.path) + 8
           /\ \A i \in 1 .. Len(r.method) : RequestLine(r)[i] = r.method[i]
           /\ RequestLine(r)[Len(r.method) + 1] = " "
           /\ \A i \in 1 .. Len(r.path) : RequestLine(r)[Len(r.method) + 1 + i] = r.path[i]
           /\ \A i \in 1 .. 8 :
                 RequestLine(r)[Len(r.method) + 1 + Len(r.path) + i] =
                     <<" ", "HTTP", "/", "1", ".", "1", "CR", "LF">>[i]
  <1> DEFINE m == r.method
             p == r.path
             space == <<" ">>
             end == <<" ", "HTTP", "/", "1", ".", "1", "CR", "LF">>
             s == m \o space
             t == s \o p
             l == t \o end
             a == Len(m)
             b == Len(p)
  <1>1. /\ m \in Seq(Symbols) /\ p \in Seq(Symbols)
        /\ m \in Seq(Upper) /\ p \in Seq(PathChar) /\ m # <<>> /\ p # <<>>
    <2>1. Upper \subseteq Symbols /\ PathChar \subseteq Symbols
      BY DEF Symbols, PathChar, Alpha
    <2>. QED  BY <2>1, RequestAssumption, SeqMonotonic
  <1>2. space \in Seq(Symbols) /\ Len(space) = 1 /\ space[1] = " "
    BY DEF Symbols
  <1>3. end \in Seq(Symbols) /\ Len(end) = 8
    BY DEF Symbols, PathChar, Alpha, Digit, Upper
  <1>4. RequestLine(r) = l
    BY DEF RequestLine
  <1> HIDE DEF m, p, space, end
  <1>5. /\ s \in Seq(Symbols) /\ a \in Nat /\ Len(s) = a + 1
        /\ \A i \in 1 .. a : s[i] = m[i]
        /\ s[a + 1] = " "
    <2>1. /\ s \in Seq(Symbols) /\ a \in Nat /\ Len(s) = a + Len(space)
          /\ \A i \in 1 .. a : s[i] = m[i]
          /\ \A i \in 1 .. Len(space) : s[a + i] = space[i]
      BY <1>1, <1>2, JoinPlaces, Zenon
    <2> HIDE DEF s, a
    <2>2. s[a + 1] = space[1]
      <3>1. Len(space) = 1 => 1 \in 1 .. Len(space)
        OBVIOUS
      <3>. QED  BY <1>2, <2>1, <3>1, Zenon
    <2>3. Len(s) = a + 1
      BY <1>2, <2>1
    <2>. QED  BY <1>2, <2>1, <2>2, <2>3, Zenon
  <1> HIDE DEF s
  <1>6. /\ t \in Seq(Symbols) /\ b \in Nat /\ Len(t) = a + 1 + b
        /\ \A i \in 1 .. a + 1 : t[i] = s[i]
        /\ \A i \in 1 .. b : t[a + 1 + i] = p[i]
    <2>1. /\ t \in Seq(Symbols) /\ b \in Nat /\ Len(t) = Len(s) + b
          /\ \A i \in 1 .. Len(s) : t[i] = s[i]
          /\ \A i \in 1 .. b : t[Len(s) + i] = p[i]
      BY <1>1, <1>5, JoinPlaces, Zenon
    <2> HIDE DEF t, a, b
    <2>. QED  BY <1>5, <2>1
  <1> HIDE DEF t
  <1>7. /\ l \in Seq(Symbols) /\ Len(l) = a + 1 + b + 8
        /\ \A i \in 1 .. a + 1 + b : l[i] = t[i]
        /\ \A i \in 1 .. 8 : l[a + 1 + b + i] = end[i]
    <2>1. /\ l \in Seq(Symbols) /\ Len(l) = Len(t) + Len(end)
          /\ \A i \in 1 .. Len(t) : l[i] = t[i]
          /\ \A i \in 1 .. Len(end) : l[Len(t) + i] = end[i]
      BY <1>3, <1>6, JoinPlaces, Zenon
    <2> HIDE DEF l, a, b
    <2>. QED  BY <1>3, <1>6, <2>1
  <1>8. a \in Nat \ {0} /\ b \in Nat \ {0}
    BY <1>1, <1>5, <1>6, EmptySeq
  <1>0. a \in Nat /\ b \in Nat
    BY <1>8
  <1> HIDE DEF l, a, b
  <1>9. ASSUME NEW i \in 1 .. a
        PROVE  l[i] = m[i]
    <2>1. i \in 1 .. a + 1 /\ i \in 1 .. a + 1 + b
      BY <1>0
    <2>. QED  BY <1>5, <1>6, <1>7, <2>1
  <1>10. l[a + 1] = " "
    <2>1. a + 1 \in 1 .. a + 1 /\ a + 1 \in 1 .. a + 1 + b
      BY <1>0
    <2>. QED  BY <1>5, <1>6, <1>7, <2>1
  <1>11. ASSUME NEW i \in 1 .. b
         PROVE  l[a + 1 + i] = p[i]
    <2>1. a + 1 + i \in 1 .. a + 1 + b
      BY <1>0
    <2>. QED  BY <1>6, <1>7, <2>1
  <1>. QED  BY <1>1, <1>4, <1>7, <1>8, <1>9, <1>10, <1>11 DEF m, p, a, b, end

(* Where the m-th of some lines starts when all of them are joined. *)
Before(lines, m) == Len(FlattenSeq(SubSeq(lines, 1, m - 1)))
InPlace(lines) ==
    /\ Before(lines, 1) = 0
    /\ Before(lines, Len(lines) + 1) = Len(FlattenSeq(lines))
    /\ \A m \in 1 .. Len(lines) :
          /\ Before(lines, m) \in Nat
          /\ Before(lines, m + 1) = Before(lines, m) + Len(lines[m])
          /\ Before(lines, m + 1) <= Len(FlattenSeq(lines))
          /\ \A j \in 1 .. Len(lines[m]) : FlattenSeq(lines)[Before(lines, m) + j] = lines[m][j]

(* By induction over the lines. *)
LEMMA LinesInPlace ==
    ASSUME NEW lines \in Seq(Seq(Symbols))
    PROVE  InPlace(lines)
  <1> DEFINE T == {q \in Seq(Seq(Symbols)) : InPlace(q)}
  <1>1. <<>> \in T
    <2>1. FlattenSeq(<<>>) = <<>> /\ Len(<<>>) = 0
      BY DEF FlattenSeq
    <2>2. SubSeq(<<>>, 1, 0) = <<>>
      OBVIOUS
    <2>3. Before(<<>>, 1) = 0
      <3>1. 1 - 1 = 0
        OBVIOUS
      <3>. QED  BY <2>1, <2>2, <3>1, Zenon DEF Before
    <2>4. <<>> \in Seq(Seq(Symbols))
      BY EmptySeq
    <2>5. Before(<<>>, Len(<<>>) + 1) = Len(FlattenSeq(<<>>))
      BY <2>1, <2>3
    <2>6. \A m \in 1 .. Len(<<>>) : FALSE
      BY <2>1
    <2>7. InPlace(<<>>)
      BY <2>3, <2>5, <2>6, Zenon DEF InPlace
    <2>. QED  BY <2>4, <2>7
  <1>2. ASSUME NEW q \in Seq(Seq(Symbols)), NEW line \in Seq(Symbols), q \in T
        PROVE  Append(q, line) \in T
    <2> DEFINE n == Len(q)
               p == Append(q, line)
               flat == FlattenSeq(q)
    <2>1. InPlace(q)
      BY <1>2
    <2>2. /\ n \in Nat /\ p \in Seq(Seq(Symbols)) /\ Len(p) = n + 1
          /\ p[n + 1] = line /\ \A i \in 1 .. n : p[i] = q[i]
      BY AppendProperties
    <2>3. flat \in Seq(Symbols) /\ FlattenSeq(p) = flat \o line
      BY FlattenAppend, FlattensOneByOne
    <2>4. /\ Len(flat) \in Nat /\ Len(line) \in Nat
          /\ Len(FlattenSeq(p)) = Len(flat) + Len(line)
          /\ \A i \in 1 .. Len(flat) : FlattenSeq(p)[i] = flat[i]
          /\ \A i \in 1 .. Len(line) : FlattenSeq(p)[Len(flat) + i] = line[i]
      BY <2>3, JoinPlaces
    <2> HIDE DEF n, p
    <2>5. ASSUME NEW m \in 1 .. n + 1
          PROVE  Before(p, m) = Before(q, m)
      <3>1. m - 1 \in 0 .. n /\ 1 \in 1 .. m
        BY <2>2
      <3>2. /\ SubSeq(p, 1, m - 1) \in Seq(Seq(Symbols)) /\ Len(SubSeq(p, 1, m - 1)) = m - 1
            /\ \A i \in 1 .. m - 1 : SubSeq(p, 1, m - 1)[i] = p[i]
        BY <2>2, <3>1, SubSeqProperties
      <3>3. /\ SubSeq(q, 1, m - 1) \in Seq(Seq(Symbols)) /\ Len(SubSeq(q, 1, m - 1)) = m - 1
            /\ \A i \in 1 .. m - 1 : SubSeq(q, 1, m - 1)[i] = q[i]
        BY <2>2, <3>1, SubSeqProperties DEF n
      <3> DEFINE a == SubSeq(p, 1, m - 1)
                 b == SubSeq(q, 1, m - 1)
      <3>4. \A i \in 1 .. m - 1 : i \in 1 .. n
        BY <2>2
      <3>5. /\ a \in Seq(Seq(Symbols)) /\ b \in Seq(Seq(Symbols)) /\ Len(a) = Len(b)
            /\ \A i \in 1 .. Len(a) : a[i] = b[i]
        BY <2>2, <3>2, <3>3, <3>4
      <3> HIDE DEF a, b
      <3>6. a = b
        BY <3>5, SeqEqual
      <3>. QED  BY <3>6 DEF Before, a, b
    <2>6. Before(q, n + 1) = Len(flat) /\ Before(q, 1) = 0
      BY <2>1 DEF InPlace, n
    <2>7. Before(p, n + 2) = Len(FlattenSeq(p))
      <3>1. SubSeq(p, 1, n + 1) = p
        <4>1. /\ SubSeq(p, 1, n + 1) \in Seq(Seq(Symbols)) /\ Len(SubSeq(p, 1, n + 1)) = n + 1
              /\ \A i \in 1 .. n + 1 : SubSeq(p, 1, n + 1)[i] = p[i]
          BY <2>2, SubSeqProperties
        <4>. QED  BY <2>2, <4>1, SeqEqual
      <3>2. (n + 2) - 1 = n + 1
        BY <2>2
      <3>. QED  BY <3>1, <3>2 DEF Before
    <2>8. Before(p, 1) = 0
      BY <2>2, <2>5, <2>6
    <2>9. ASSUME NEW m \in 1 .. n
          PROVE  /\ Before(p, m) \in Nat
                 /\ Before(p, m + 1) = Before(p, m) + Len(p[m])
                 /\ Before(p, m + 1) <= Len(FlattenSeq(p))
                 /\ \A j \in 1 .. Len(p[m]) : FlattenSeq(p)[Before(p, m) + j] = p[m][j]
      <3>1. /\ Before(q, m) \in Nat /\ Before(q, m + 1) = Before(q, m) + Len(q[m])
            /\ Before(q, m + 1) <= Len(flat)
            /\ \A j \in 1 .. Len(q[m]) : flat[Before(q, m) + j] = q[m][j]
        BY <2>1 DEF InPlace, n
      <3>2. Before(p, m) = Before(q, m) /\ Before(p, m + 1) = Before(q, m + 1) /\ p[m] = q[m]
        BY <2>2, <2>5
      <3>3. q[m] \in Seq(Symbols) /\ Len(q[m]) \in Nat
        BY <2>2 DEF n
      <3>4. ASSUME NEW j \in 1 .. Len(q[m])
            PROVE  FlattenSeq(p)[Before(q, m) + j] = q[m][j]
        <4>1. Before(q, m) + j \in 1 .. Len(flat)
          <5> DEFINE x == Before(q, m)
                     y == Len(q[m])
                     z == Len(flat)
          <5>1. x \in Nat /\ y \in Nat /\ z \in Nat /\ x + y <= z /\ j \in 1 .. y
            BY <2>4, <3>1, <3>3
          <5> HIDE DEF x, y, z
          <5>2. x + j \in 1 .. z
            BY <5>1
          <5>. QED  BY <5>2 DEF x, z
        <4>. QED  BY <2>4, <3>1, <4>1
      <3>. QED  BY <2>4, <3>1, <3>2, <3>3, <3>4
    <2>10. /\ Before(p, n + 1) \in Nat
           /\ Before(p, (n + 1) + 1) = Before(p, n + 1) + Len(p[n + 1])
           /\ Before(p, (n + 1) + 1) <= Len(FlattenSeq(p))
           /\ \A j \in 1 .. Len(p[n + 1]) :
                 FlattenSeq(p)[Before(p, n + 1) + j] = p[n + 1][j]
      <3>1. Before(p, n + 1) = Len(flat)
        BY <2>2, <2>5, <2>6
      <3>2. (n + 1) + 1 = n + 2
        BY <2>2
      <3>3. Before(p, (n + 1) + 1) = Len(FlattenSeq(p))
        BY <2>7, <3>2
      <3>4. p[n + 1] = line
        BY <2>2
      <3>5. Len(FlattenSeq(p)) <= Len(FlattenSeq(p))
        BY <2>4
      <3>. QED  BY <2>4, <3>1, <3>3, <3>4, <3>5, Zenon
    <2>11. InPlace(p)
      <3>1. Before(p, Len(p) + 1) = Len(FlattenSeq(p))
        <4>1. Len(p) + 1 = n + 2
          BY <2>2
        <4>. QED  BY <2>7, <4>1
      <3>2. \A m \in 1 .. Len(p) : m \in 1 .. n \/ m = n + 1
        BY <2>2
      <3>3. ASSUME NEW m \in 1 .. Len(p)
            PROVE  /\ Before(p, m) \in Nat
                   /\ Before(p, m + 1) = Before(p, m) + Len(p[m])
                   /\ Before(p, m + 1) <= Len(FlattenSeq(p))
                   /\ \A j \in 1 .. Len(p[m]) : FlattenSeq(p)[Before(p, m) + j] = p[m][j]
        <4>1. CASE m \in 1 .. n
          BY <2>9, <4>1
        <4>2. CASE m = n + 1
          BY <2>10, <4>2, Zenon
        <4>. QED  BY <3>2, <4>1, <4>2
      <3>. QED  BY <2>8, <3>1, <3>3 DEF InPlace
    <2>. QED  BY <2>2, <2>11 DEF p
  <1> HIDE DEF T
  <1>3. Seq(Seq(Symbols)) \subseteq T
    BY <1>1, <1>2, SeqInduction
  <1>. QED  BY <1>3 DEF T

(* How many symbols of a request are before its m-th header. *)
Lines(r) == [i \in DOMAIN r.headers |-> Line(r.headers[i])]
Ahead(r, m) == Len(RequestLine(r)) + Before(Lines(r), m)

(* The request line begins the text, header m follows what is ahead of     *)
(* it, and the blank line follows all of them.                             *)
LEMMA TextPlaces ==
    ASSUME NEW r \in Requests
    PROVE  /\ r.headers \in Seq(Header) /\ Len(r.headers) \in Nat
           /\ RequestText(r) \in Seq(Symbols)
           /\ \A i \in 1 .. Len(RequestLine(r)) : RequestText(r)[i] = RequestLine(r)[i]
           /\ Ahead(r, 1) = Len(RequestLine(r))
           /\ Ahead(r, Len(r.headers) + 1) \in Nat
           /\ \A m \in 1 .. Len(r.headers) :
                 /\ Ahead(r, m) \in Nat /\ Ahead(r, m + 1) \in Nat
                 /\ Ahead(r, m + 1) = Ahead(r, m) + Len(Line(r.headers[m]))
                 /\ Ahead(r, m + 1) <= Ahead(r, Len(r.headers) + 1)
                 /\ \A i \in 1 .. Len(Line(r.headers[m])) :
                       RequestText(r)[Ahead(r, m) + i] = Line(r.headers[m])[i]
           /\ Len(RequestText(r)) = Ahead(r, Len(r.headers) + 1) + 2
           /\ RequestText(r)[Ahead(r, Len(r.headers) + 1) + 1] = "CR"
           /\ RequestText(r)[Ahead(r, Len(r.headers) + 1) + 2] = "LF"
  <1> DEFINE hs == r.headers
             n == Len(hs)
             ls == Lines(r)
             first == RequestLine(r)
             flat == FlattenSeq(ls)
             end == <<"CR", "LF">>
             s == first \o flat
             t == s \o end
             L == Len(first)
  <1>1. hs \in Seq(Header) /\ n \in Nat /\ DOMAIN hs = 1 .. n
    BY RequestAssumption
  <1>2. first \in Seq(Symbols) /\ L \in Nat
    <2>1. first \in Seq(Symbols)
      BY RequestLinePlaces
    <2> HIDE DEF first
    <2>. QED  BY <2>1
  <1>3. /\ ls \in Seq(Seq(Symbols)) /\ Len(ls) = n
        /\ \A m \in 1 .. n : ls[m] = Line(hs[m]) /\ Line(hs[m]) \in Seq(Symbols)
    <2>1. ASSUME NEW m \in 1 .. n
          PROVE  Line(hs[m]) \in Seq(Symbols)
      <3>1. hs[m] \in Header
        BY <1>1
      <3>. QED  BY <3>1, LinePlaces
    <2>2. ls = [m \in 1 .. n |-> Line(hs[m])]
      BY <1>1 DEF Lines
    <2> HIDE DEF hs, n, ls
    <2>. QED  BY <1>1, <2>1, <2>2
  <1>4. InPlace(ls) /\ flat \in Seq(Symbols)
    BY <1>3, LinesInPlace, FlattensOneByOne
  <1>5. /\ end \in Seq(Symbols) /\ Len(end) = 2 /\ end[1] = "CR" /\ end[2] = "LF"
    BY DEF Symbols
  <1>6. RequestText(r) = t
    BY DEF RequestText, Lines
  <1>7. \A m : Ahead(r, m) = L + Before(ls, m)
    BY DEF Ahead
  <1> HIDE DEF hs, ls, first, flat, end
  <1>8. /\ s \in Seq(Symbols) /\ Len(flat) \in Nat /\ Len(s) = L + Len(flat)
        /\ \A i \in 1 .. L : s[i] = first[i]
        /\ \A i \in 1 .. Len(flat) : s[L + i] = flat[i]
    BY <1>2, <1>4, JoinPlaces, Zenon
  <1> HIDE DEF s
  <1>9. /\ t \in Seq(Symbols) /\ Len(t) = Len(s) + Len(end)
        /\ \A i \in 1 .. Len(s) : t[i] = s[i]
        /\ \A i \in 1 .. Len(end) : t[Len(s) + i] = end[i]
    BY <1>5, <1>8, JoinPlaces, Zenon
  <1> HIDE DEF t, n, L
  <1>10. Len(flat) = Before(ls, n + 1) /\ Before(ls, 1) = 0
    BY <1>3, <1>4, Zenon DEF InPlace, flat
  <1>11. /\ Ahead(r, n + 1) = Len(s) /\ Len(s) \in Nat /\ Len(t) = Len(s) + 2
         /\ Ahead(r, 1) = L
    <2>1. Ahead(r, n + 1) = L + Len(flat) /\ Ahead(r, 1) = L + 0
      BY <1>7, <1>10, Zenon
    <2>2. Len(s) = L + Len(flat) /\ Len(flat) \in Nat
      BY <1>8
    <2>3. Len(t) = Len(s) + 2
      BY <1>5, <1>9, Zenon
    <2>. QED  BY <1>2, <2>1, <2>2, <2>3
  <1>12. t[Len(s) + 1] = "CR" /\ t[Len(s) + 2] = "LF"
    <2>1. Len(end) = 2 => 1 \in 1 .. Len(end) /\ 2 \in 1 .. Len(end)
      OBVIOUS
    <2>. QED  BY <1>5, <1>9, <2>1, Zenon
  <1>13. ASSUME NEW i \in 1 .. L
         PROVE  t[i] = first[i]
    <2>1. i \in 1 .. Len(s)
      BY <1>2, <1>8
    <2>. QED  BY <1>8, <1>9, <2>1
  <1>14. ASSUME NEW m \in 1 .. n
         PROVE  /\ Ahead(r, m) \in Nat /\ Ahead(r, m + 1) \in Nat
                /\ Ahead(r, m + 1) = Ahead(r, m) + Len(Line(hs[m]))
                /\ Ahead(r, m + 1) <= Len(s)
                /\ \A i \in 1 .. Len(Line(hs[m])) : t[Ahead(r, m) + i] = Line(hs[m])[i]
    <2> DEFINE x == Before(ls, m)
               y == Before(ls, m + 1)
               k == Len(Line(hs[m]))
    <2>1. /\ x \in Nat /\ y = x + k /\ y <= Len(flat)
          /\ \A i \in 1 .. k : flat[x + i] = Line(hs[m])[i]
      <3>1. /\ x \in Nat /\ y = x + Len(ls[m]) /\ y <= Len(FlattenSeq(ls))
            /\ \A i \in 1 .. Len(ls[m]) : FlattenSeq(ls)[x + i] = ls[m][i]
        BY <1>3, <1>4, Zenon DEF InPlace
      <3>2. ls[m] = Line(hs[m])
        BY <1>3
      <3>. QED  BY <3>1, <3>2, Zenon DEF flat
    <2>2. k \in Nat
      BY <1>3
    <2>3. Ahead(r, m) = L + x /\ Ahead(r, m + 1) = L + y
      BY <1>7
    <2> HIDE DEF x, y, k
    <2>4. /\ Ahead(r, m) \in Nat /\ Ahead(r, m + 1) \in Nat
          /\ Ahead(r, m + 1) = Ahead(r, m) + k
          /\ Ahead(r, m + 1) <= L + Len(flat)
      BY <1>2, <1>8, <2>1, <2>2, <2>3
    <2>5. ASSUME NEW i \in 1 .. k
          PROVE  t[Ahead(r, m) + i] = Line(hs[m])[i]
      <3> DEFINE j == x + i
      <3>1. j \in 1 .. Len(flat) /\ Ahead(r, m) + i = L + j
        BY <1>2, <1>8, <2>1, <2>2, <2>3
      <3>2. L + j \in 1 .. Len(s)
        BY <1>2, <1>8, <3>1
      <3>3. flat[j] = Line(hs[m])[i]
        BY <2>1
      <3> HIDE DEF j
      <3>4. s[L + j] = flat[j] /\ t[L + j] = s[L + j]
        BY <1>8, <1>9, <3>1, <3>2
      <3>. QED  BY <3>1, <3>3, <3>4, Zenon
    <2>. QED  BY <1>8, <2>4, <2>5 DEF k
  <1>. QED  BY <1>1, <1>6, <1>9, <1>11, <1>12, <1>13, <1>14, Zenon DEF hs, n, first, L

-----------------------------------------------------------------------------
(* The request line, of a request of which the first k symbols are there: *)
(* a part is read when all of it is there, and something behind it.        *)

(* Where a pointer comes to that steps over symbols of a kind. *)
LEMMA AfterIs ==
    ASSUME NEW text, NEW n \in Nat, Len(text) = n, NEW kind, NEW i \in Nat, NEW e \in Nat,
           i <= e, e <= n + 1, \A x \in i .. e - 1 : text[x] \in kind,
           e <= n => text[e] \notin kind
    PROVE  After(text, kind, i) = e
  <1>1. CASE i > n
    <2>1. e = i
      BY <1>1
    <2>. QED  BY <1>1, <2>1 DEF After
  <1>2. CASE i <= n
    <2> DEFINE P(j) == /\ j > n \/ text[j] \notin kind
                       /\ \A x \in i .. j - 1 : text[x] \in kind
    <2>1. After(text, kind, i) = CHOOSE j \in i .. n + 1 : P(j)
      BY <1>2 DEF After
    <2>2. e \in i .. n + 1 /\ P(e)
      OBVIOUS
    <2>3. ASSUME NEW j \in i .. n + 1, P(j)
          PROVE  j = e
      <3>1. ~(j < e)
        <4> SUFFICES ASSUME j < e
                     PROVE  FALSE
          OBVIOUS
        <4>1. j \in i .. e - 1 /\ j <= n
          OBVIOUS
        <4>. QED  BY <2>3, <4>1
      <3>2. ~(e < j)
        <4> SUFFICES ASSUME e < j
                     PROVE  FALSE
          OBVIOUS
        <4>1. e \in i .. j - 1 /\ e <= n
          OBVIOUS
        <4>. QED  BY <2>3, <4>1
      <3>. QED  BY <3>1, <3>2
    <2> HIDE DEF P
    <2>. QED  BY <2>1, <2>2, <2>3, Zenon
  <1>. QED  BY <1>1, <1>2

(* The same in a request that is cut off: it stops at the cut. *)
LEMMA AfterCut ==
    ASSUME NEW r \in Requests, NEW k \in 1 .. Len(RequestText(r)), NEW kind,
           NEW i \in Nat \ {0}, NEW e \in 1 .. Len(RequestText(r)), i <= e,
           \A x \in i .. e - 1 : RequestText(r)[x] \in kind, RequestText(r)[e] \notin kind
    PROVE  After(Sent(r, k), kind, i) = IF i > k THEN i ELSE IF e <= k THEN e ELSE k + 1
  <1> DEFINE t == RequestText(r)
             c == Sent(r, k)
  <1>1. /\ Len(t) \in Nat /\ Len(c) = k /\ k \in Nat
        /\ \A x \in 1 .. k : c[x] = t[x]
    <2>1. k \in 0 .. Len(t)
      OBVIOUS
    <2>2. Len(t) \in Nat /\ Len(c) = k /\ \A x \in 1 .. k : c[x] = t[x]
      BY <2>1, SentIs
    <2>. QED  BY <2>2
  <1>2. (\A x \in i .. e - 1 : t[x] \in kind) /\ t[e] \notin kind /\ e \in 1 .. Len(t)
    OBVIOUS
  <1> HIDE DEF t, c
  <1>3. CASE i > k
    <2>1. After(c, kind, i) = i
      BY <1>1, <1>3 DEF After
    <2>. QED  BY <1>3, <2>1 DEF c
  <1>4. CASE i <= k /\ e <= k
    <2>1. \A x \in i .. e - 1 : c[x] \in kind
      BY <1>1, <1>2, <1>4
    <2>2. c[e] \notin kind
      BY <1>1, <1>2, <1>4
    <2>3. e \in Nat /\ i \in Nat /\ e <= k + 1
      BY <1>1, <1>2, <1>4
    <2>4. After(c, kind, i) = e
      BY <1>1, <2>1, <2>2, <2>3, AfterIs
    <2>. QED  BY <1>1, <1>4, <2>4 DEF c
  <1>5. CASE i <= k /\ e > k
    <2> DEFINE f == k + 1
    <2>1. ASSUME NEW x \in i .. f - 1
          PROVE  c[x] \in kind
      <3>1. x \in 1 .. k /\ x \in i .. e - 1
        BY <1>1, <1>2, <1>5
      <3>. QED  BY <1>1, <1>2, <3>1
    <2>2. f \in Nat /\ i \in Nat /\ i <= f /\ f <= k + 1 /\ ~(f <= k)
      BY <1>1, <1>5
    <2> HIDE DEF f
    <2>3. After(c, kind, i) = f
      BY <1>1, <2>1, <2>2, AfterIs
    <2>. QED  BY <1>1, <1>2, <1>5, <2>3 DEF c, f
  <1>. QED  BY <1>1, <1>2, <1>3, <1>4, <1>5 DEF c

-----------------------------------------------------------------------------
(* What is read of the request line depends on how much of it is there. *)
Lengths(r, t, M, P, L) ==
    /\ M \in Nat \ {0} /\ P \in Nat \ {0} /\ L = M + P + 9
    /\ \A i \in 1 .. M : t[i] = r.method[i] /\ t[i] \in Upper
    /\ t[M + 1] = " "
    /\ \A i \in 1 .. P : t[M + 1 + i] = r.path[i] /\ t[M + 1 + i] \in PathChar
    /\ t[M + P + 2] = " " /\ t[M + P + 3] = "HTTP" /\ t[M + P + 4] = "/"
    /\ t[M + P + 5] = "1" /\ t[M + P + 6] = "." /\ t[M + P + 7] = "1"
    /\ t[M + P + 8] = "CR" /\ t[M + P + 9] = "LF"

(* The method, a space, the path, a space and the version stand at the     *)
(* beginning of the text.                                                  *)
LEMMA LineOfText ==
    ASSUME NEW r \in Requests
    PROVE  /\ Lengths(r, RequestText(r), Len(r.method), Len(r.path), Len(RequestLine(r)))
           /\ Len(RequestLine(r)) < Len(RequestText(r))
  <1> DEFINE t == RequestText(r)
             l == RequestLine(r)
             m == r.method
             p == r.path
             M == Len(m)
             P == Len(p)
             L == Len(l)
             end == <<" ", "HTTP", "/", "1", ".", "1", "CR", "LF">>
  <1>1. /\ M \in Nat \ {0} /\ P \in Nat \ {0} /\ L = M + 1 + P + 8
        /\ \A i \in 1 .. M : l[i] = m[i] /\ m[i] \in Upper
        /\ l[M + 1] = " "
        /\ \A i \in 1 .. P : l[M + 1 + i] = p[i] /\ p[i] \in PathChar
        /\ \A i \in 1 .. 8 : l[M + 1 + P + i] = end[i]
    <2>1. m \in Seq(Upper) /\ p \in Seq(PathChar)
      BY RequestLinePlaces
    <2>2. (\A i \in 1 .. M : m[i] \in Upper) /\ (\A i \in 1 .. P : p[i] \in PathChar)
      <3> HIDE DEF m, p
      <3>. QED  BY <2>1
    <2>. QED  BY <2>2, RequestLinePlaces
  <1>2. (\A i \in 1 .. L : t[i] = l[i]) /\ L < Len(t)
    <2>1. /\ \A i \in 1 .. L : t[i] = l[i]
          /\ Len(t) = Ahead(r, Len(r.headers) + 1) + 2
          /\ Ahead(r, 1) = L /\ Len(r.headers) \in Nat /\ Ahead(r, Len(r.headers) + 1) \in Nat
          /\ \A x \in 1 .. Len(r.headers) : Ahead(r, x + 1) <= Ahead(r, Len(r.headers) + 1)
          /\ \A x \in 1 .. Len(r.headers) : Ahead(r, x + 1) = Ahead(r, x) + Len(Line(r.headers[x]))
          /\ \A x \in 1 .. Len(r.headers) : Ahead(r, x) \in Nat /\ Ahead(r, x + 1) \in Nat
      BY TextPlaces
    <2> DEFINE n == Len(r.headers)
    <2>2. CASE n = 0
      <3>1. n + 1 = 1
        BY <2>2
      <3>2. Ahead(r, n + 1) = L
        BY <2>1, <3>1
      <3> HIDE DEF t, l, L
      <3>. QED  BY <2>1, <3>2
    <2>3. CASE n # 0
      <3>1. 1 \in 1 .. n
        BY <2>1, <2>3
      <3>2. r.headers[1] \in Header
        BY <3>1, TextPlaces
      <3>3. Len(Line(r.headers[1])) \in Nat
        <4>1. Line(r.headers[1]) \in Seq(Symbols)
          BY <3>2, LinePlaces
        <4>. QED  BY <4>1
      <3> DEFINE y == Len(Line(r.headers[1]))
      <3>4. Ahead(r, 1 + 1) = Ahead(r, 1) + y /\ Ahead(r, 1 + 1) <= Ahead(r, n + 1)
        BY <2>1, <3>1
      <3>5. Ahead(r, 1) \in Nat /\ Ahead(r, 1 + 1) \in Nat
        BY <2>1, <3>1
      <3> HIDE DEF t, l, L, y, n
      <3>6. y \in Nat
        BY <3>3 DEF y
      <3>. QED  BY <2>1, <3>4, <3>5, <3>6 DEF n
    <2>. QED  BY <2>1, <2>2, <2>3
  <1> HIDE DEF t, l, m, p, M, P, L, end
  <1>3. L = M + P + 9 /\ M \in Nat /\ P \in Nat
    <2>1. M \in Nat \ {0} /\ P \in Nat \ {0} /\ L = M + 1 + P + 8
      BY <1>1, Zenon
    <2>. QED  BY <2>1
  <1>4. ASSUME NEW i \in 1 .. M
        PROVE  t[i] = m[i] /\ t[i] \in Upper
    <2>1. i \in 1 .. L
      BY <1>3
    <2>. QED  BY <1>1, <1>2, <2>1
  <1>5. t[M + 1] = " "
    <2>1. M + 1 \in 1 .. L
      BY <1>3
    <2>. QED  BY <1>1, <1>2, <2>1
  <1>6. ASSUME NEW i \in 1 .. P
        PROVE  t[M + 1 + i] = p[i] /\ t[M + 1 + i] \in PathChar
    <2>1. M + 1 + i \in 1 .. L
      BY <1>3
    <2>. QED  BY <1>1, <1>2, <2>1
  <1>7. ASSUME NEW i \in 1 .. 8
        PROVE  t[M + P + 1 + i] = end[i]
    <2>1. M + 1 + P + i \in 1 .. L /\ M + 1 + P + i = M + P + 1 + i
      BY <1>3
    <2>. QED  BY <1>1, <1>2, <2>1
  <1>8. /\ t[M + P + 2] = end[1] /\ t[M + P + 3] = end[2] /\ t[M + P + 4] = end[3]
        /\ t[M + P + 5] = end[4] /\ t[M + P + 6] = end[5] /\ t[M + P + 7] = end[6]
        /\ t[M + P + 8] = end[7] /\ t[M + P + 9] = end[8]
    <2>1. /\ M + P + 1 + 1 = M + P + 2 /\ M + P + 1 + 2 = M + P + 3
          /\ M + P + 1 + 3 = M + P + 4 /\ M + P + 1 + 4 = M + P + 5
          /\ M + P + 1 + 5 = M + P + 6 /\ M + P + 1 + 6 = M + P + 7
          /\ M + P + 1 + 7 = M + P + 8 /\ M + P + 1 + 8 = M + P + 9
      BY <1>3
    <2>. QED  BY <1>7, <2>1
  <1>9. /\ end[1] = " " /\ end[2] = "HTTP" /\ end[3] = "/" /\ end[4] = "1" /\ end[5] = "."
        /\ end[6] = "1" /\ end[7] = "CR" /\ end[8] = "LF"
    BY DEF end
  <1>10. Lengths(r, t, M, P, L)
    BY <1>1, <1>3, <1>4, <1>5, <1>6, <1>8, <1>9, Zenon DEF Lengths, m, p
  <1>. QED  BY <1>2, <1>10 DEF t, l, m, p, M, P, L

(* The first k symbols of a request are as they are in all of it. *)
LEMMA CutIs ==
    ASSUME NEW r \in Requests, NEW k \in 1 .. Len(RequestText(r))
    PROVE  /\ Len(RequestText(r)) \in Nat /\ k \in Nat
           /\ Sent(r, k) \in Seq(Symbols) /\ Len(Sent(r, k)) = k
           /\ \A i \in 1 .. k : Sent(r, k)[i] = RequestText(r)[i]
  <1>1. k \in 0 .. Len(RequestText(r))
    OBVIOUS
  <1>. QED  BY <1>1, SentIs

(* Part of a text whose symbols are known. *)
LEMMA PartIs ==
    ASSUME NEW text \in Seq(Symbols), NEW i \in Nat \ {0}, NEW part \in Seq(Symbols),
           (i + Len(part)) - 1 <= Len(text), \A x \in 1 .. Len(part) : text[(i + x) - 1] = part[x]
    PROVE  SubSeq(text, i, (i + Len(part)) - 1) = part
  <1> DEFINE n == Len(part)
             j == (i + n) - 1
             s == SubSeq(text, i, j)
  <1>1. n \in Nat /\ Len(text) \in Nat
    OBVIOUS
  <1>2. CASE n = 0
    <2>1. part = <<>>
      BY <1>2, EmptySeq
    <2>2. j < i
      BY <1>2
    <2>3. s = <<>>
      BY <1>1, <2>2, SubSeqProperties, EmptySeq
    <2>. QED  BY <2>1, <2>3
  <1>3. CASE n # 0
    <2>1. i \in 1 .. Len(text) + 1 /\ j \in i - 1 .. Len(text) /\ i <= j
      BY <1>1, <1>3
    <2>2. /\ s \in Seq(Symbols) /\ Len(s) = j - i + 1
          /\ \A x \in 1 .. j - i + 1 : s[x] = text[i + x - 1]
      BY <2>1, SubSeqProperties
    <2>3. j - i + 1 = n
      BY <1>1
    <2> HIDE DEF n, j, s
    <2>4. ASSUME NEW x \in 1 .. n
          PROVE  s[x] = part[x]
      <3>1. i + x - 1 = (i + x) - 1
        BY <1>1
      <3>2. s[x] = text[(i + x) - 1]
        BY <2>2, <2>3, <3>1
      <3>. QED  BY <3>2 DEF n
    <2>5. Len(s) = Len(part)
      BY <2>2, <2>3 DEF n
    <2>6. s = part
      BY <2>2, <2>4, <2>5, SeqEqual DEF n
    <2>. QED  BY <2>6 DEF s, j, n
  <1>. QED  BY <1>2, <1>3

(* The method is found when a symbol after it is there. *)
LEMMA MethodParsed ==
    ASSUME NEW r \in Requests, NEW k \in 1 .. Len(RequestText(r))
    PROVE  /\ HasMethod(Sent(r, k)) <=> Len(r.method) < k
           /\ HasMethod(Sent(r, k)) =>
                 /\ MethodEnd(Sent(r, k)) = Len(r.method) + 1
                 /\ SubSeq(Sent(r, k), 1, MethodEnd(Sent(r, k)) - 1) = r.method
  <1> DEFINE t == RequestText(r)
             c == Sent(r, k)
             m == r.method
             M == Len(m)
             P == Len(r.path)
             L == Len(RequestLine(r))
  <1>1. Lengths(r, t, M, P, L) /\ L < Len(t)
    BY LineOfText
  <1>2. /\ Len(t) \in Nat /\ k \in Nat /\ c \in Seq(Symbols) /\ Len(c) = k
        /\ \A i \in 1 .. k : c[i] = t[i]
    BY CutIs
  <1>3. m \in Seq(Symbols)
    BY RequestLinePlaces
  <1>4. /\ M \in Nat \ {0} /\ P \in Nat \ {0} /\ L = M + P + 9
        /\ \A i \in 1 .. M : t[i] = m[i] /\ t[i] \in Upper
        /\ t[M + 1] = " "
    BY <1>1 DEF Lengths
  <1>5. k \in 1 .. Len(t)
    OBVIOUS
  <1> HIDE DEF m, M, P, L
  <1>0. /\ M \in Nat /\ P \in Nat /\ M >= 1 /\ P >= 1 /\ L = M + P + 9
        /\ L < Len(t) /\ k \in 1 .. Len(t) /\ k \in Nat /\ Len(t) \in Nat
    <2>1. M \in Nat \ {0} /\ P \in Nat \ {0} /\ L = M + P + 9
      BY <1>4, Zenon
    <2>2. L < Len(t) /\ k \in Nat /\ Len(t) \in Nat
      BY <1>1, <1>2, Zenon
    <2>. QED  BY <1>5, <2>1, <2>2
  <1>6. After(c, Upper, 1) = IF M + 1 <= k THEN M + 1 ELSE k + 1
    <2> DEFINE e == M + 1
    <2>1. e \in 1 .. Len(t) /\ 1 <= e /\ 1 \in Nat \ {0} /\ ~(1 > k)
      BY <1>0
    <2>2. ASSUME NEW x \in 1 .. e - 1
          PROVE  t[x] \in Upper
      <3>1. x \in 1 .. M
        BY <1>0
      <3>. QED  BY <1>4, <3>1
    <2>3. t[e] \notin Upper
      BY <1>4 DEF Upper
    <2> HIDE DEF e
    <2>4. After(c, Upper, 1) = IF 1 > k THEN 1 ELSE IF e <= k THEN e ELSE k + 1
      BY <2>1, <2>2, <2>3, AfterCut
    <2>. QED  BY <2>1, <2>4 DEF e
  <1> HIDE DEF t, c
  <1>7. MethodEnd(c) = After(c, Upper, 1) /\ (HasMethod(c) <=> MethodEnd(c) \in 2 .. k)
    BY <1>2 DEF MethodEnd, HasMethod
  <1>8. HasMethod(c) <=> M < k
    BY <1>0, <1>6, <1>7
  <1>9. ASSUME HasMethod(c)
        PROVE  MethodEnd(c) = M + 1 /\ SubSeq(c, 1, MethodEnd(c) - 1) = m
    <2>1. M < k /\ MethodEnd(c) = M + 1
      BY <1>0, <1>6, <1>7, <1>8, <1>9
    <2>2. (1 + M) - 1 <= Len(c) /\ 1 \in Nat \ {0} /\ MethodEnd(c) - 1 = (1 + M) - 1
      <3>1. Len(c) = k
        BY <1>2
      <3>. QED  BY <1>0, <2>1, <3>1
    <2>3. ASSUME NEW x \in 1 .. M
          PROVE  c[(1 + x) - 1] = m[x]
      <3>1. (1 + x) - 1 = x /\ x \in 1 .. k
        BY <1>0, <2>1
      <3>. QED  BY <1>2, <1>4, <3>1
    <2>4. SubSeq(c, 1, (1 + Len(m)) - 1) = m
      BY <1>2, <1>3, <2>2, <2>3, PartIs DEF M
    <2>. QED  BY <2>1, <2>2, <2>4 DEF M
  <1>. QED  BY <1>8, <1>9 DEF c, m, M

(* The path is found when a symbol after it is there. *)
LEMMA PathParsed ==
    ASSUME NEW r \in Requests, NEW k \in 1 .. Len(RequestText(r))
    PROVE  /\ HasPath(Sent(r, k)) <=> Len(r.method) + Len(r.path) + 1 < k
           /\ HasPath(Sent(r, k)) =>
                 /\ PathEnd(Sent(r, k)) = Len(r.method) + Len(r.path) + 2
                 /\ Path(Sent(r, k)) = r.path
  <1> DEFINE t == RequestText(r)
             c == Sent(r, k)
             p == r.path
             M == Len(r.method)
             P == Len(p)
             L == Len(RequestLine(r))
  <1>1. Lengths(r, t, M, P, L) /\ L < Len(t)
    BY LineOfText
  <1>2. /\ Len(t) \in Nat /\ k \in Nat /\ c \in Seq(Symbols) /\ Len(c) = k
        /\ \A i \in 1 .. k : c[i] = t[i]
    BY CutIs
  <1>3. p \in Seq(Symbols)
    BY RequestLinePlaces
  <1>4. /\ M \in Nat \ {0} /\ P \in Nat \ {0} /\ L = M + P + 9
        /\ \A i \in 1 .. P : t[M + 1 + i] = p[i] /\ t[M + 1 + i] \in PathChar
        /\ t[M + 1] = " " /\ t[M + P + 2] = " "
    BY <1>1 DEF Lengths
  <1>5. k \in 1 .. Len(t)
    OBVIOUS
  <1>6. (HasMethod(c) <=> M < k) /\ (HasMethod(c) => MethodEnd(c) = M + 1)
    BY MethodParsed
  <1> HIDE DEF p, M, P, L
  <1>0. /\ M \in Nat /\ P \in Nat /\ M >= 1 /\ P >= 1 /\ L = M + P + 9
        /\ L < Len(t) /\ k \in 1 .. Len(t) /\ k \in Nat /\ Len(t) \in Nat
    <2>1. M \in Nat \ {0} /\ P \in Nat \ {0} /\ L = M + P + 9
      BY <1>4, Zenon
    <2>2. L < Len(t) /\ k \in Nat /\ Len(t) \in Nat
      BY <1>1, <1>2, Zenon
    <2>. QED  BY <1>5, <2>1, <2>2
  <1>7. CASE ~(M < k)
    <2>1. ~HasPath(c)
      BY <1>6, <1>7 DEF HasPath
    <2>2. ~(M + P + 1 < k)
      BY <1>0, <1>7
    <2>. QED  BY <2>1, <2>2 DEF c, M, P, p
  <1>8. CASE M < k
    <2> DEFINE i == M + 2
               e == M + P + 2
    <2>1. MethodEnd(c) = M + 1 /\ PathStart(c) = i /\ PathEnd(c) = After(c, AcceptedInPath, i)
          /\ Path(c) = SubSeq(c, i, After(c, PathChar, i) - 1)
      <3>1. MethodEnd(c) = M + 1
        BY <1>6, <1>8
      <3>2. (M + 1) + 1 = M + 2
        BY <1>0
      <3> HIDE DEF c
      <3>. QED  BY <3>1, <3>2 DEF PathStart, PathEnd, Path
    <2>2. e \in 1 .. Len(t) /\ i <= e /\ i \in Nat \ {0}
      BY <1>0
    <2>3. ASSUME NEW x \in i .. e - 1
          PROVE  t[x] \in PathChar
      <3> DEFINE j == x - (M + 1)
      <3>1. j \in 1 .. P /\ x = M + 1 + j
        BY <1>0
      <3> HIDE DEF j
      <3>. QED  BY <1>4, <3>1
    <2>4. t[e] \notin AcceptedInPath /\ t[e] \notin PathChar
          /\ PathChar \subseteq AcceptedInPath
      BY <1>4 DEF AcceptedInPath, PathChar, Alpha, Upper, Digit
    <2> HIDE DEF i, e
    <2>5. /\ After(c, PathChar, i) = IF i > k THEN i ELSE IF e <= k THEN e ELSE k + 1
          /\ After(c, AcceptedInPath, i)
                = IF i > k THEN i ELSE IF e <= k THEN e ELSE k + 1
      <3>1. \A x \in i .. e - 1 : t[x] \in AcceptedInPath
        BY <2>3, <2>4
      <3>. QED  BY <2>2, <2>3, <2>4, <3>1, AfterCut
    <2> HIDE DEF t, c
    <2>6. c[M + 1] = " "
      <3>1. M + 1 \in 1 .. k
        BY <1>0, <1>8
      <3>. QED  BY <1>2, <1>4, <3>1
    <2>7. HasPath(c) <=> PathEnd(c) \in i + 1 .. k
      BY <1>2, <1>6, <1>8, <2>1, <2>6 DEF HasPath
    <2>8. HasPath(c) <=> M + P + 1 < k
      BY <1>0, <1>8, <2>1, <2>5, <2>7 DEF i, e
    <2>9. ASSUME HasPath(c)
          PROVE  PathEnd(c) = M + P + 2 /\ Path(c) = p
      <3>1. M + P + 1 < k /\ PathEnd(c) = e /\ After(c, PathChar, i) = e
        BY <1>0, <1>8, <2>1, <2>5, <2>8, <2>9 DEF i, e
      <3>2. (i + P) - 1 <= Len(c) /\ i \in Nat \ {0} /\ e - 1 = (i + P) - 1
        <4>1. Len(c) = k
          BY <1>2
        <4>. QED  BY <1>0, <3>1, <4>1 DEF i, e
      <3>3. ASSUME NEW x \in 1 .. P
            PROVE  c[(i + x) - 1] = p[x]
        <4>1. (i + x) - 1 = M + 1 + x /\ M + 1 + x \in 1 .. k
          BY <1>0, <3>1 DEF i
        <4>. QED  BY <1>2, <1>4, <4>1
      <3>4. SubSeq(c, i, (i + Len(p)) - 1) = p
        BY <1>2, <1>3, <3>2, <3>3, PartIs DEF P
      <3>. QED  BY <2>1, <3>1, <3>2, <3>4 DEF P, e
    <2>. QED  BY <2>8, <2>9 DEF c, p, M, P
  <1>. QED  BY <1>7, <1>8

(* The request line is found when a symbol after it is there, and          *)
(* headers begin behind it.                                                *)
LEMMA VersionParsed ==
    ASSUME NEW r \in Requests, NEW k \in 1 .. Len(RequestText(r)), HasPath(Sent(r, k))
    PROVE  /\ HasRequestLine(Sent(r, k)) <=> Len(RequestLine(r)) < k
           /\ HasRequestLine(Sent(r, k)) =>
                 HeadersStart(Sent(r, k)) = Len(RequestLine(r)) + 1
  <1> DEFINE t == RequestText(r)
             c == Sent(r, k)
             M == Len(r.method)
             P == Len(r.path)
             L == Len(RequestLine(r))
             v == M + P + 5
             d == After(c, Digit, v)
             e == After(c, Digit, d + 1)
  <1>1. Lengths(r, t, M, P, L) /\ L < Len(t)
    BY LineOfText
  <1>2. /\ Len(t) \in Nat /\ k \in Nat /\ c \in Seq(Symbols) /\ Len(c) = k
        /\ \A i \in 1 .. k : c[i] = t[i]
    BY CutIs
  <1>3. k \in 1 .. Len(t)
    OBVIOUS
  <1>4. HasPath(c) /\ PathEnd(c) = M + P + 2 /\ M + P + 1 < k
    BY PathParsed
  <1> HIDE DEF M, P, L
  <1>0. /\ M \in Nat /\ P \in Nat /\ M >= 1 /\ P >= 1 /\ L = M + P + 9
        /\ L < Len(t) /\ k \in 1 .. Len(t) /\ k \in Nat /\ Len(t) \in Nat
    <2>1. M \in Nat \ {0} /\ P \in Nat \ {0} /\ L = M + P + 9
      BY <1>1, Zenon DEF Lengths
    <2>. QED  BY <1>1, <1>2, <1>3, <2>1
  <1>5. /\ t[M + P + 2] = " " /\ t[M + P + 3] = "HTTP" /\ t[M + P + 4] = "/"
        /\ t[M + P + 5] = "1" /\ t[M + P + 6] = "." /\ t[M + P + 7] = "1"
        /\ t[M + P + 8] = "CR" /\ t[M + P + 9] = "LF"
    BY <1>1, Zenon DEF Lengths
  <1>6. d = IF v > k THEN v ELSE IF v + 1 <= k THEN v + 1 ELSE k + 1
    <2> DEFINE f == v + 1
    <2>1. f \in 1 .. Len(t) /\ v <= f /\ v \in Nat \ {0}
      BY <1>0
    <2>2. ASSUME NEW x \in v .. f - 1
          PROVE  t[x] \in Digit
      <3>1. x = M + P + 5
        BY <1>0
      <3>. QED  BY <1>5, <3>1 DEF Digit
    <2>3. t[f] \notin Digit
      <3>1. f = M + P + 6
        BY <1>0
      <3>. QED  BY <1>5, <3>1 DEF Digit
    <2> HIDE DEF v, f
    <2>4. After(c, Digit, v) = IF v > k THEN v ELSE IF f <= k THEN f ELSE k + 1
      BY <2>1, <2>2, <2>3, AfterCut
    <2>. QED  BY <2>4 DEF f
  <1>7. ASSUME v + 1 <= k
        PROVE  e = IF v + 2 > k THEN v + 2 ELSE IF v + 3 <= k THEN v + 3 ELSE k + 1
    <2> DEFINE i == d + 1
               f == v + 3
    <2>1. d = v + 1
      <3> HIDE DEF d
      <3>. QED  BY <1>0, <1>6, <1>7
    <2>2. i = v + 2 /\ f \in 1 .. Len(t) /\ i <= f /\ i \in Nat \ {0}
      <3> HIDE DEF d
      <3>. QED  BY <1>0, <2>1
    <2>3. ASSUME NEW x \in i .. f - 1
          PROVE  t[x] \in Digit
      <3>1. x = M + P + 7
        <4> HIDE DEF i
        <4>. QED  BY <1>0, <2>2
      <3>. QED  BY <1>5, <3>1 DEF Digit
    <2>4. t[f] \notin Digit
      <3>1. f = M + P + 8
        BY <1>0
      <3>. QED  BY <1>5, <3>1 DEF Digit
    <2> HIDE DEF i, f
    <2>5. After(c, Digit, i) = IF i > k THEN i ELSE IF f <= k THEN f ELSE k + 1
      BY <2>2, <2>3, <2>4, AfterCut
    <2>. QED  BY <2>2, <2>5 DEF f, i
  <1>8. ASSUME ~(v + 1 <= k)
        PROVE  e = d + 1 /\ d + 1 > k
    <2>1. d + 1 > k
      <3> HIDE DEF d
      <3>. QED  BY <1>0, <1>6, <1>8
    <2>. QED  BY <1>2, <2>1 DEF After
  <1>9. /\ VersionStart(c) = v /\ VersionEnd(c) = e /\ HeadersStart(c) = e + 2
    <2>1. (M + P + 2) + 3 = M + P + 5
      BY <1>0
    <2>2. VersionStart(c) = v
      BY <1>4, <2>1, Zenon DEF VersionStart
    <2>3. VersionEnd(c) = e
      BY <2>2, Zenon DEF VersionEnd
    <2>. QED  BY <2>2, <2>3, Zenon DEF HeadersStart
  <1> HIDE DEF t, c, v, d, e
  <1>10. HeadersStart(c) <= k => k > L /\ HeadersStart(c) = L + 1 /\ e = v + 3
    <2>1. v = M + P + 5
      BY DEF v
    <2>2. CASE v + 1 <= k
      BY <1>0, <1>7, <1>9, <2>1, <2>2
    <2>3. CASE ~(v + 1 <= k)
      <3>1. d \in Int
        BY <1>0, <1>6, <2>1
      <3>. QED  BY <1>0, <1>8, <1>9, <2>1, <2>3, <3>1
    <2>. QED  BY <2>2, <2>3
  <1>11. ASSUME L < k
         PROVE  HasRequestLine(c) /\ HeadersStart(c) = L + 1
    <2>1. v = M + P + 5 /\ v + 1 <= k
      BY <1>0, <1>11 DEF v
    <2>2. e = v + 3
      BY <1>0, <1>7, <1>11, <2>1
    <2>3. HeadersStart(c) = L + 1 /\ HeadersStart(c) <= Len(c)
      <3>1. Len(c) = k
        BY <1>2
      <3>. QED  BY <1>0, <1>9, <1>11, <2>1, <2>2, <3>1
    <2>4. ASSUME NEW i \in Nat \ {0}, NEW part \in Seq(Symbols), NEW n \in Nat, Len(part) = n,
                 (i + n) - 1 <= L, \A x \in 1 .. n : t[(i + x) - 1] = part[x]
          PROVE  SubSeq(c, i, (i + n) - 1) = part
      <3>1. (i + Len(part)) - 1 <= Len(c)
        <4>1. Len(c) = k
          BY <1>2
        <4>. QED  BY <1>0, <1>11, <2>4, <4>1
      <3>2. ASSUME NEW x \in 1 .. Len(part)
            PROVE  c[(i + x) - 1] = part[x]
        <4>1. (i + x) - 1 \in 1 .. k
          BY <1>0, <1>11, <2>4
        <4>. QED  BY <1>2, <2>4, <4>1
      <3>. QED  BY <1>2, <2>4, <3>1, <3>2, PartIs
    <2>5. SubSeq(c, PathEnd(c), VersionStart(c) - 1) = <<" ", "HTTP", "/">>
      <3> DEFINE i == M + P + 2
                 part == <<" ", "HTTP", "/">>
      <3>1. part \in Seq(Symbols) /\ Len(part) = 3
        BY DEF Symbols, PathChar, Alpha, Upper, Digit
      <3>2. part[1] = " " /\ part[2] = "HTTP" /\ part[3] = "/"
        OBVIOUS
      <3>3. (i + 1) - 1 = M + P + 2 /\ (i + 2) - 1 = M + P + 3 /\ (i + 3) - 1 = M + P + 4
        BY <1>0
      <3>4. i \in Nat \ {0} /\ 3 \in Nat /\ (i + 3) - 1 <= L /\ (i + 3) - 1 = v - 1
        BY <1>0, <2>1
      <3> HIDE DEF i, part
      <3>5. \A x \in 1 .. 3 : x = 1 \/ x = 2 \/ x = 3
        OBVIOUS
      <3>6. ASSUME NEW x \in 1 .. 3
            PROVE  t[(i + x) - 1] = part[x]
        <4>1. CASE x = 1
          BY <1>5, <3>2, <3>3, <4>1, Zenon
        <4>2. CASE x = 2
          BY <1>5, <3>2, <3>3, <4>2, Zenon
        <4>3. CASE x = 3
          BY <1>5, <3>2, <3>3, <4>3, Zenon
        <4>. QED  BY <3>5, <4>1, <4>2, <4>3
      <3>7. SubSeq(c, i, (i + 3) - 1) = part
        BY <2>4, <3>1, <3>4, <3>6
      <3>8. PathEnd(c) = i /\ VersionStart(c) = v
        BY <1>4, <1>9 DEF i
      <3>. QED  BY <3>4, <3>7, <3>8 DEF part
    <2>6. SubSeq(c, VersionStart(c), VersionEnd(c) - 1) = <<"1", ".", "1">>
      <3> DEFINE i == v
                 part == <<"1", ".", "1">>
      <3>1. part \in Seq(Symbols) /\ Len(part) = 3
        BY DEF Symbols, PathChar, Alpha, Upper, Digit
      <3>2. part[1] = "1" /\ part[2] = "." /\ part[3] = "1"
        OBVIOUS
      <3>3. (i + 1) - 1 = M + P + 5 /\ (i + 2) - 1 = M + P + 6 /\ (i + 3) - 1 = M + P + 7
        BY <1>0, <2>1
      <3>4. i \in Nat \ {0} /\ 3 \in Nat /\ (i + 3) - 1 <= L /\ (i + 3) - 1 = e - 1
        BY <1>0, <2>1, <2>2
      <3> HIDE DEF i, part
      <3>5. \A x \in 1 .. 3 : x = 1 \/ x = 2 \/ x = 3
        OBVIOUS
      <3>6. ASSUME NEW x \in 1 .. 3
            PROVE  t[(i + x) - 1] = part[x]
        <4>1. CASE x = 1
          BY <1>5, <3>2, <3>3, <4>1, Zenon
        <4>2. CASE x = 2
          BY <1>5, <3>2, <3>3, <4>2, Zenon
        <4>3. CASE x = 3
          BY <1>5, <3>2, <3>3, <4>3, Zenon
        <4>. QED  BY <3>5, <4>1, <4>2, <4>3
      <3>7. SubSeq(c, i, (i + 3) - 1) = part
        BY <2>4, <3>1, <3>4, <3>6
      <3>8. VersionStart(c) = i /\ VersionEnd(c) = e
        BY <1>9 DEF i
      <3>. QED  BY <3>4, <3>7, <3>8 DEF part
    <2>7. SubSeq(c, VersionEnd(c), HeadersStart(c) - 1) = <<"CR", "LF">>
      <3> DEFINE i == e
                 part == <<"CR", "LF">>
      <3>1. part \in Seq(Symbols) /\ Len(part) = 2
        BY DEF Symbols
      <3>2. part[1] = "CR" /\ part[2] = "LF"
        OBVIOUS
      <3>3. (i + 1) - 1 = M + P + 8 /\ (i + 2) - 1 = M + P + 9
        BY <1>0, <2>1, <2>2
      <3>4. i \in Nat \ {0} /\ 2 \in Nat /\ (i + 2) - 1 <= L /\ (i + 2) - 1 = (e + 2) - 1
        BY <1>0, <2>1, <2>2
      <3> HIDE DEF i, part
      <3>5. \A x \in 1 .. 2 : x = 1 \/ x = 2
        OBVIOUS
      <3>6. ASSUME NEW x \in 1 .. 2
            PROVE  t[(i + x) - 1] = part[x]
        <4>1. CASE x = 1
          BY <1>5, <3>2, <3>3, <4>1, Zenon
        <4>2. CASE x = 2
          BY <1>5, <3>2, <3>3, <4>2, Zenon
        <4>. QED  BY <3>5, <4>1, <4>2
      <3>7. SubSeq(c, i, (i + 2) - 1) = part
        BY <2>4, <3>1, <3>4, <3>6
      <3>8. VersionEnd(c) = i /\ HeadersStart(c) = e + 2
        BY <1>9 DEF i
      <3>. QED  BY <3>4, <3>7, <3>8 DEF part
    <2>8. can_handle_http_ver(<<"1", ".", "1">>)
      BY DEF can_handle_http_ver
    <2>. QED  BY <1>4, <2>3, <2>5, <2>6, <2>7, <2>8, Zenon DEF HasRequestLine
  <1>12. HasRequestLine(c) => HeadersStart(c) <= k
    BY <1>2 DEF HasRequestLine
  <1>13. HasRequestLine(c) <=> L < k
    BY <1>0, <1>10, <1>11, <1>12
  <1>. QED  BY <1>11, <1>13 DEF c, L

-----------------------------------------------------------------------------
(* The request line as a whole, and one header. *)

NothingGiven(r, m, p, e) ==
    [method |-> m, path |-> p, host |-> Null, connection |-> Null,
     range_start |-> NotGiven, range_end |-> NotGiven, error |-> e]

(* The fields of a request before its first header. *)
LEMMA NoHeaders ==
    ASSUME NEW r \in Requests
    PROVE  FieldsOf(r, 0) = NothingGiven(r, r.method, r.path, FALSE)
  <1>1. \A name, field, none : ValueOf(r, 0, name, field, none) = none
    BY DEF ValueOf
  <1>2. Number(<<>>) = NotGiven
    BY DEF Number
  <1>. QED  BY <1>1, <1>2, Zenon DEF FieldsOf, NothingGiven

(* All that is read before the headers: each of method and path as a       *)
(* whole or not at all.                                                    *)
LEMMA LineParsed ==
    ASSUME NEW r \in Requests, NEW k \in 1 .. Len(RequestText(r))
    PROVE  /\ \E m \in {r.method, Null}, p \in {r.path, Null}, e \in BOOLEAN :
                 WithLine(Sent(r, k)) = NothingGiven(r, m, p, e)
           /\ HasRequestLine(Sent(r, k)) <=> Len(RequestLine(r)) < k
           /\ HasRequestLine(Sent(r, k)) =>
                 /\ WithLine(Sent(r, k)) = FieldsOf(r, 0)
                 /\ HeadersStart(Sent(r, k)) = Len(RequestLine(r)) + 1
  <1> DEFINE c == Sent(r, k)
             m == IF HasMethod(c) THEN r.method ELSE Null
             p == IF HasPath(c) THEN r.path ELSE Null
             L == Len(RequestLine(r))
             M == Len(r.method)
             P == Len(r.path)
  <1>1. WithLine(c) = NothingGiven(r, m, p, ~HasRequestLine(c))
    <2>1. HasMethod(c) => SubSeq(c, 1, MethodEnd(c) - 1) = r.method
      BY MethodParsed
    <2>2. HasPath(c) => Path(c) = r.path
      BY PathParsed
    <2>3. NoRequest.method = Null /\ NoRequest.path = Null
      BY DEF NoRequest
    <2>4. (IF HasMethod(c) THEN SubSeq(c, 1, MethodEnd(c) - 1) ELSE NoRequest.method) = m
      BY <2>1, <2>3
    <2>5. (IF HasPath(c) THEN Path(c) ELSE NoRequest.path) = p
      BY <2>2, <2>3
    <2> HIDE DEF c, m, p
    <2>6. WithLine(c) = [NoRequest EXCEPT !.method = m, !.path = p, !.error = ~HasRequestLine(c)]
      BY <2>4, <2>5, Zenon DEF WithLine
    <2>. QED  BY <2>6 DEF NoRequest, NothingGiven
  <1>2. HasRequestLine(c) => HasPath(c) /\ HasMethod(c)
    BY DEF HasRequestLine, HasPath
  <1>3. HasRequestLine(c) <=> L < k
    <2>1. HasPath(c) <=> M + P + 1 < k
      BY PathParsed
    <2>2. L = M + P + 9 /\ M \in Nat /\ P \in Nat
      <3>1. L = M + 1 + P + 8 /\ M \in Nat \ {0} /\ P \in Nat \ {0}
        BY RequestLinePlaces
      <3> HIDE DEF L, M, P
      <3>. QED  BY <3>1
    <2>3. k \in Nat
      BY CutIs
    <2>4. CASE HasPath(c)
      BY <2>4, VersionParsed
    <2>5. CASE ~HasPath(c)
      <3>1. ~(L < k)
        <4> HIDE DEF L, M, P
        <4>. QED  BY <2>1, <2>2, <2>3, <2>5
      <3>. QED  BY <1>2, <2>5, <3>1
    <2>. QED  BY <2>4, <2>5
  <1>4. ASSUME HasRequestLine(c)
        PROVE  WithLine(c) = FieldsOf(r, 0) /\ HeadersStart(c) = L + 1
    <2>1. HasPath(c) /\ HasMethod(c)
      BY <1>2, <1>4
    <2>2. m = r.method /\ p = r.path /\ (~HasRequestLine(c)) = FALSE
      BY <1>4, <2>1
    <2>3. HeadersStart(c) = L + 1
      BY <1>4, <2>1, VersionParsed
    <2> HIDE DEF c, m, p
    <2>. QED  BY <1>1, <2>2, <2>3, NoHeaders
  <1>5. m \in {r.method, Null} /\ p \in {r.path, Null} /\ (~HasRequestLine(c)) \in BOOLEAN
    OBVIOUS
  <1> HIDE DEF m, p
  <1>. QED  BY <1>1, <1>3, <1>4, <1>5

-----------------------------------------------------------------------------
(* Where a value ends: at the first place that stops it. *)
LEMMA ValueEndIs ==
    ASSUME NEW text, NEW junk, NEW n \in Nat, Len(text) = n, NEW i,
           NEW start \in Nat, ValueStart(text, i) = start, start <= n,
           NEW e \in start .. n + 1, StopsValue(text, junk, e),
           \A x \in start .. e - 1 : ~StopsValue(text, junk, x)
    PROVE  ValueEnd(text, junk, i) = e
  <1> DEFINE P(j) == /\ StopsValue(text, junk, j)
                     /\ \A x \in start .. j - 1 : ~StopsValue(text, junk, x)
  <1>1. ValueEnd(text, junk, i) = CHOOSE j \in start .. n + 1 : P(j)
    BY DEF ValueEnd
  <1>2. P(e)
    OBVIOUS
  <1>3. ASSUME NEW j \in start .. n + 1, P(j)
        PROVE  j = e
    <2>1. ~(j < e)
      <3> SUFFICES ASSUME j < e
                   PROVE  FALSE
        OBVIOUS
      <3>1. j \in start .. e - 1
        OBVIOUS
      <3>. QED  BY <1>3, <3>1
    <2>2. ~(e < j)
      <3> SUFFICES ASSUME e < j
                   PROVE  FALSE
        OBVIOUS
      <3>1. e \in start .. j - 1
        OBVIOUS
      <3>. QED  BY <1>3, <3>1
    <2>. QED  BY <2>1, <2>2
  <1> HIDE DEF P
  <1>. QED  BY <1>1, <1>2, <1>3, Zenon

(* A header's name and value are read when all of its line is there, and  *)
(* something behind it.                                                    *)
HeaderIsRead(r, k, junk, m) ==
    LET c == Sent(r, k)
        i == Ahead(r, m) + 1
        h == r.headers[m]
    IN  /\ ~IsLineEnd(c, junk, i)
        /\ HasHeader(c, junk, i) <=> Ahead(r, m + 1) < k
        /\ HasHeader(c, junk, i) =>
              /\ ValueEnd(c, junk, i) + 2 = Ahead(r, m + 1) + 1
              /\ HeaderAt(c, junk, i) = [name |-> h.name, value |-> h.value]

(* Header m of a request is read as the client meant it if what is ahead   *)
(* of it is there.                                                         *)
LEMMA HeaderParsed ==
    ASSUME NEW r \in Requests, NEW k \in 1 .. Len(RequestText(r)), NEW junk,
           NEW m \in 1 .. Len(r.headers), Ahead(r, m) < k
    PROVE  HeaderIsRead(r, k, junk, m)
  <1> DEFINE t == RequestText(r)
             c == Sent(r, k)
             h == r.headers[m]
             name == h.name
             value == h.value
             a == Len(name)
             b == Len(value)
             A == Ahead(r, m)
             i == A + 1
             v == A + a + 3
             s == A + a + b + 3
  <1>1. /\ Len(t) \in Nat /\ k \in Nat /\ c \in Seq(Symbols) /\ Len(c) = k
        /\ \A x \in 1 .. k : c[x] = t[x]
    BY CutIs
  <1>2. h \in Header
    <2> DEFINE hs == r.headers
    <2>1. hs \in Seq(Header) /\ m \in 1 .. Len(hs)
      BY TextPlaces
    <2> HIDE DEF hs
    <2>2. hs[m] \in Header
      BY <2>1, ElementOfSeq
    <2>. QED  BY <2>2 DEF hs
  <1>3. /\ name \in Seq(Symbols) /\ value \in Seq(Symbols)
        /\ \A x \in 1 .. a : name[x] \in NameChar
        /\ \A x \in 1 .. b : value[x] \in InLine
    <2>1. name \in Seq(NameChar) /\ value \in Seq(InLine)
      BY <1>2 DEF Header
    <2>2. name \in Seq(Symbols) /\ value \in Seq(Symbols)
      BY <1>2, LinePlaces
    <2> HIDE DEF name, value
    <2>. QED  BY <2>1, <2>2
  <1>4. /\ A \in Nat /\ Ahead(r, m + 1) = A + Len(Line(h))
        /\ Ahead(r, m + 1) <= Ahead(r, Len(r.headers) + 1)
        /\ Ahead(r, Len(r.headers) + 1) \in Nat
        /\ \A x \in 1 .. Len(Line(h)) : t[A + x] = Line(h)[x]
        /\ Len(t) = Ahead(r, Len(r.headers) + 1) + 2
    BY TextPlaces
  <1>5. /\ a \in Nat /\ b \in Nat /\ Len(Line(h)) = a + b + 4
        /\ \A x \in 1 .. a : Line(h)[x] = name[x]
        /\ Line(h)[a + 1] = ":" /\ Line(h)[a + 2] = " "
        /\ \A x \in 1 .. b : Line(h)[a + 2 + x] = value[x]
        /\ Line(h)[a + 2 + b + 1] = "CR" /\ Line(h)[a + 2 + b + 2] = "LF"
    BY <1>2, LinePlaces
  <1>6. k \in 1 .. Len(t) /\ A < k
    OBVIOUS
  <1> DEFINE B == Ahead(r, m + 1)
             E == Ahead(r, Len(r.headers) + 1)
             l == Line(h)
  <1> HIDE DEF name, value, a, b, A, B, E, l
  <1>0. /\ a \in Nat /\ b \in Nat /\ A \in Nat /\ B = A + a + b + 4 /\ B + 2 <= Len(t)
        /\ k \in 1 .. Len(t) /\ k \in Nat /\ Len(t) \in Nat /\ A < k
    <2>1. a \in Nat /\ b \in Nat /\ Len(l) = a + b + 4
      BY <1>5, Zenon DEF l
    <2>2. A \in Nat /\ B = A + Len(l) /\ B <= E /\ E \in Nat /\ Len(t) = E + 2
      BY <1>4, Zenon DEF B, E, l
    <2>3. k \in Nat /\ Len(t) \in Nat
      BY <1>1, Zenon
    <2> HIDE DEF t, l
    <2>. QED  BY <1>6, <2>1, <2>2, <2>3
  <1>7. /\ \A x \in 1 .. a : t[A + x] = name[x]
        /\ t[A + a + 1] = ":" /\ t[A + a + 2] = " "
        /\ \A x \in 1 .. b : t[A + a + 2 + x] = value[x]
        /\ t[s] = "CR" /\ t[s + 1] = "LF"
    <2>1. /\ \A x \in 1 .. a + b + 4 : t[A + x] = l[x]
      BY <1>4, <1>5, Zenon DEF l
    <2>2. ASSUME NEW x \in 1 .. a
          PROVE  t[A + x] = name[x]
      <3>1. x \in 1 .. a + b + 4
        BY <1>0
      <3>. QED  BY <1>5, <2>1, <3>1 DEF l
    <2>3. ASSUME NEW x \in 1 .. b
          PROVE  t[A + a + 2 + x] = value[x]
      <3> DEFINE y == a + 2 + x
      <3>1. y \in 1 .. a + b + 4 /\ A + y = A + a + 2 + x
        BY <1>0
      <3>2. l[y] = value[x]
        BY <1>5 DEF l
      <3> HIDE DEF y
      <3>. QED  BY <2>1, <3>1, <3>2
    <2>4. /\ a + 1 \in 1 .. a + b + 4 /\ A + (a + 1) = A + a + 1
          /\ a + 2 \in 1 .. a + b + 4 /\ A + (a + 2) = A + a + 2
          /\ a + 2 + b + 1 \in 1 .. a + b + 4 /\ A + (a + 2 + b + 1) = s
          /\ a + 2 + b + 2 \in 1 .. a + b + 4 /\ A + (a + 2 + b + 2) = s + 1
      BY <1>0
    <2>5. /\ t[A + (a + 1)] = l[a + 1] /\ t[A + (a + 2)] = l[a + 2]
          /\ t[A + (a + 2 + b + 1)] = l[a + 2 + b + 1]
          /\ t[A + (a + 2 + b + 2)] = l[a + 2 + b + 2]
      BY <2>1, <2>4
    <2>6. l[a + 1] = ":" /\ l[a + 2] = " " /\ l[a + 2 + b + 1] = "CR" /\ l[a + 2 + b + 2] = "LF"
      BY <1>5, Zenon DEF l
    <2> HIDE DEF s
    <2>. QED  BY <2>2, <2>3, <2>4, <2>5, <2>6
  <1>8. ~IsLineEnd(c, junk, i)
    <2>1. t[i] # "CR"
      <3>1. CASE a = 0
        <4>1. i = A + a + 1
          BY <1>0, <3>1
        <4>. QED  BY <1>7, <4>1
      <3>2. CASE a # 0
        <4>1. 1 \in 1 .. a
          BY <1>0, <3>2
        <4>2. t[i] = name[1] /\ name[1] \in NameChar
          BY <1>3, <1>7, <4>1
        <4>. QED  BY <4>2 DEF NameChar, Alpha, Upper
      <3>. QED  BY <3>1, <3>2
    <2>2. c[i] = t[i]
      <3>1. i \in 1 .. k
        BY <1>0
      <3>. QED  BY <1>1, <3>1
    <2>. QED  BY <2>1, <2>2 DEF IsLineEnd
  <1>9. NameEnd(c, i) = IF A + a + 1 <= k THEN A + a + 1 ELSE k + 1
    <2> DEFINE e == A + a + 1
    <2>1. e \in 1 .. Len(t) /\ i <= e /\ i \in Nat \ {0} /\ ~(i > k)
      BY <1>0
    <2>2. ASSUME NEW x \in i .. e - 1
          PROVE  t[x] \in NameChar
      <3> DEFINE j == x - A
      <3>1. j \in 1 .. a /\ x = A + j
        BY <1>0
      <3> HIDE DEF j
      <3>. QED  BY <1>3, <1>7, <3>1
    <2>3. t[e] \notin NameChar
      BY <1>7 DEF NameChar, Alpha, Upper
    <2> HIDE DEF i, e
    <2>4. After(c, NameChar, i) = IF i > k THEN i ELSE IF e <= k THEN e ELSE k + 1
      BY <2>1, <2>2, <2>3, AfterCut
    <2>. QED  BY <2>1, <2>4 DEF NameEnd, e
  <1>10. ValueStart(c, i) = IF A + a + 1 <= k THEN v ELSE k + 3
    <2>1. (A + a + 1) + 2 = v /\ (k + 1) + 2 = k + 3
      BY <1>0
    <2> HIDE DEF c, i, v
    <2>. QED  BY <1>9, <2>1 DEF ValueStart
  <1>11. ASSUME v <= k, NEW x \in v .. s - 1, x <= k
         PROVE  ~StopsValue(c, junk, x)
    <2> DEFINE j == x - (A + a + 2)
    <2>1. j \in 1 .. b /\ x = A + a + 2 + j /\ x \in 1 .. k
      BY <1>0, <1>11
    <2> HIDE DEF j
    <2>2. c[x] = value[j] /\ value[j] \in InLine
      BY <1>1, <1>3, <1>7, <2>1
    <2>3. c[x] # "CR" /\ c[x] # "NUL" /\ ~(x > Len(c))
      BY <1>0, <1>1, <2>1, <2>2 DEF InLine
    <2>. QED  BY <2>3 DEF StopsValue, IsLineEnd
  <1> HIDE DEF t, c
  <1>12. ASSUME B < k
         PROVE  /\ HasHeader(c, junk, i) /\ ValueEnd(c, junk, i) = s
                /\ HeaderAt(c, junk, i) = [name |-> name, value |-> value]
    <2>1. A + a + 1 <= k /\ v <= k /\ s + 2 <= k /\ v <= s /\ s + 2 = B + 1
      BY <1>0, <1>12
    <2>2. NameEnd(c, i) = A + a + 1 /\ ValueStart(c, i) = v
      BY <1>9, <1>10, <2>1
    <2>3. \A x \in 1 .. k : c[x] = t[x]
      BY <1>1
    <2>4. StopsValue(c, junk, s)
      <3>1. s \in 1 .. k /\ s + 1 \in 1 .. k /\ s # k
        BY <1>0, <2>1
      <3>2. c[s] = "CR" /\ c[s + 1] = "LF" /\ s # Len(c)
        BY <1>1, <1>7, <2>3, <3>1
      <3>. QED  BY <3>2 DEF StopsValue, IsLineEnd
    <2>5. \A x \in v .. s - 1 : ~StopsValue(c, junk, x)
      <3> SUFFICES ASSUME NEW x \in v .. s - 1
                   PROVE  ~StopsValue(c, junk, x)
        OBVIOUS
      <3>1. x <= k
        BY <1>0, <2>1
      <3>. QED  BY <1>11, <2>1, <3>1
    <2>6. ValueEnd(c, junk, i) = s
      <3>1. v \in Nat /\ s \in v .. k + 1 /\ k \in Nat /\ Len(c) = k
        <4>1. Len(c) = k
          BY <1>1
        <4>. QED  BY <1>0, <2>1, <4>1
      <3> HIDE DEF v, s, i
      <3>. QED  BY <2>1, <2>2, <2>4, <2>5, <3>1, ValueEndIs
    <2>7. SubSeq(c, NameEnd(c, i), ValueStart(c, i) - 1) = <<":", " ">>
      <3> DEFINE y == A + a + 1
                 part == <<":", " ">>
      <3>1. part \in Seq(Symbols) /\ Len(part) = 2 /\ part[1] = ":" /\ part[2] = " "
        BY DEF Symbols
      <3>2. /\ y \in Nat \ {0} /\ (y + 2) - 1 <= k /\ (y + 2) - 1 = v - 1
            /\ (y + 1) - 1 = A + a + 1 /\ (y + 2) - 1 = A + a + 2
            /\ A + a + 1 \in 1 .. k /\ A + a + 2 \in 1 .. k
        BY <1>0, <2>1
      <3> HIDE DEF y, part
      <3>3. \A x \in 1 .. 2 : x = 1 \/ x = 2
        OBVIOUS
      <3>4. ASSUME NEW x \in 1 .. Len(part)
            PROVE  c[(y + x) - 1] = part[x]
        <4>1. c[A + a + 1] = ":" /\ c[A + a + 2] = " "
          BY <1>7, <2>3, <3>2
        <4>2. c[(y + 1) - 1] = part[1] /\ c[(y + 2) - 1] = part[2]
          BY <3>1, <3>2, <4>1, Zenon
        <4>3. x = 1 \/ x = 2
          BY <3>1, <3>3
        <4>. QED  BY <4>2, <4>3, Zenon
      <3>5. (y + Len(part)) - 1 <= Len(c)
        BY <1>1, <3>1, <3>2, Zenon
      <3>6. SubSeq(c, y, (y + Len(part)) - 1) = part
        BY <1>1, <3>1, <3>2, <3>4, <3>5, PartIs
      <3>7. (y + Len(part)) - 1 = v - 1
        BY <3>1, <3>2, Zenon
      <3>. QED  BY <2>2, <3>6, <3>7, Zenon DEF y, part
    <2>8. SubSeq(c, i, NameEnd(c, i) - 1) = name
      <3>1. /\ i \in Nat \ {0} /\ (i + a) - 1 <= k /\ (i + a) - 1 = (A + a + 1) - 1
        BY <1>0, <2>1
      <3>2. ASSUME NEW x \in 1 .. Len(name)
            PROVE  c[(i + x) - 1] = name[x]
        <4>1. x \in 1 .. a
          BY DEF a
        <4>2. (i + x) - 1 = A + x /\ A + x \in 1 .. k
          BY <1>0, <2>1, <4>1
        <4>. QED  BY <1>7, <2>3, <4>1, <4>2
      <3>3. (i + Len(name)) - 1 <= Len(c)
        BY <1>1, <3>1, Zenon DEF a
      <3> HIDE DEF i
      <3>4. SubSeq(c, i, (i + Len(name)) - 1) = name
        BY <1>1, <1>3, <3>1, <3>2, <3>3, PartIs
      <3>. QED  BY <2>2, <3>1, <3>4, Zenon DEF a
    <2>9. SubSeq(c, ValueStart(c, i), ValueEnd(c, junk, i) - 1) = value
      <3>1. v \in Nat \ {0} /\ (v + b) - 1 <= k /\ (v + b) - 1 = s - 1
        BY <1>0, <2>1
      <3>2. ASSUME NEW x \in 1 .. Len(value)
            PROVE  c[(v + x) - 1] = value[x]
        <4>1. x \in 1 .. b
          BY DEF b
        <4>2. (v + x) - 1 = A + a + 2 + x /\ A + a + 2 + x \in 1 .. k
          BY <1>0, <2>1, <4>1
        <4>. QED  BY <1>7, <2>3, <4>1, <4>2
      <3>3. (v + Len(value)) - 1 <= Len(c)
        BY <1>1, <3>1, Zenon DEF b
      <3> HIDE DEF v, s
      <3>4. SubSeq(c, v, (v + Len(value)) - 1) = value
        BY <1>1, <1>3, <3>1, <3>2, <3>3, PartIs
      <3>. QED  BY <2>2, <2>6, <3>1, <3>4, Zenon DEF b
    <2>10. HasHeader(c, junk, i)
      <3>1. c[s] = "CR"
        <4>1. s \in 1 .. k
          BY <1>0, <2>1
        <4>. QED  BY <1>7, <2>3, <4>1
      <3>2. Len(c) = k
        BY <1>1
      <3> HIDE DEF i, v, s
      <3>. QED  BY <2>1, <2>2, <2>6, <2>7, <3>1, <3>2, Zenon DEF HasHeader
    <2>. QED  BY <2>6, <2>8, <2>9, <2>10, Zenon DEF HeaderAt
  <1>13. ASSUME ~(B < k)
         PROVE  ~HasHeader(c, junk, i)
    <2> SUFFICES ASSUME HasHeader(c, junk, i)
                 PROVE  FALSE
      OBVIOUS
    <2> DEFINE e == ValueEnd(c, junk, i)
    <2>1. ValueStart(c, i) <= k /\ e + 2 <= k
      BY <1>1 DEF HasHeader
    <2>2. ValueStart(c, i) = v /\ v <= k
      BY <1>0, <1>10, <2>1
    <2>3. e \in v .. k + 1 /\ StopsValue(c, junk, e)
      <3> DEFINE T == {x \in v .. k + 1 : StopsValue(c, junk, x)}
      <3>1. k + 1 \in T
        <4>1. k + 1 > Len(c) /\ k + 1 \in v .. k + 1
          <5>1. Len(c) = k
            BY <1>1
          <5>. QED  BY <1>0, <2>2, <5>1
        <4>. QED  BY <4>1 DEF StopsValue
      <3>2. T \subseteq Nat
        BY <1>0
      <3>3. PICK x \in T : \A y \in T : x <= y
        <4> HIDE DEF T
        <4>. QED  BY <3>1, <3>2, LeastNumber
      <3>4. \A y \in v .. x - 1 : ~StopsValue(c, junk, y)
        <4> SUFFICES ASSUME NEW y \in v .. x - 1, StopsValue(c, junk, y)
                     PROVE  FALSE
          OBVIOUS
        <4>1. y \in T /\ ~(x <= y)
          BY <1>0, <3>2
        <4>. QED  BY <3>3, <4>1
      <3>5. x \in v .. k + 1 /\ StopsValue(c, junk, x) /\ v \in Nat /\ Len(c) = k
        BY <1>0, <1>1
      <3> HIDE DEF T, v, i
      <3>6. ValueEnd(c, junk, i) = x
        BY <1>0, <2>2, <3>4, <3>5, ValueEndIs
      <3>. QED  BY <3>5, <3>6
    <2> HIDE DEF e
    <2>4. e \in v .. s - 1 /\ e <= k
      BY <1>0, <1>13, <2>1, <2>3
    <2>. QED  BY <1>11, <2>2, <2>3, <2>4
  <1>14. s + 2 = B + 1
    BY <1>0
  <1>. QED  BY <1>8, <1>12, <1>13, <1>14, Zenon DEF HeaderIsRead, c, A, B, name, value, h

-----------------------------------------------------------------------------
(* The blank line, and the numbers of a range. *)

(* The blank line is no header; what is read behind the text decides only *)
(* whether its first half counts.                                          *)
LEMMA LastLine ==
    ASSUME NEW r \in Requests, NEW k \in 1 .. Len(RequestText(r)), NEW junk,
           Ahead(r, Len(r.headers) + 1) < k
    PROVE  /\ ~HasHeader(Sent(r, k), junk, Ahead(r, Len(r.headers) + 1) + 1)
           /\ k = Len(RequestText(r)) =>
                 IsLineEnd(Sent(r, k), junk, Ahead(r, Len(r.headers) + 1) + 1)
  <1> DEFINE t == RequestText(r)
             c == Sent(r, k)
             E == Ahead(r, Len(r.headers) + 1)
             i == E + 1
  <1>1. /\ Len(t) \in Nat /\ k \in Nat /\ Len(c) = k
        /\ \A x \in 1 .. k : c[x] = t[x]
    BY CutIs
  <1>2. E \in Nat /\ Len(t) = E + 2 /\ t[E + 1] = "CR" /\ t[E + 2] = "LF"
    BY TextPlaces
  <1>3. E < k /\ k \in 1 .. Len(t)
    OBVIOUS
  <1> HIDE DEF t, c, E
  <1>4. i \in 1 .. k /\ i \in Nat /\ i <= i /\ i <= k + 1 /\ ~(i + 2 <= k)
    BY <1>1, <1>2, <1>3
  <1>5. c[i] = "CR"
    BY <1>1, <1>2, <1>4
  <1>6. NameEnd(c, i) = i
    <2>1. c[i] \notin NameChar
      BY <1>5 DEF NameChar, Alpha, Upper
    <2>2. \A x \in i .. i - 1 : c[x] \in NameChar
      BY <1>4
    <2> HIDE DEF i
    <2>. QED  BY <1>1, <1>4, <2>1, <2>2, AfterIs DEF NameEnd
  <1>7. ~HasHeader(c, junk, i)
    BY <1>1, <1>4, <1>6, Zenon DEF HasHeader, ValueStart
  <1>8. ASSUME k = Len(t)
        PROVE  IsLineEnd(c, junk, i)
    <2>1. i + 1 \in 1 .. k /\ i + 1 = E + 2 /\ i # k
      BY <1>2, <1>8
    <2>2. c[i + 1] = "LF" /\ i # Len(c)
      BY <1>1, <1>2, <2>1, Zenon
    <2>. QED  BY <1>5, <2>2 DEF IsLineEnd
  <1>. QED  BY <1>7, <1>8 DEF t, c, E

-----------------------------------------------------------------------------
(* What holds at first, and of each number if of the one before, holds of  *)
(* all.                                                                    *)
LEMMA StepByStep ==
    ASSUME NEW n \in Nat, NEW T, 0 \in T, \A j \in 1 .. n : j - 1 \in T => j \in T
    PROVE  \A j \in 0 .. n : j \in T
  <1> DEFINE f == [j \in 0 .. n |-> IF j \in T THEN 1 ELSE 0]
             g == [j \in 0 .. n |-> 1]
  <1>1. TakeSameSteps(f, g, n)
    <2>1. f[0] = g[0]
      OBVIOUS
    <2>2. ASSUME NEW j \in 1 .. n, f[j - 1] = g[j - 1]
          PROVE  f[j] = g[j]
      <3>1. j - 1 \in 0 .. n /\ j \in 0 .. n
        OBVIOUS
      <3>. QED  BY <2>2, <3>1
    <2> HIDE DEF f, g
    <2>. QED  BY <2>1, <2>2, Zenon DEF TakeSameSteps
  <1>2. \A j \in 0 .. n : f[j] = g[j]
    <2> HIDE DEF f, g
    <2>. QED  BY <1>1, SameSteps
  <1>. QED  BY <1>2

(* Two numbers have the same low bits. *)
SameLow(x, y) == \E q \in Int : x = y + q * LL_VALUES

(* What becomes of a number has its low bits, and is a long long. *)
LEMMA ToLongLongIs ==
    ASSUME NEW x \in Int
    PROVE  /\ ToLongLong(x) \in -(LLONG_MAX + 1) .. LLONG_MAX
           /\ ToLongLong(x) \in Int
           /\ SameLow(ToLongLong(x), x)
  <1> DEFINE M == LL_VALUES
             low == x % M
             high == x \div M
  <1>1. M \in Nat /\ M > 0 /\ M = 2 * (LLONG_MAX + 1) /\ LLONG_MAX \in Nat
    BY LongLongAssumption DEF LL_VALUES
  <1>2. low \in 0 .. M - 1 /\ high \in Int /\ x = M * high + low
    <2> HIDE DEF M
    <2>. QED  BY <1>1
  <1> HIDE DEF M, low, high
  <1>3. ToLongLong(x) = IF low > LLONG_MAX THEN low - M ELSE low
    BY DEF ToLongLong, low, M
  <1>4. low = x + (-high) * M /\ low - M = x + ((-high) - 1) * M
    BY <1>1, <1>2
  <1>5. -high \in Int /\ (-high) - 1 \in Int
    BY <1>2
  <1>6. SameLow(low, x) /\ SameLow(low - M, x)
    BY <1>4, <1>5 DEF SameLow, M
  <1>9. low \in Int /\ low - M \in Int
    BY <1>1, <1>2
  <1>7. low > LLONG_MAX => low - M \in -(LLONG_MAX + 1) .. LLONG_MAX
    BY <1>1, <1>2
  <1>8. ~(low > LLONG_MAX) => low \in -(LLONG_MAX + 1) .. LLONG_MAX
    BY <1>1, <1>2
  <1>. QED  BY <1>3, <1>6, <1>7, <1>8, <1>9

(* Two long longs with the same low bits are the same. *)
LEMMA SameLowOnce ==
    ASSUME NEW x \in -(LLONG_MAX + 1) .. LLONG_MAX, NEW y \in -(LLONG_MAX + 1) .. LLONG_MAX,
           SameLow(x, y)
    PROVE  x = y
  <1>1. PICK q \in Int : x = y + q * LL_VALUES
    BY DEF SameLow
  <1> DEFINE M == LL_VALUES
             d == q * M
  <1>2. M \in Nat /\ M = 2 * (LLONG_MAX + 1) /\ LLONG_MAX \in Nat
    BY LongLongAssumption DEF LL_VALUES
  <1> HIDE DEF M
  <1>3. (q >= 1 => d >= M) /\ (q <= -1 => d <= -M) /\ (q = 0 => d = 0) /\ d \in Int
    BY <1>2
  <1> HIDE DEF d
  <1>4. x = y + d
    BY <1>1 DEF d, M
  <1>5. d < M /\ d > -M
    BY <1>2, <1>3, <1>4
  <1>6. q = 0
    BY <1>2, <1>3, <1>5
  <1>. QED  BY <1>3, <1>4, <1>6

LEMMA SameLowIsTransitive ==
    ASSUME NEW x \in Int, NEW y \in Int, NEW z \in Int, SameLow(x, y), SameLow(y, z)
    PROVE  SameLow(x, z)
  <1>1. PICK q \in Int : x = y + q * LL_VALUES
    BY DEF SameLow
  <1>2. PICK p \in Int : y = z + p * LL_VALUES
    BY DEF SameLow
  <1> DEFINE M == LL_VALUES
  <1>3. M \in Int
    BY LongLongAssumption DEF LL_VALUES
  <1> HIDE DEF M
  <1>4. (z + p * M) + q * M = z + (p + q) * M /\ p + q \in Int
    BY <1>3
  <1>5. x = z + (p + q) * M
    BY <1>1, <1>2, <1>4 DEF M
  <1>. QED  BY <1>4, <1>5 DEF SameLow, M

(* Sums and multiples of such numbers have the same low bits, too. *)
LEMMA SameLowPlus ==
    ASSUME NEW x \in Int, NEW y \in Int, NEW z \in Int, NEW u \in Int,
           SameLow(x, y), SameLow(z, u)
    PROVE  SameLow(x + z, y + u)
  <1>1. PICK q \in Int : x = y + q * LL_VALUES
    BY DEF SameLow
  <1>2. PICK p \in Int : z = u + p * LL_VALUES
    BY DEF SameLow
  <1> DEFINE M == LL_VALUES
  <1>3. M \in Int
    BY LongLongAssumption DEF LL_VALUES
  <1> HIDE DEF M
  <1>4. (y + q * M) + (u + p * M) = (y + u) + (q + p) * M /\ q + p \in Int
    BY <1>3
  <1>5. x + z = (y + u) + (q + p) * M
    BY <1>1, <1>2, <1>4 DEF M
  <1>. QED  BY <1>4, <1>5 DEF SameLow, M

LEMMA SameLowTimes ==
    ASSUME NEW x \in Int, NEW y \in Int, NEW z \in Int, SameLow(x, y)
    PROVE  SameLow(z * x, z * y)
  <1>1. PICK q \in Int : x = y + q * LL_VALUES
    BY DEF SameLow
  <1> DEFINE M == LL_VALUES
  <1>3. M \in Int
    BY LongLongAssumption DEF LL_VALUES
  <1> HIDE DEF M
  <1>4. z * (y + q * M) = z * y + (z * q) * M /\ z * q \in Int
    BY <1>3
  <1>5. z * x = z * y + (z * q) * M
    BY <1>1, <1>4 DEF M
  <1>. QED  BY <1>4, <1>5 DEF SameLow, M

LEMMA SameLowAsItself ==
    ASSUME NEW x \in Int
    PROVE  SameLow(x, x)
  <1>1. LL_VALUES \in Int
    BY LongLongAssumption DEF LL_VALUES
  <1>2. x = x + 0 * LL_VALUES
    BY <1>1
  <1>. QED  BY <1>2 DEF SameLow

(* Each power is what becomes of ten times the one before. *)
IsPower(f, b) == f = [n \in 0 .. b |-> IF n = 0 THEN 1 ELSE ToLongLong(10 * f[n - 1])]
Power(b) == CHOOSE f : IsPower(f, b)

(* The powers of ten exist, one after the other. *)
LEMMA PowerExists ==
    ASSUME NEW b \in Nat
    PROVE  /\ Power(b)[0] = 1
           /\ \A n \in 1 .. b : Power(b)[n] = ToLongLong(10 * Power(b)[n - 1])
           /\ \A n \in 0 .. b : Power(b)[n] \in Int
  <1> DEFINE step == [t \in (0 + 1 .. b) \X Int |-> ToLongLong(10 * t[2])]
  <1>1. step \in [(0 + 1 .. b) \X Int -> Int] /\ 0 \in Int /\ b \in Int /\ 0 <= b /\ 1 \in Int
    <2>1. \A x \in Int : 10 * x \in Int
      OBVIOUS
    <2>2. \A x \in Int : ToLongLong(x) \in Int
      BY ToLongLongIs
    <2>. QED  BY <2>1, <2>2
  <1>2. \A n \in 0 + 1 .. b, x \in Int : step[<<n, x>>] = ToLongLong(10 * x)
    OBVIOUS
  <1> HIDE DEF step
  <1>3. PICK f : Computes(f, Int, 0, b, 1, step)
    BY <1>1, RecursionExists
  <1>4. f \in [0 .. b -> Int] /\ f[0] = 1 /\ \A n \in 0 + 1 .. b : f[n] = step[<<n, f[n - 1]>>]
    BY <1>3 DEF Computes
  <1>5. \A n \in 0 .. b : f[n] = IF n = 0 THEN 1 ELSE ToLongLong(10 * f[n - 1])
    <2> SUFFICES ASSUME NEW n \in 0 .. b, n # 0
                 PROVE  f[n] = ToLongLong(10 * f[n - 1])
      BY <1>4
    <2>1. n \in 0 + 1 .. b /\ n - 1 \in 0 .. b
      OBVIOUS
    <2>2. f[n - 1] \in Int
      BY <1>4, <2>1
    <2>. QED  BY <1>2, <1>4, <2>1, <2>2
  <1>6. f = [n \in 0 .. b |-> IF n = 0 THEN 1 ELSE ToLongLong(10 * f[n - 1])]
    <2>1. f = [n \in 0 .. b |-> f[n]]
      BY <1>4
    <2>. QED  BY <1>5, <2>1
  <1>7. IsPower(Power(b), b)
    BY <1>6, Zenon DEF Power, IsPower
  <1> DEFINE g == Power(b)
  <1>8. g[0] = 1 /\ \A n \in 1 .. b : g[n] = ToLongLong(10 * g[n - 1])
    <2>1. 0 \in 0 .. b /\ \A n \in 1 .. b : n \in 0 .. b /\ n # 0
      OBVIOUS
    <2>. QED  BY <1>7, <2>1, Zenon DEF IsPower
  <1> HIDE DEF g
  <1>9. \A n \in 0 .. b : f[n] = g[n]
    <2>1. \A n \in 1 .. b : f[n] = ToLongLong(10 * f[n - 1])
      <3>1. \A n \in 1 .. b : n \in 0 .. b /\ n # 0
        OBVIOUS
      <3>. QED  BY <1>5, <3>1, Zenon
    <2>2. \A n \in 1 .. b : f[n - 1] = g[n - 1] => f[n] = g[n]
      BY <1>8, <2>1, Zenon
    <2>3. f[0] = g[0]
      BY <1>4, <1>8
    <2>4. TakeSameSteps(f, g, b)
      BY <2>2, <2>3, Zenon DEF TakeSameSteps
    <2>. QED  BY <2>4, SameSteps
  <1>10. \A n \in 0 .. b : g[n] \in Int
    BY <1>4, <1>9
  <1>. QED  BY <1>8, <1>10 DEF g

(* ll_power is what becomes of ten times itself for each further digit. *)
LEMMA Powers ==
    /\ ll_power(10, 0) = 1
    /\ \A b \in Nat : /\ ll_power(10, b) \in Int
                      /\ ll_power(10, b + 1) = ToLongLong(10 * ll_power(10, b))
  <1>1. ASSUME NEW b \in Nat
        PROVE  ll_power(10, b) = Power(b)[b]
    BY Zenon DEF ll_power, Power, IsPower
  <1>2. ll_power(10, 0) = 1
    BY <1>1, PowerExists
  <1>3. ASSUME NEW b \in Nat
        PROVE  /\ ll_power(10, b) \in Int
               /\ ll_power(10, b + 1) = ToLongLong(10 * ll_power(10, b))
    <2> DEFINE f == Power(b)
               g == Power(b + 1)
    <2>1. b + 1 \in Nat /\ b \in 0 .. b /\ b + 1 \in 1 .. b + 1 /\ (b + 1) - 1 = b
      OBVIOUS
    <2>2. /\ f[0] = 1 /\ \A n \in 1 .. b : f[n] = ToLongLong(10 * f[n - 1])
          /\ \A n \in 0 .. b : f[n] \in Int
      BY PowerExists
    <2>3. g[0] = 1 /\ \A n \in 1 .. b + 1 : g[n] = ToLongLong(10 * g[n - 1])
      BY <2>1, PowerExists
    <2>4. ll_power(10, b) = f[b] /\ ll_power(10, b + 1) = g[b + 1]
      BY <1>1, <2>1
    <2> HIDE DEF f, g
    <2>5. \A n \in 1 .. b : n \in 1 .. b + 1
      OBVIOUS
    <2>6. \A n \in 1 .. b : f[n - 1] = g[n - 1] => f[n] = g[n]
      BY <2>2, <2>3, <2>5, Zenon
    <2>7. \A n \in 0 .. b : f[n] = g[n]
      <3>1. f[0] = g[0]
        BY <2>2, <2>3
      <3>2. TakeSameSteps(f, g, b)
        BY <2>6, <3>1, Zenon DEF TakeSameSteps
      <3>. QED  BY <3>2, SameSteps
    <2>8. g[b + 1] = ToLongLong(10 * g[b])
      BY <2>1, <2>3
    <2>. QED  BY <2>1, <2>2, <2>4, <2>7, <2>8, Zenon
  <1>. QED  BY <1>2, <1>3

(* What the first digits stand for. *)
IsUpto(f, digits) ==
    f = [i \in 0 .. Len(digits) |-> IF i = 0 THEN 0 ELSE 10 * f[i - 1] + DigitValue(digits[i])]
Upto(digits) == CHOOSE f : IsUpto(f, digits)

(* A number is read from its left, digit by digit. *)
LEMMA NumberIs ==
    ASSUME NEW digits \in Seq(Digit)
    PROVE  \E f : /\ f[0] = 0
                  /\ \A i \in 1 .. Len(digits) :
                        /\ f[i] = 10 * f[i - 1] + DigitValue(digits[i])
                        /\ f[i - 1] \in Nat
                        /\ DigitValue(digits[i]) \in Nat
                  /\ digits # <<>> => Number(digits) = f[Len(digits)]
                  /\ f[Len(digits)] \in Nat
  <1> DEFINE L == Len(digits)
             V == [i \in 1 .. L |-> DigitValue(digits[i])]
             step == [t \in (0 + 1 .. L) \X Nat |-> 10 * t[2] + V[t[1]]]
  <1>1. L \in Nat /\ \A i \in 1 .. L : digits[i] \in Digit
    OBVIOUS
  <1>2. \A d \in Digit : DigitValue(d) \in Nat
    BY DEF Digit, DigitValue
  <1>3. V \in [1 .. L -> Nat] /\ \A i \in 1 .. L : V[i] = DigitValue(digits[i])
    BY <1>1, <1>2
  <1> HIDE DEF L, V
  <1>4. step \in [(0 + 1 .. L) \X Nat -> Nat] /\ 0 \in Int /\ L \in Int /\ 0 <= L
    BY <1>1, <1>3
  <1>5. \A i \in 0 + 1 .. L, x \in Nat : step[<<i, x>>] = 10 * x + V[i]
    OBVIOUS
  <1> HIDE DEF step
  <1>6. PICK f : Computes(f, Nat, 0, L, 0, step)
    BY <1>4, RecursionExists
  <1>7. f \in [0 .. L -> Nat] /\ f[0] = 0 /\ \A i \in 0 + 1 .. L : f[i] = step[<<i, f[i - 1]>>]
    BY <1>6 DEF Computes
  <1>8. \A i \in 0 .. L : f[i] = IF i = 0 THEN 0 ELSE 10 * f[i - 1] + V[i]
    <2> SUFFICES ASSUME NEW i \in 0 .. L, i # 0
                 PROVE  f[i] = 10 * f[i - 1] + V[i]
      BY <1>7
    <2>1. i \in 0 + 1 .. L /\ i - 1 \in 0 .. L
      BY <1>1
    <2>2. f[i - 1] \in Nat
      BY <1>7, <2>1
    <2>. QED  BY <1>5, <1>7, <2>1, <2>2
  <1>9. \A i \in 0 .. L : f[i] = IF i = 0 THEN 0 ELSE 10 * f[i - 1] + DigitValue(digits[i])
    <2>1. \A i \in 0 .. L : i = 0 \/ i \in 1 .. L
      BY <1>1
    <2>. QED  BY <1>3, <1>8, <2>1, Zenon
  <1>10. f = [i \in 0 .. L |-> IF i = 0 THEN 0 ELSE 10 * f[i - 1] + DigitValue(digits[i])]
    <2>1. f = [i \in 0 .. L |-> f[i]]
      BY <1>7
    <2>. QED  BY <1>9, <2>1, Zenon
  <1> DEFINE g == Upto(digits)
  <1>11. IsUpto(g, digits)
    BY <1>10, Zenon DEF Upto, IsUpto, L
  <1>12. g[0] = 0 /\ \A i \in 1 .. L : g[i] = 10 * g[i - 1] + DigitValue(digits[i])
    <2>1. 0 \in 0 .. L /\ \A i \in 1 .. L : i \in 0 .. L /\ i # 0
      BY <1>1
    <2>. QED  BY <1>11, <2>1, Zenon DEF IsUpto, L
  <1>13. digits # <<>> => Number(digits) = g[L]
    BY Zenon DEF Number, Upto, IsUpto, L
  <1> HIDE DEF g
  <1>14. \A i \in 0 .. L : f[i] = g[i]
    <2>1. \A i \in 1 .. L : f[i] = 10 * f[i - 1] + DigitValue(digits[i])
      <3>1. \A i \in 1 .. L : i \in 0 .. L /\ i # 0
        BY <1>1
      <3>. QED  BY <1>9, <3>1, Zenon
    <2>2. \A i \in 1 .. L : f[i - 1] = g[i - 1] => f[i] = g[i]
      BY <1>12, <2>1, Zenon
    <2>3. f[0] = g[0]
      BY <1>7, <1>12
    <2>4. TakeSameSteps(f, g, L)
      BY <2>2, <2>3, Zenon DEF TakeSameSteps
    <2>. QED  BY <1>1, <2>4, SameSteps
  <1>15. \A i \in 0 .. L : g[i] \in Nat
    BY <1>7, <1>14
  <1>16. L \in 0 .. L /\ \A i \in 1 .. L : i - 1 \in 0 .. L
    BY <1>1
  <1>17. \A i \in 1 .. L : /\ g[i] = 10 * g[i - 1] + DigitValue(digits[i])
                           /\ g[i - 1] \in Nat
                           /\ DigitValue(digits[i]) \in Nat
    BY <1>1, <1>2, <1>12, <1>15, <1>16, Zenon
  <1>18. g[L] \in Nat
    BY <1>15, <1>16, Zenon
  <1>. QED  BY <1>12, <1>13, <1>17, <1>18, Zenon DEF L

(* Digits that are summed with their powers are the number of which each  *)
(* digit is ten times the next, if a long long has room for that.          *)
LEMMA NumberParsed ==
    ASSUME NEW digits \in Seq(Digit), digits # <<>>, NEW text, NEW i \in Nat, NEW j \in Nat,
           j = i + Len(digits), \A x \in 1 .. Len(digits) : text[(i + x) - 1] = digits[x],
           Number(digits) <= LLONG_MAX
    PROVE  consume_next_num(text, i, j) = Number(digits)
  <1> DEFINE L == Len(digits)
             P == [e \in Nat |-> ll_power(10, e)]
             V == [x \in 1 .. L |-> DigitValue(digits[x])]
             Sum(x, n) == ToLongLong(x + ToLongLong(V[n] * P[L - n]))
             Part(f, n) == IF n = 0 THEN 0
                           ELSE ToLongLong(f[n - 1] +
                                   ToLongLong(DigitValue(text[i + n - 1])
                                                * ll_power(10, (j - i) - n)))
             IsNum(f) == f = [n \in 0 .. j - i |-> Part(f, n)]
             num == CHOOSE f : IsNum(f)
  <1>1. PICK h : /\ h[0] = 0
                 /\ \A x \in 1 .. L : /\ h[x] = 10 * h[x - 1] + DigitValue(digits[x])
                                      /\ h[x - 1] \in Nat
                                      /\ DigitValue(digits[x]) \in Nat
                 /\ Number(digits) = h[L]
                 /\ h[L] \in Nat
    BY NumberIs
  <1>2. L \in Nat /\ j - i = L
    OBVIOUS
  <1>0. \A x \in Int : ToLongLong(x) \in Int /\ SameLow(ToLongLong(x), x)
    BY ToLongLongIs
  <1>3. P[0] = 1 /\ \A e \in Nat : /\ P[e] \in Int /\ P[e + 1] = ToLongLong(10 * P[e])
                                     /\ ll_power(10, e) = P[e]
    <2>1. 0 \in Nat /\ \A e \in Nat : e + 1 \in Nat
      OBVIOUS
    <2>2. \A e \in Nat : P[e] = ll_power(10, e)
      OBVIOUS
    <2> HIDE DEF P
    <2>. QED  BY <2>1, <2>2, Powers, Zenon
  <1>4. \A x \in 1 .. L : V[x] = DigitValue(digits[x]) /\ V[x] \in Int
    BY <1>1
  <1>5. consume_next_num(text, i, j) = num[L]
    BY <1>2, Zenon DEF consume_next_num
  <1>6. ASSUME NEW f, NEW n \in 1 .. L
        PROVE  Part(f, n) = Sum(f[n - 1], n)
    <2>1. i + n - 1 = (i + n) - 1 /\ L - n \in Nat /\ n # 0 /\ (j - i) - n = L - n
      BY <1>2
    <2>2. text[(i + n) - 1] = digits[n]
      OBVIOUS
    <2>3. DigitValue(text[i + n - 1]) = V[n]
      BY <1>4, <2>1, <2>2
    <2>4. ll_power(10, (j - i) - n) = P[L - n]
      BY <1>3, <2>1
    <2>. QED  BY <2>1, <2>3, <2>4, Zenon
  <1>7. \A f : Part(f, 0) = 0
    OBVIOUS
  <1>8. \A n \in 1 .. L : h[n] = 10 * h[n - 1] + V[n] /\ h[n - 1] \in Int
    BY <1>1, <1>4
  <1>9. \A n \in 1 .. L : V[n] * P[L - n] \in Int
    <2> SUFFICES ASSUME NEW n \in 1 .. L
                 PROVE  V[n] * P[L - n] \in Int
      OBVIOUS
    <2>1. L - n \in Nat
      BY <1>2
    <2>2. V[n] \in Int /\ P[L - n] \in Int
      BY <1>3, <1>4, <2>1
    <2>. QED  BY <2>2
  <1>10. \A n \in 1 .. L, x \in Int : Sum(x, n) \in Int
    <2> SUFFICES ASSUME NEW n \in 1 .. L, NEW x \in Int
                 PROVE  Sum(x, n) \in Int
      OBVIOUS
    <2> DEFINE y == ToLongLong(V[n] * P[L - n])
    <2>1. y \in Int
      BY <1>0, <1>9
    <2> HIDE DEF y
    <2>2. x + y \in Int
      BY <2>1
    <2>3. ToLongLong(x + y) \in Int
      BY <1>0, <2>2
    <2>. QED  BY <2>3 DEF y
  <1> DEFINE step == [t \in (0 + 1 .. L) \X Int |-> Sum(t[2], t[1])]
  <1> HIDE DEF Part, Sum, P, V, L
  <1>11. /\ step \in [(0 + 1 .. L) \X Int -> Int]
         /\ \A n \in 0 + 1 .. L, x \in Int : step[<<n, x>>] = Sum(x, n)
         /\ 0 \in Int /\ L \in Int /\ 0 <= L
    <2>1. \A t \in (0 + 1 .. L) \X Int : t[1] \in 1 .. L /\ t[2] \in Int
      BY <1>2
    <2>2. \A t \in (0 + 1 .. L) \X Int : Sum(t[2], t[1]) \in Int
      BY <1>10, <2>1, Zenon
    <2>3. step \in [(0 + 1 .. L) \X Int -> Int]
      BY <2>2
    <2>4. \A n \in 0 + 1 .. L, x \in Int : step[<<n, x>>] = Sum(x, n)
      OBVIOUS
    <2> HIDE DEF step
    <2>. QED  BY <1>2, <2>3, <2>4
  <1> HIDE DEF step
  <1>12. PICK f : Computes(f, Int, 0, L, 0, step)
    BY <1>11, RecursionExists
  <1>13. f \in [0 .. L -> Int] /\ f[0] = 0 /\ \A n \in 0 + 1 .. L : f[n] = step[<<n, f[n - 1]>>]
    BY <1>12 DEF Computes
  <1>14. \A n \in 1 .. L : n - 1 \in 0 .. L /\ n \in 0 + 1 .. L /\ n \in 0 .. L
    BY <1>2
  <1>15. \A n \in 1 .. L : f[n] = Sum(f[n - 1], n) /\ f[n - 1] \in Int /\ f[n] \in Int
    BY <1>11, <1>13, <1>14
  <1>16. \A n \in 0 .. L : f[n] = Part(f, n)
    <2>1. \A n \in 0 .. L : n = 0 \/ n \in 1 .. L
      BY <1>2
    <2>. QED  BY <1>6, <1>7, <1>13, <1>15, <2>1, Zenon
  <1>17. IsNum(f)
    <2>1. f = [n \in 0 .. L |-> f[n]]
      BY <1>13
    <2>2. f = [n \in 0 .. L |-> Part(f, n)]
      BY <1>16, <2>1, Zenon
    <2>. QED  BY <1>2, <2>2, Zenon
  <1>18. IsNum(num)
    BY <1>17, Zenon
  <1> HIDE DEF num
  <1>19. \A n \in 0 .. L : num[n] = Part(num, n)
    BY <1>2, <1>18, Zenon
  <1>20. \A n \in 0 .. L : f[n] = num[n]
    <2>1. \A n \in 1 .. L : num[n] = Sum(num[n - 1], n)
      BY <1>6, <1>14, <1>19, Zenon
    <2>2. 0 \in 0 .. L
      BY <1>2
    <2>3. num[0] = f[0]
      BY <1>7, <1>13, <1>19, <2>2, Zenon
    <2>4. TakeSameSteps(f, num, L)
      BY <1>15, <2>1, <2>3, Zenon DEF TakeSameSteps
    <2>. QED  BY <1>2, <2>4, SameSteps
  <1> DEFINE g == [n \in 0 .. L |-> h[n] * P[L - n]]
             T == {n \in 0 .. L : SameLow(f[n], g[n])}
  <1>21. g[0] = 0 /\ g[L] = h[L]
    <2>1. L - 0 \in Nat /\ L - L = 0 /\ 0 \in 0 .. L /\ L \in 0 .. L /\ L - 0 = L
      BY <1>2
    <2>2. P[L] \in Int /\ P[0] = 1 /\ h[L] \in Nat
      BY <1>1, <1>2, <1>3 DEF L
    <2>. QED  BY <1>1, <2>1, <2>2
  <1>22. ASSUME NEW n \in 1 .. L, SameLow(f[n - 1], g[n - 1])
         PROVE  SameLow(f[n], g[n])
    <2> DEFINE p == P[L - n]
               a == h[n - 1]
               v == V[n]
               w == P[L - (n - 1)]
               y == ToLongLong(v * p)
               x == f[n - 1]
    <2>1. /\ L - n \in Nat /\ (L - n) + 1 = L - (n - 1) /\ n \in 0 .. L /\ n - 1 \in 0 .. L
      BY <1>2
    <2>2. p \in Int /\ w = ToLongLong(10 * p) /\ 10 * p \in Int
      <3>1. P[L - n] \in Int /\ P[(L - n) + 1] = ToLongLong(10 * P[L - n])
        BY <1>3, <2>1, Zenon
      <3>2. 10 * p \in Int
        BY <3>1
      <3>. QED  BY <2>1, <3>1, <3>2, Zenon
    <2>3. a \in Int /\ v \in Int /\ h[n] = 10 * a + v
      BY <1>4, <1>8
    <2>4. g[n] = h[n] * p /\ g[n - 1] = a * w
      BY <2>1
    <2>5. x \in Int /\ f[n] = ToLongLong(x + y)
      BY <1>15 DEF Sum
    <2>6. SameLow(x, a * w)
      BY <1>22, <2>4
    <2> HIDE DEF p, a, v, g, w, y, x
    <2>7. v * p \in Int /\ a * w \in Int /\ a * (10 * p) \in Int /\ w \in Int
      <3>1. w \in Int
        BY <1>0, <2>2
      <3>. QED  BY <2>2, <2>3, <3>1
    <2>8. y \in Int /\ SameLow(y, v * p)
      BY <1>0, <2>7 DEF y
    <2>9. SameLow(w, 10 * p)
      BY <1>0, <2>2
    <2>10. SameLow(a * w, a * (10 * p))
      BY <2>2, <2>3, <2>7, <2>9, SameLowTimes
    <2>11. SameLow(x, a * (10 * p))
      BY <2>5, <2>6, <2>7, <2>10, SameLowIsTransitive
    <2>12. SameLow(x + y, a * (10 * p) + v * p)
      BY <2>5, <2>7, <2>8, <2>11, SameLowPlus
    <2>13. x + y \in Int /\ a * (10 * p) + v * p \in Int
      BY <2>5, <2>7, <2>8
    <2>14. f[n] \in Int /\ SameLow(f[n], x + y)
      BY <1>0, <2>5, <2>13
    <2>15. SameLow(f[n], a * (10 * p) + v * p)
      BY <2>12, <2>13, <2>14, SameLowIsTransitive
    <2>16. (10 * a + v) * p = a * (10 * p) + v * p
      BY <2>2, <2>3
    <2>. QED  BY <2>3, <2>4, <2>15, <2>16, Zenon
  <1> HIDE DEF g
  <1>23. 0 \in T /\ L \in 0 .. L
    <2>1. 0 \in 0 .. L /\ L \in 0 .. L
      BY <1>2
    <2>2. f[0] = g[0] /\ g[0] = 0
      BY <1>13, <1>21
    <2>3. SameLow(f[0], g[0])
      BY <2>2, SameLowAsItself
    <2>. QED  BY <2>1, <2>3
  <1>24. \A n \in 1 .. L : n - 1 \in T => n \in T
    BY <1>14, <1>22
  <1> HIDE DEF T
  <1>25. L \in T
    BY <1>2, <1>23, <1>24, StepByStep
  <1>26. SameLow(f[L], h[L])
    BY <1>21, <1>25 DEF T
  <1>27. h[L] \in -(LLONG_MAX + 1) .. LLONG_MAX
    BY <1>1, LongLongAssumption DEF L
  <1>28. f[L] \in -(LLONG_MAX + 1) .. LLONG_MAX
    <2>1. L \in 1 .. L
      BY <1>2, EmptySeq DEF L
    <2> DEFINE y == ToLongLong(V[L] * P[L - L])
               x == f[L - 1]
    <2>2. f[L] = ToLongLong(x + y) /\ x \in Int /\ y \in Int
      <3>1. f[L] = Sum(x, L) /\ x \in Int
        BY <1>15, <2>1
      <3>2. y \in Int
        BY <1>0, <1>9, <2>1
      <3>. QED  BY <3>1, <3>2 DEF Sum
    <2> HIDE DEF x, y
    <2>3. x + y \in Int
      BY <2>2
    <2>. QED  BY <2>2, <2>3, ToLongLongIs
  <1>29. f[L] = h[L]
    BY <1>26, <1>27, <1>28, SameLowOnce
  <1>. QED  BY <1>1, <1>5, <1>20, <1>23, <1>29, Zenon DEF L

RangeSymbols == Digit \union {"bytes=", "-"}

(* Two parts of a range, one after the other. *)
LEMMA JoinRange ==
    ASSUME NEW s \in Seq(RangeSymbols), NEW t \in Seq(RangeSymbols)
    PROVE  /\ s \o t \in Seq(RangeSymbols)
           /\ Len(s) \in Nat /\ Len(t) \in Nat
           /\ Len(s \o t) = Len(s) + Len(t)
           /\ \A i \in 1 .. Len(s) : (s \o t)[i] = s[i]
           /\ \A i \in 1 .. Len(t) : (s \o t)[Len(s) + i] = t[i]
  <1> DEFINE S == RangeSymbols
  <1>1. s \in Seq(S) /\ t \in Seq(S)
    OBVIOUS
  <1> HIDE DEF S
  <1>2. /\ s \o t \in Seq(S)
        /\ Len(s) \in Nat /\ Len(t) \in Nat
        /\ Len(s \o t) = Len(s) + Len(t)
        /\ \A i \in 1 .. Len(s) : (s \o t)[i] = s[i]
        /\ \A i \in 1 .. Len(t) : (s \o t)[Len(s) + i] = t[i]
    BY <1>1, JoinedPlaces
  <1>. QED  BY <1>2 DEF S

(* What stands where in the text of a range. *)
LEMMA RangePlaces ==
    ASSUME NEW s \in Seq(Digit), NEW e \in Seq(Digit), NEW value,
           value = <<"bytes=">> \o s \o <<"-">> \o e
    PROVE  /\ Len(s) \in Nat /\ Len(e) \in Nat
           /\ Len(value) = Len(s) + Len(e) + 2
           /\ value[1] = "bytes="
           /\ \A x \in 1 .. Len(s) : value[x + 1] = s[x] /\ s[x] \in Digit
           /\ value[Len(s) + 2] = "-"
           /\ \A x \in 1 .. Len(e) : value[Len(s) + 2 + x] = e[x] /\ e[x] \in Digit
  <1> DEFINE S == RangeSymbols
             unit == <<"bytes=">>
             dash == <<"-">>
             u == unit \o s
             v == u \o dash
             a == Len(s)
             b == Len(e)
  <1>1. s \in Seq(S) /\ e \in Seq(S)
    <2>1. Digit \subseteq S
      BY DEF RangeSymbols
    <2>. QED  BY <2>1, SeqMonotonic
  <1>2. unit \in Seq(S) /\ dash \in Seq(S) /\ Len(unit) = 1 /\ Len(dash) = 1
        /\ unit[1] = "bytes=" /\ dash[1] = "-"
    BY DEF RangeSymbols
  <1>3. \A x \in 1 .. a : s[x] \in Digit
    OBVIOUS
  <1>4. \A x \in 1 .. b : e[x] \in Digit
    OBVIOUS
  <1> HIDE DEF S, unit, dash, a, b, u, v
  <1>5. /\ u \in Seq(S) /\ a \in Nat /\ Len(u) = 1 + a
        /\ \A x \in 1 .. 1 : u[x] = unit[x]
        /\ \A x \in 1 .. a : u[1 + x] = s[x]
    <2>1. /\ u \in Seq(S) /\ a \in Nat /\ Len(u) = Len(unit) + a
          /\ \A x \in 1 .. Len(unit) : u[x] = unit[x]
          /\ \A x \in 1 .. a : u[Len(unit) + x] = s[x]
      BY <1>1, <1>2, JoinRange DEF u, a, S
    <2>2. Len(unit) = 1
      BY <1>2
    <2>. QED  BY <2>1, <2>2
  <1>6. /\ v \in Seq(S) /\ Len(v) = Len(u) + 1
        /\ \A x \in 1 .. Len(u) : v[x] = u[x]
        /\ \A x \in 1 .. 1 : v[Len(u) + x] = dash[x]
    <2>1. /\ v \in Seq(S) /\ Len(v) = Len(u) + Len(dash)
          /\ \A x \in 1 .. Len(u) : v[x] = u[x]
          /\ \A x \in 1 .. Len(dash) : v[Len(u) + x] = dash[x]
      BY <1>2, <1>5, JoinRange DEF v, S
    <2>2. Len(dash) = 1
      BY <1>2
    <2>. QED  BY <2>1, <2>2
  <1>7. /\ b \in Nat /\ Len(value) = Len(v) + b
        /\ \A x \in 1 .. Len(v) : value[x] = v[x]
        /\ \A x \in 1 .. b : value[Len(v) + x] = e[x]
    <2>1. value = v \o e
      BY DEF v, u, unit, dash
    <2>2. e \in Seq(S) /\ v \in Seq(S)
      BY <1>1, <1>6
    <2> DEFINE both == v \o e
    <2>3. /\ b \in Nat /\ Len(both) = Len(v) + b
          /\ \A x \in 1 .. Len(v) : both[x] = v[x]
          /\ \A x \in 1 .. b : both[Len(v) + x] = e[x]
      BY <2>2, JoinRange DEF b, S
    <2> HIDE DEF both
    <2>4. both = value
      BY <2>1 DEF both
    <2>. QED  BY <2>3, <2>4, Zenon
  <1>8. Len(u) = a + 1 /\ Len(v) = a + 2 /\ Len(value) = a + b + 2
    BY <1>5, <1>6, <1>7
  <1>9. value[1] = "bytes="
    <2>1. 1 \in 1 .. 1 /\ 1 \in 1 .. a + 1 /\ 1 \in 1 .. a + 2
      BY <1>5
    <2>2. value[1] = v[1] /\ v[1] = u[1] /\ u[1] = unit[1]
      BY <1>5, <1>6, <1>7, <1>8, <2>1, Zenon
    <2>. QED  BY <1>2, <2>2, Zenon
  <1>10. ASSUME NEW x \in 1 .. a
         PROVE  value[x + 1] = s[x]
    <2> DEFINE y == 1 + x
    <2>1. y \in 1 .. a + 1 /\ y \in 1 .. a + 2 /\ x + 1 = y
      BY <1>5
    <2>2. u[y] = s[x]
      BY <1>5
    <2> HIDE DEF y
    <2>3. value[y] = v[y] /\ v[y] = u[y]
      BY <1>6, <1>7, <1>8, <2>1, Zenon
    <2>. QED  BY <2>1, <2>2, <2>3, Zenon
  <1>11. value[a + 2] = "-"
    <2> DEFINE y == a + 2
    <2>1. y \in 1 .. a + 2 /\ 1 \in 1 .. 1 /\ (a + 1) + 1 = y
      BY <1>5
    <2>2. v[(a + 1) + 1] = dash[1]
      BY <1>6, <1>8, <2>1, Zenon
    <2> HIDE DEF y
    <2>3. value[y] = v[y]
      BY <1>7, <1>8, <2>1, Zenon DEF y
    <2>. QED  BY <1>2, <2>1, <2>2, <2>3, Zenon DEF y
  <1>12. \A x \in 1 .. b : value[a + 2 + x] = e[x]
    BY <1>7, <1>8, Zenon
  <1>. QED  BY <1>3, <1>4, <1>5, <1>7, <1>8, <1>9, <1>10, <1>11, <1>12, Zenon DEF a, b

-----------------------------------------------------------------------------
Given(m, p, h, c, s, e, er) ==
    [method |-> m, path |-> p, host |-> h, connection |-> c,
     range_start |-> s, range_end |-> e, error |-> er]

(* The value of a range is parsed as the numbers that it stands for. *)
LEMMA RangeParsed ==
    ASSUME NEW hd \in Header, StandsForRange(hd),
           Number(hd.start) <= LLONG_MAX, Number(hd.end) <= LLONG_MAX, NEW m, NEW p, NEW h, NEW c, NEW er
    PROVE  WithRange(Given(m, p, h, c, NotGiven, NotGiven, er), hd.value)
              = Given(m, p, h, c, Number(hd.start), Number(hd.end), er)
  <1> DEFINE q == Given(m, p, h, c, NotGiven, NotGiven, er)
             value == hd.value
             s == hd.start
             e == hd.end
             a == Len(s)
             b == Len(e)
             n == Len(value)
             start == After(value, Digit, 2)
             stop == After(value, Digit, start + 1)
  <1>1. s \in Seq(Digit) /\ e \in Seq(Digit) /\ value \in Seq(InLine) /\ n \in Nat
    BY DEF Header
  <1>0. Number(s) <= LLONG_MAX /\ Number(e) <= LLONG_MAX
    OBVIOUS
  <1>2. Number(<<>>) = NotGiven
    BY DEF Number
  <1>3. CASE value = <<"bytes=">> \o s \o <<"-">> \o e
    <2>1. /\ a \in Nat /\ b \in Nat /\ n = a + b + 2 /\ value[1] = "bytes="
          /\ \A x \in 1 .. a : value[x + 1] = s[x] /\ s[x] \in Digit
          /\ value[a + 2] = "-"
          /\ \A x \in 1 .. b : value[a + 2 + x] = e[x] /\ e[x] \in Digit
      <3> HIDE DEF s, e, value, n
      <3>. QED  BY <1>1, <1>3, RangePlaces DEF n
    <2>2. s = <<>> <=> a = 0
      BY <1>1, EmptySeq
    <2>3. e = <<>> <=> b = 0
      BY <1>1, EmptySeq
    <2> HIDE DEF s, e, a, b, value, n, q
    <2>0. a \in Nat /\ b \in Nat /\ n = a + b + 2 /\ n \in Nat
      BY <1>1, <2>1, Zenon
    <2>4. start = a + 2
      <3> DEFINE y == a + 2
      <3>1. 2 \in Nat /\ y \in Nat /\ 2 <= y /\ y <= n + 1
        BY <2>0
      <3>2. ASSUME NEW x \in 2 .. y - 1
            PROVE  value[x] \in Digit
        <4> DEFINE z == x - 1
        <4>1. z \in 1 .. a /\ z + 1 = x
          BY <2>0
        <4> HIDE DEF z
        <4>. QED  BY <2>1, <4>1
      <3>3. value[y] \notin Digit
        BY <2>1 DEF Digit
      <3> HIDE DEF y
      <3>4. After(value, Digit, 2) = y
        BY <1>1, <3>1, <3>2, <3>3, AfterIs DEF n
      <3>. QED  BY <3>4 DEF y
    <2>5. stop = a + b + 3
      <3> DEFINE y == a + b + 3
                 w == a + 3
      <3>1. w \in Nat /\ y \in Nat /\ w <= y /\ y <= n + 1 /\ ~(y <= n) /\ start + 1 = w
        BY <2>0, <2>4
      <3>2. ASSUME NEW x \in w .. y - 1
            PROVE  value[x] \in Digit
        <4> DEFINE z == x - (a + 2)
        <4>1. z \in 1 .. b /\ a + 2 + z = x
          BY <2>0
        <4> HIDE DEF z
        <4>2. value[a + 2 + z] \in Digit
          BY <2>1, <4>1
        <4>. QED  BY <4>1, <4>2
      <3> HIDE DEF y, w, start
      <3>3. After(value, Digit, w) = y
        BY <1>1, <3>1, <3>2, AfterIs DEF n
      <3>. QED  BY <3>1, <3>3 DEF y
    <2>6. start <= n /\ value[start] = "-" /\ ~(n < 2)
      BY <2>0, <2>1, <2>4
    <2>7. start = 2 <=> s = <<>>
      BY <2>0, <2>2, <2>4
    <2>8. stop <= start + 1 <=> e = <<>>
      BY <2>0, <2>3, <2>4, <2>5
    <2>9. ASSUME s # <<>>
          PROVE  consume_next_num(value, 2, start) = Number(s)
      <3>1. 2 \in Nat /\ start \in Nat /\ start = 2 + a
        BY <2>0, <2>4
      <3>2. ASSUME NEW x \in 1 .. a
            PROVE  value[(2 + x) - 1] = s[x]
        <4>1. (2 + x) - 1 = x + 1
          BY <2>0
        <4>. QED  BY <2>1, <4>1
      <3> HIDE DEF start
      <3>. QED  BY <1>0, <1>1, <2>9, <3>1, <3>2, NumberParsed DEF a
    <2>10. ASSUME e # <<>>
           PROVE  consume_next_num(value, start + 1, stop) = Number(e)
      <3> DEFINE w == start + 1
      <3>1. w \in Nat /\ stop \in Nat /\ stop = w + b
        BY <2>0, <2>4, <2>5
      <3>2. ASSUME NEW x \in 1 .. b
            PROVE  value[(w + x) - 1] = e[x]
        <4>1. (w + x) - 1 = a + 2 + x
          BY <2>0, <2>4
        <4>. QED  BY <2>1, <4>1
      <3> HIDE DEF start, stop, w
      <3>3. consume_next_num(value, w, stop) = Number(e)
        BY <1>0, <1>1, <2>10, <3>1, <3>2, NumberParsed DEF b
      <3>. QED  BY <3>3 DEF w
    <2> DEFINE first == IF start = 2 THEN q.range_start ELSE consume_next_num(value, 2, start)
               last == IF stop <= start + 1 THEN q.range_end
                       ELSE consume_next_num(value, start + 1, stop)
    <2>11. q.range_start = NotGiven /\ q.range_end = NotGiven
      BY DEF q, Given
    <2> HIDE DEF start, stop
    <2>12. first = Number(s)
      BY <1>2, <2>7, <2>9, <2>11, Zenon
    <2>13. last = Number(e)
      BY <1>2, <2>8, <2>10, <2>11, Zenon
    <2>14. WithRange(q, value) = [q EXCEPT !.range_start = first, !.range_end = last]
      BY <2>1, <2>6, Zenon DEF WithRange, start, stop, n
    <2> HIDE DEF first, last
    <2>15. [q EXCEPT !.range_start = first, !.range_end = last] = Given(m, p, h, c, first, last, er)
      <3>1. q = Given(m, p, h, c, NotGiven, NotGiven, er)
        BY DEF q
      <3>2. [q EXCEPT !.range_start = first] = Given(m, p, h, c, first, NotGiven, er)
        BY <3>1 DEF Given
      <3>3. [Given(m, p, h, c, first, NotGiven, er) EXCEPT !.range_end = last]
               = Given(m, p, h, c, first, last, er)
        BY DEF Given
      <3>4. [q EXCEPT !.range_start = first, !.range_end = last]
               = [[q EXCEPT !.range_start = first] EXCEPT !.range_end = last]
        OBVIOUS
      <3>. QED  BY <3>2, <3>3, <3>4, Zenon
    <2>. QED  BY <2>12, <2>13, <2>14, <2>15, Zenon DEF q, value, s, e
  <1>4. CASE /\ s = <<>> /\ e = <<>>
             /\ \/ value = <<>>
                \/ Head(value) # "bytes="
                \/ Tail(value) \in Seq(Digit)
    <2>1. WithRange(q, value) = q
      <3>1. CASE n < 2
        BY <3>1, Zenon DEF WithRange
      <3>2. CASE ~(n < 2)
        <4>1. value # <<>> /\ value[1] = Head(value)
          BY <1>1, <3>2
        <4>2. CASE Head(value) # "bytes="
          BY <4>1, <4>2, Zenon DEF WithRange
        <4>3. CASE value[1] = "bytes=" /\ Tail(value) \in Seq(Digit)
          <5>1. \A x \in 2 .. n : value[x] \in Digit
            <6> SUFFICES ASSUME NEW x \in 2 .. n
                         PROVE  value[x] \in Digit
              OBVIOUS
            <6> DEFINE t == Tail(value)
                       y == x - 1
            <6>1. Len(t) = n - 1 /\ \A z \in 1 .. Len(t) : t[z] = value[z + 1]
              BY <1>1, <4>1, HeadTailProperties
            <6>2. y \in 1 .. n - 1 /\ y + 1 = x
              BY <1>1
            <6>3. t[y] \in Digit
              <7> HIDE DEF t, y
              <7>. QED  BY <4>3, <6>1, <6>2 DEF t
            <6> HIDE DEF t, y
            <6>. QED  BY <6>1, <6>2, <6>3
          <5>2. After(value, Digit, 2) = n + 1
            <6> DEFINE y == n + 1
            <6>1. 2 \in Nat /\ y \in Nat /\ 2 <= y /\ y <= n + 1 /\ ~(y <= n) /\ y - 1 = n
              BY <1>1, <3>2
            <6>2. \A x \in 2 .. y - 1 : value[x] \in Digit
              BY <5>1, <6>1
            <6> HIDE DEF y
            <6>3. After(value, Digit, 2) = y
              BY <1>1, <6>1, <6>2, AfterIs
            <6>. QED  BY <6>3 DEF y
          <5>3. ~(start <= n)
            <6>1. ~(n + 1 <= n)
              BY <1>1
            <6>. QED  BY <5>2, <6>1
          <5>4. WithRange(q, value) = [q EXCEPT !.range_start = NotGiven]
            BY <3>2, <4>3, <5>3, Zenon DEF WithRange
          <5>. QED  BY <5>4 DEF Given
        <4>. QED  BY <1>4, <4>1, <4>2, <4>3
      <3>. QED  BY <3>1, <3>2
    <2>. QED  BY <1>2, <1>4, <2>1, Zenon DEF q, value, s, e
  <1>. QED  BY <1>3, <1>4 DEF StandsForRange

-----------------------------------------------------------------------------
(* The fields that the headers give: each is of one header at most. *)

(* A name is of one header at most, whose value is the name's. *)
LEMMA ValueIs ==
    ASSUME NEW r \in Requests, NEW q \in 0 .. Len(r.headers), NEW name, NEW field, NEW none
    PROVE  /\ \A i \in 1 .. q : r.headers[i].name = name =>
                 ValueOf(r, q, name, field, none) = r.headers[i][field]
           /\ (\A i \in 1 .. q : r.headers[i].name # name) =>
                 ValueOf(r, q, name, field, none) = none
  <1> DEFINE hs == r.headers
             P(i) == hs[i].name = name
  <1>1. \A i, j \in 1 .. q : hs[i].name = hs[j].name => i = j
    <2>1. hs \in Seq(Header) /\ \A i, j \in DOMAIN hs : hs[i].name = hs[j].name => i = j
      BY RequestAssumption
    <2>2. DOMAIN hs = 1 .. Len(hs) /\ Len(hs) \in Nat
      BY <2>1
    <2>3. 1 .. q \subseteq 1 .. Len(hs)
      BY <2>2
    <2> HIDE DEF hs
    <2>. QED  BY <2>1, <2>2, <2>3, Zenon
  <1>2. ValueOf(r, q, name, field, none) =
           IF \E i \in 1 .. q : P(i) THEN hs[CHOOSE i \in 1 .. q : P(i)][field] ELSE none
    BY Zenon DEF ValueOf
  <1>3. ASSUME NEW i \in 1 .. q, P(i)
        PROVE  ValueOf(r, q, name, field, none) = hs[i][field]
    <2> DEFINE j == CHOOSE j \in 1 .. q : P(j)
    <2>1. j \in 1 .. q /\ P(j)
      BY <1>3, Zenon
    <2> HIDE DEF j
    <2>2. j = i
      BY <1>1, <1>3, <2>1, Zenon
    <2>. QED  BY <1>2, <1>3, <2>2, Zenon DEF j
  <1>4. ASSUME \A i \in 1 .. q : ~P(i)
        PROVE  ValueOf(r, q, name, field, none) = none
    BY <1>2, <1>4, Zenon
  <1>. QED  BY <1>3, <1>4, Zenon

IsFound(r, q, name, field, none) ==
    \A i \in 1 .. q : r.headers[i].name = name =>
       ValueOf(r, q, name, field, none) = r.headers[i][field]

(* The value of a name is the value of a header with that name, if there   *)
(* is one.                                                                 *)
LEMMA ValueFound ==
    ASSUME NEW r \in Requests, NEW q \in 0 .. Len(r.headers), NEW name, NEW field, NEW none
    PROVE  IsFound(r, q, name, field, none)
  BY ValueIs DEF IsFound

(* There is no value for a name that no header has. *)
LEMMA NoValue ==
    ASSUME NEW r \in Requests, NEW q \in 0 .. Len(r.headers), NEW name, NEW field, NEW none,
           \A i \in 1 .. q : r.headers[i].name # name
    PROVE  ValueOf(r, q, name, field, none) = none
  BY ValueIs

(* One header more gives its own name a value, and no other. *)
LEMMA ValueGrows ==
    ASSUME NEW r \in Requests, NEW q \in 1 .. Len(r.headers), NEW name, NEW field, NEW none
    PROVE  ValueOf(r, q, name, field, none) =
              IF r.headers[q].name = name THEN r.headers[q][field]
              ELSE ValueOf(r, q - 1, name, field, none)
  <1> DEFINE hs == r.headers
  <1>1. Len(hs) \in Nat
    BY TextPlaces
  <1>2. /\ q \in 0 .. Len(hs) /\ q - 1 \in 0 .. Len(hs) /\ q \in 1 .. q
        /\ \A i \in 1 .. q - 1 : i \in 1 .. q
        /\ \A i \in 1 .. q : i = q \/ i \in 1 .. q - 1
    BY <1>1
  <1> HIDE DEF hs
  <1>3. CASE hs[q].name = name
    <2>1. ValueOf(r, q, name, field, none) = hs[q][field]
      <3>1. IsFound(r, q, name, field, none)
        BY <1>2, ValueFound DEF hs
      <3>. QED  BY <1>2, <1>3, <3>1, Zenon DEF IsFound, hs
    <2>. QED  BY <1>3, <2>1, Zenon DEF hs
  <1>4. CASE hs[q].name # name
    <2>1. CASE \E i \in 1 .. q - 1 : hs[i].name = name
      <3>1. PICK i \in 1 .. q - 1 : hs[i].name = name
        BY <2>1
      <3>2. ValueOf(r, q - 1, name, field, none) = hs[i][field]
        <4>1. IsFound(r, q - 1, name, field, none)
          BY <1>2, ValueFound DEF hs
        <4>. QED  BY <3>1, <4>1, Zenon DEF IsFound, hs
      <3>3. ValueOf(r, q, name, field, none) = hs[i][field]
        <4>1. IsFound(r, q, name, field, none)
          BY <1>2, ValueFound DEF hs
        <4>. QED  BY <1>2, <3>1, <4>1, Zenon DEF IsFound, hs
      <3>. QED  BY <1>4, <3>2, <3>3, Zenon DEF hs
    <2>2. CASE \A i \in 1 .. q - 1 : hs[i].name # name
      <3>1. ValueOf(r, q - 1, name, field, none) = none
        BY <1>2, <2>2, NoValue DEF hs
      <3>2. \A i \in 1 .. q : hs[i].name # name
        BY <1>2, <1>4, <2>2, Zenon
      <3>3. ValueOf(r, q, name, field, none) = none
        BY <1>2, <3>2, NoValue DEF hs
      <3>. QED  BY <1>4, <3>1, <3>3, Zenon DEF hs
    <2>. QED  BY <2>1, <2>2
  <1>. QED  BY <1>3, <1>4 DEF hs

(* What the first headers give is what all give, or nothing. *)
LEMMA ValueStays ==
    ASSUME NEW r \in Requests, NEW q \in 0 .. Len(r.headers), NEW name, NEW field, NEW none
    PROVE  ValueOf(r, q, name, field, none) \in
              {ValueOf(r, Len(r.headers), name, field, none), none}
  <1> DEFINE n == Len(r.headers)
  <1>1. n \in Nat
    BY TextPlaces
  <1>2. n \in 0 .. n /\ 1 .. q \subseteq 1 .. n
    BY <1>1
  <1>3. CASE \E i \in 1 .. q : r.headers[i].name = name
    <2>1. PICK i \in 1 .. q : r.headers[i].name = name
      BY <1>3
    <2>2. i \in 1 .. n
      BY <1>2
    <2>3. IsFound(r, q, name, field, none)
      BY ValueFound
    <2> HIDE DEF n
    <2>4. IsFound(r, n, name, field, none)
      BY <1>2, ValueFound DEF n
    <2>5. /\ ValueOf(r, q, name, field, none) = r.headers[i][field]
          /\ ValueOf(r, n, name, field, none) = r.headers[i][field]
      BY <2>1, <2>2, <2>3, <2>4, Zenon DEF IsFound
    <2>. QED  BY <2>5, Zenon DEF n
  <1>4. CASE \A i \in 1 .. q : r.headers[i].name # name
    <2>1. ValueOf(r, q, name, field, none) = none
      BY <1>4, NoValue
    <2>. QED  BY <2>1
  <1>. QED  BY <1>3, <1>4

(* A header that is read adds its value to the fields. *)
LEMMA FieldsGrow ==
    ASSUME NEW r \in Requests, NEW q \in 1 .. Len(r.headers)
    PROVE  WithHeader(FieldsOf(r, q - 1), [name |-> r.headers[q].name, value |-> r.headers[q].value])
              = FieldsOf(r, q)
  <1> DEFINE hd == r.headers[q]
             name == hd.name
             value == hd.value
             H == [name |-> name, value |-> value]
             V(f, x, none) == ValueOf(r, q, f, x, none)
             W(f, x, none) == ValueOf(r, q - 1, f, x, none)
  <1>1. PICK no : no = FALSE
    OBVIOUS
  <1>2. FieldsOf(r, q) =
           Given(r.method, r.path, V(<<"Host">>, "value", Null), V(<<"Connection">>, "value", Null),
                 Number(V(<<"Range">>, "start", <<>>)), Number(V(<<"Range">>, "end", <<>>)), no)
    BY <1>1, Zenon DEF FieldsOf, Given
  <1>3. FieldsOf(r, q - 1) =
           Given(r.method, r.path, W(<<"Host">>, "value", Null), W(<<"Connection">>, "value", Null),
                 Number(W(<<"Range">>, "start", <<>>)), Number(W(<<"Range">>, "end", <<>>)), no)
    BY <1>1, Zenon DEF FieldsOf, Given
  <1>4. \A f, x, none : V(f, x, none) = IF name = f THEN hd[x] ELSE W(f, x, none)
    BY ValueGrows, Zenon
  <1>5. H.name = name /\ H.value = value
    OBVIOUS
  <1>6. /\ <<"Host">> # <<"Connection">> /\ <<"Host">> # <<"Range">>
        /\ <<"Connection">> # <<"Range">>
    OBVIOUS
  <1> HIDE DEF V, W, H
  <1> DEFINE m == r.method
             p == r.path
             h == W(<<"Host">>, "value", Null)
             c == W(<<"Connection">>, "value", Null)
             s == Number(W(<<"Range">>, "start", <<>>))
             e == Number(W(<<"Range">>, "end", <<>>))
             g == Given(m, p, h, c, s, e, no)
  <1>7. FieldsOf(r, q) =
           Given(m, p, IF name = <<"Host">> THEN value ELSE h,
                 IF name = <<"Connection">> THEN value ELSE c,
                 IF name = <<"Range">> THEN Number(hd.start) ELSE s,
                 IF name = <<"Range">> THEN Number(hd.end) ELSE e, no)
    <2>1. V(<<"Host">>, "value", Null) = IF name = <<"Host">> THEN value ELSE h
      BY <1>4, Zenon
    <2>2. V(<<"Connection">>, "value", Null) = IF name = <<"Connection">> THEN value ELSE c
      BY <1>4, Zenon
    <2>3. Number(V(<<"Range">>, "start", <<>>)) = IF name = <<"Range">> THEN Number(hd.start) ELSE s
      BY <1>4, Zenon
    <2>4. Number(V(<<"Range">>, "end", <<>>)) = IF name = <<"Range">> THEN Number(hd.end) ELSE e
      BY <1>4, Zenon
    <2>. QED  BY <1>2, <2>1, <2>2, <2>3, <2>4, Zenon
  <1>8. FieldsOf(r, q - 1) = g
    BY <1>3, Zenon
  <1>9. hd \in Header
        /\ (name = <<"Range">> => /\ StandsForRange(hd)
                                  /\ Number(hd.start) <= LLONG_MAX
                                  /\ Number(hd.end) <= LLONG_MAX)
    <2>1. r.headers \in Seq(Header) /\ Len(r.headers) \in Nat /\ q \in DOMAIN r.headers
      BY TextPlaces
    <2>. QED  BY <2>1, RequestAssumption
  <1>10. ASSUME name = <<"Range">>
         PROVE  s = NotGiven /\ e = NotGiven
    <2>1. \A i \in 1 .. q - 1 : r.headers[i].name # name
      <3>1. /\ Len(r.headers) \in Nat /\ DOMAIN r.headers = 1 .. Len(r.headers)
        BY TextPlaces
      <3>2. \A i \in 1 .. q - 1 : i \in DOMAIN r.headers /\ i # q
        BY <3>1
      <3>3. q \in DOMAIN r.headers
        BY <3>1
      <3>4. \A i, j \in DOMAIN r.headers : r.headers[i].name = r.headers[j].name => i = j
        BY RequestAssumption
      <3>. QED  BY <3>2, <3>3, <3>4, Zenon
    <2>2. q - 1 \in 0 .. Len(r.headers)
      <3>1. Len(r.headers) \in Nat
        BY TextPlaces
      <3>. QED  BY <3>1
    <2>3. \A x : W(<<"Range">>, x, <<>>) = <<>>
      BY <1>10, <2>1, <2>2, NoValue DEF W
    <2>4. Number(<<>>) = NotGiven
      BY DEF Number
    <2>. QED  BY <2>3, <2>4, Zenon
  <1> HIDE DEF name, value, h, c, s, e, m, p, hd
  <1>11. CASE name = <<"Host">>
    <2>1. WithHeader(g, H) = [g EXCEPT !.host = value]
      BY <1>5, <1>11 DEF WithHeader
    <2>2. [g EXCEPT !.host = value] = Given(m, p, value, c, s, e, no)
      BY DEF Given
    <2>3. FieldsOf(r, q) = Given(m, p, value, c, s, e, no)
      BY <1>6, <1>7, <1>11, Zenon
    <2>. QED  BY <1>8, <2>1, <2>2, <2>3, Zenon DEF H, name, value, hd
  <1>12. CASE name = <<"Connection">>
    <2>1. WithHeader(g, H) = [g EXCEPT !.connection = value]
      BY <1>5, <1>6, <1>12 DEF WithHeader
    <2>2. [g EXCEPT !.connection = value] = Given(m, p, h, value, s, e, no)
      BY DEF Given
    <2>3. FieldsOf(r, q) = Given(m, p, h, value, s, e, no)
      BY <1>6, <1>7, <1>12, Zenon
    <2>. QED  BY <1>8, <2>1, <2>2, <2>3, Zenon DEF H, name, value, hd
  <1>13. CASE name = <<"Range">>
    <2>1. WithHeader(g, H) = WithRange(g, value)
      BY <1>5, <1>6, <1>13 DEF WithHeader
    <2>2. WithRange(g, value) = Given(m, p, h, c, Number(hd.start), Number(hd.end), no)
      BY <1>9, <1>10, <1>13, RangeParsed, Zenon DEF value
    <2>3. FieldsOf(r, q) = Given(m, p, h, c, Number(hd.start), Number(hd.end), no)
      BY <1>6, <1>7, <1>13, Zenon
    <2>. QED  BY <1>8, <2>1, <2>2, <2>3, Zenon DEF H, name, value, hd
  <1>14. CASE name \notin {<<"Host">>, <<"Connection">>, <<"Range">>}
    <2>1. WithHeader(g, H) = g
      BY <1>5, <1>14 DEF WithHeader
    <2>2. FieldsOf(r, q) = g
      BY <1>7, <1>14, Zenon
    <2>. QED  BY <1>8, <2>1, <2>2, Zenon DEF H, name, value, hd
  <1>. QED  BY <1>11, <1>12, <1>13, <1>14

-----------------------------------------------------------------------------
(* The loop over the headers, turn by turn. *)

AtTurn(i, fields, done) == [r |-> i, req |-> fields, done |-> done]

AtPlace(now, i) == [now EXCEPT !.r = i]
WithFields(now, fields) == [now EXCEPT !.req = fields]
WithDone(now, done) == [now EXCEPT !.done = done]

(* What a turn of the loop sets, and leaves. *)
LEMMA NowChanges ==
    ASSUME NEW i, NEW q, NEW done, NEW x
    PROVE  /\ AtPlace(AtTurn(i, q, done), x) = AtTurn(x, q, done)
           /\ WithFields(AtTurn(i, q, done), x) = AtTurn(i, x, done)
           /\ WithDone(AtTurn(i, q, done), x) = AtTurn(i, q, x)
  <1>1. AtPlace(AtTurn(i, q, done), x) = AtTurn(x, q, done)
    BY DEF AtTurn, AtPlace
  <1>2. WithFields(AtTurn(i, q, done), x) = AtTurn(i, x, done)
    BY DEF AtTurn, WithFields
  <1>3. WithDone(AtTurn(i, q, done), x) = AtTurn(i, q, x)
    BY DEF AtTurn, WithDone
  <1>. QED  BY <1>1, <1>2, <1>3

(* TRUE and FALSE as values of their own, which the provers need. *)
Yes(x) == x = TRUE
No(x) == x = FALSE

WithError(fields, error) == [fields EXCEPT !.error = error]
Failed(now, yes) == [now EXCEPT !.done = yes, !.req.error = yes]

(* A turn that fails sets the error, and is the last. *)
LEMMA ErrorSet ==
    ASSUME NEW i, NEW q, NEW no, NEW yes
    PROVE  Failed(AtTurn(i, q, no), yes) = AtTurn(i, WithError(q, yes), yes)
  <1> DEFINE now == AtTurn(i, q, no)
             q2 == [q EXCEPT !.error = yes]
             w == AtTurn(i, q, yes)
  <1>1. [now EXCEPT !.done = yes, !.req.error = yes]
           = [[now EXCEPT !.done = yes] EXCEPT !.req.error = yes]
    <2> HIDE DEF now
    <2>. QED  OBVIOUS
  <1>2. [now EXCEPT !.done = yes] = WithDone(now, yes)
    BY DEF WithDone
  <1>3. WithDone(now, yes) = w
    BY NowChanges
  <1>4. ASSUME NEW m
        PROVE  [m EXCEPT !.req.error = yes] = WithFields(m, [m.req EXCEPT !.error = yes])
    BY DEF WithFields
  <1>5. w.req = q
    BY DEF AtTurn
  <1>6. WithFields(w, q2) = AtTurn(i, q2, yes)
    BY NowChanges
  <1> HIDE DEF now, w, q2
  <1>7. [now EXCEPT !.done = yes] = w
    BY <1>2, <1>3, Zenon
  <1>8. [w EXCEPT !.req.error = yes] = WithFields(w, [w.req EXCEPT !.error = yes])
    BY <1>4
  <1>9. [[now EXCEPT !.done = yes] EXCEPT !.req.error = yes] = [w EXCEPT !.req.error = yes]
    BY <1>7, Zenon
  <1>10. [w.req EXCEPT !.error = yes] = q2
    BY <1>5, Zenon DEF q2
  <1>. QED  BY <1>1, <1>6, <1>8, <1>9, <1>10, Zenon DEF now, q2, Failed, WithError

(* A turn of the loop: nothing after the last one; the end at a blank      *)
(* line; an error at half a header; otherwise the next header.             *)
LEMMA TurnIs ==
    ASSUME NEW text, NEW junk, NEW i, NEW q, NEW yes, NEW no, Yes(yes), No(no)
    PROVE  /\ Turn(text, junk, AtTurn(i, q, yes)) = AtTurn(i, q, yes)
           /\ IsLineEnd(text, junk, i) => Turn(text, junk, AtTurn(i, q, no)) = AtTurn(i, q, yes)
           /\ ~IsLineEnd(text, junk, i) /\ ~HasHeader(text, junk, i) =>
                 Turn(text, junk, AtTurn(i, q, no)) = AtTurn(i, WithError(q, yes), yes)
           /\ ~IsLineEnd(text, junk, i) /\ HasHeader(text, junk, i) =>
                 Turn(text, junk, AtTurn(i, q, no)) =
                    AtTurn(ValueEnd(text, junk, i) + 2, WithHeader(q, HeaderAt(text, junk, i)), no)
  <1> DEFINE now == AtTurn(i, q, no)
             then == AtTurn(i, q, yes)
  <1>1. \A x, y, z : AtTurn(x, y, z).r = x /\ AtTurn(x, y, z).req = y /\ AtTurn(x, y, z).done = z
    BY DEF AtTurn
  <1>2. now.r = i /\ now.req = q /\ now.done = no
    BY <1>1
  <1>3. then.done = yes
    BY <1>1
  <1> HIDE DEF now, then
  <1>4. ~now.done /\ then.done
    BY <1>2, <1>3 DEF Yes, No
  <1>5. Turn(text, junk, then) = then
    BY <1>4, Zenon DEF Turn
  <1>6. ASSUME IsLineEnd(text, junk, i)
        PROVE  Turn(text, junk, now) = AtTurn(i, q, yes)
    <2>1. Turn(text, junk, now) = [now EXCEPT !.done = TRUE]
      BY <1>2, <1>4, <1>6, Zenon DEF Turn
    <2>2. [now EXCEPT !.done = TRUE] = WithDone(now, yes)
      BY DEF WithDone, Yes
    <2>3. WithDone(now, yes) = AtTurn(i, q, yes)
      BY NowChanges DEF now
    <2>. QED  BY <2>1, <2>2, <2>3, Zenon
  <1>7. ASSUME ~IsLineEnd(text, junk, i), ~HasHeader(text, junk, i)
        PROVE  Turn(text, junk, now) = AtTurn(i, WithError(q, yes), yes)
    <2>1. Turn(text, junk, now) = [now EXCEPT !.done = TRUE, !.req.error = TRUE]
      BY <1>2, <1>4, <1>7, Zenon DEF Turn
    <2>2. [now EXCEPT !.done = TRUE, !.req.error = TRUE] = Failed(now, yes)
      BY DEF Failed, Yes
    <2>3. Failed(now, yes) = AtTurn(i, WithError(q, yes), yes)
      BY ErrorSet DEF now
    <2>. QED  BY <2>1, <2>2, <2>3, Zenon
  <1>8. ASSUME ~IsLineEnd(text, junk, i), HasHeader(text, junk, i)
        PROVE  Turn(text, junk, now) =
                  AtTurn(ValueEnd(text, junk, i) + 2, WithHeader(q, HeaderAt(text, junk, i)), no)
    <2> DEFINE i2 == ValueEnd(text, junk, i) + 2
               q2 == WithHeader(q, HeaderAt(text, junk, i))
    <2>1. Turn(text, junk, now) = [now EXCEPT !.r = i2, !.req = q2]
      BY <1>2, <1>4, <1>8, Zenon DEF Turn
    <2> HIDE DEF i2, q2
    <2>2. [now EXCEPT !.r = i2, !.req = q2] = WithFields(AtPlace(now, i2), q2)
      BY DEF WithFields, AtPlace
    <2>3. AtPlace(now, i2) = AtTurn(i2, q, no)
      BY NowChanges DEF now
    <2>4. WithFields(AtTurn(i2, q, no), q2) = AtTurn(i2, q2, no)
      BY NowChanges
    <2>. QED  BY <2>1, <2>2, <2>3, <2>4, Zenon DEF i2, q2
  <1>. QED  BY <1>5, <1>6, <1>7, <1>8, Zenon DEF now, then

-----------------------------------------------------------------------------
(* As many headers as are there with something behind them. *)
Arrived(r, k, q) ==
    /\ \A m \in 0 .. q : Ahead(r, m + 1) < k
    /\ q < Len(r.headers) => ~(Ahead(r, (q + 1) + 1) < k)
    /\ q < k

(* Of a request that is cut off somewhere, some number of headers is       *)
(* there as a whole.                                                       *)
LEMMA HeadersArrived ==
    ASSUME NEW r \in Requests, NEW k \in 1 .. Len(RequestText(r)), Len(RequestLine(r)) < k
    PROVE  \E q \in 0 .. Len(r.headers) : Arrived(r, k, q)
  <1> DEFINE n == Len(r.headers)
             L == Len(RequestLine(r))
             A(m) == Ahead(r, m)
             T == {m \in 0 .. n : m = n \/ ~(A((m + 1) + 1) < k)}
  <1>1. n \in Nat /\ k \in Nat /\ L \in Nat /\ A(1) = L /\ L < k
    <2>1. n \in Nat /\ A(1) = L
      BY TextPlaces
    <2>2. k \in Nat
      BY CutIs
    <2>3. L \in Nat
      <3>1. RequestLine(r) \in Seq(Symbols)
        BY RequestLinePlaces
      <3>. QED  BY <3>1
    <2>. QED  BY <2>1, <2>2, <2>3
  <1>2. \A m \in 1 .. n : A(m) \in Nat /\ A(m + 1) \in Nat /\ A(m + 1) > A(m)
    <2> SUFFICES ASSUME NEW m \in 1 .. n
                 PROVE  A(m) \in Nat /\ A(m + 1) \in Nat /\ A(m + 1) > A(m)
      OBVIOUS
    <2> DEFINE hd == r.headers[m]
    <2>1. hd \in Header
      BY TextPlaces
    <2>2. Len(Line(hd)) = Len(hd.name) + Len(hd.value) + 4 /\ Len(hd.name) \in Nat /\ Len(hd.value) \in Nat
      BY <2>1, LinePlaces
    <2>3. A(m) \in Nat /\ A(m + 1) = A(m) + Len(Line(hd))
      BY TextPlaces
    <2> DEFINE x == A(m)
               y == A(m + 1)
               a == Len(hd.name)
               b == Len(hd.value)
    <2>4. y = x + (a + b + 4) /\ a \in Nat /\ b \in Nat /\ x \in Nat
      BY <2>2, <2>3, Zenon
    <2> HIDE DEF x, y, a, b
    <2>5. x \in Nat /\ y \in Nat /\ y > x
      BY <2>4
    <2>. QED  BY <2>5 DEF x, y
  <1> HIDE DEF A, n, L
  <1>3. n \in T /\ T \subseteq Nat
    BY <1>1
  <1>4. PICK q \in T : \A m \in T : q <= m
    <2> HIDE DEF T
    <2>. QED  BY <1>3, LeastNumber
  <1>5. q \in 0 .. n /\ (q < n => ~(A((q + 1) + 1) < k))
    BY <1>1
  <1>6. ASSUME NEW m \in 0 .. q
        PROVE  A(m + 1) < k
    <2>1. CASE m = 0
      <3>1. m + 1 = 1
        BY <2>1
      <3>. QED  BY <1>1, <3>1
    <2>2. CASE m # 0
      <3> DEFINE x == m - 1
      <3>1. x \in 0 .. n /\ x # n /\ ~(q <= x) /\ (x + 1) + 1 = m + 1
        BY <1>1, <1>5, <2>2
      <3>2. x \notin T
        BY <1>4, <3>1
      <3> HIDE DEF x
      <3>3. A((x + 1) + 1) < k
        BY <3>1, <3>2
      <3>. QED  BY <3>1, <3>3
    <2>. QED  BY <2>1, <2>2
  <1>7. \A m \in 0 .. n : A(m + 1) >= m /\ A(m + 1) \in Nat
    <2> DEFINE Bad == {m \in 0 .. n : ~(A(m + 1) >= m /\ A(m + 1) \in Nat)}
    <2>1. Bad = {}
      <3> SUFFICES ASSUME Bad # {}
                   PROVE  FALSE
        OBVIOUS
      <3>1. Bad \subseteq Nat
        OBVIOUS
      <3>2. PICK m \in Bad : \A x \in Bad : m <= x
        <4> HIDE DEF Bad
        <4>. QED  BY <3>1, LeastNumber
      <3>3. m \in 0 .. n /\ ~(A(m + 1) >= m /\ A(m + 1) \in Nat)
        OBVIOUS
      <3>4. m # 0
        <4>1. m = 0 => m + 1 = 1
          OBVIOUS
        <4>. QED  BY <1>1, <3>3, <4>1
      <3> DEFINE x == m - 1
      <3>5. x \in 0 .. n /\ ~(m <= x) /\ x + 1 = m /\ m \in 1 .. n
        BY <1>1, <3>3, <3>4
      <3>6. x \notin Bad
        BY <3>2, <3>5
      <3> HIDE DEF x
      <3>7. A(x + 1) >= x /\ A(m) \in Nat
        BY <1>2, <3>5, <3>6
      <3>8. A(m) >= x /\ A(m) \in Nat /\ A(m + 1) \in Nat /\ A(m + 1) > A(m)
        BY <1>2, <3>5, <3>7
      <3>9. A(m + 1) >= m
        BY <3>5, <3>8
      <3>. QED  BY <3>3, <3>8, <3>9
    <2>. QED  BY <2>1
  <1>8. q < k
    <2>1. q \in 0 .. q /\ q \in Nat
      BY <1>5
    <2>2. A(q + 1) < k /\ A(q + 1) >= q /\ A(q + 1) \in Nat
      BY <1>5, <1>6, <1>7, <2>1
    <2>. QED  BY <1>1, <2>1, <2>2
  <1>9. Arrived(r, k, q)
    BY <1>5, <1>6, <1>8 DEF Arrived, A, n
  <1>. QED  BY <1>5, <1>9 DEF n

(* The fields after the turns of the loop: those of the headers that have *)
(* arrived, with an error unless a blank line ends them.                  *)
Outcome(r, k, junk, q) ==
    IF IsLineEnd(Sent(r, k), junk, Ahead(r, q + 1) + 1) THEN FieldsOf(r, q)
    ELSE WithError(FieldsOf(r, q), TRUE)

(* The loop at each of its turns. *)
TurnOf(r, k, junk, q, j, yes, no) ==
    IF j <= q THEN AtTurn(Ahead(r, j + 1) + 1, FieldsOf(r, j), no)
    ELSE AtTurn(Ahead(r, q + 1) + 1, Outcome(r, k, junk, q), yes)

(* The loop reads one header in each turn until it has read those that     *)
(* are there.                                                              *)
LEMMA TurnTaken ==
    ASSUME NEW r \in Requests, NEW k \in 1 .. Len(RequestText(r)), NEW junk,
           NEW q \in 0 .. Len(r.headers), Arrived(r, k, q), NEW j \in 1 .. k,
           NEW yes, NEW no, Yes(yes), No(no)
    PROVE  Turn(Sent(r, k), junk, TurnOf(r, k, junk, q, j - 1, yes, no)) =
              TurnOf(r, k, junk, q, j, yes, no)
  <1> DEFINE c == Sent(r, k)
             n == Len(r.headers)
             now == TurnOf(r, k, junk, q, j - 1, yes, no)
             i == Ahead(r, (j - 1) + 1) + 1
             e == Ahead(r, q + 1) + 1
             F == FieldsOf(r, q)
  <1>1. n \in Nat /\ q \in Nat /\ q <= n /\ k \in Nat /\ j \in Nat /\ 1 <= j
    <2>1. n \in Nat
      BY TextPlaces
    <2>2. k \in Nat
      BY CutIs
    <2>. QED  BY <2>1, <2>2
  <1>2. CASE j <= q
    <2>1. j - 1 <= q /\ j \in 1 .. n /\ j - 1 \in 0 .. q /\ j \in 0 .. q /\ (j - 1) + 1 = j
      BY <1>1, <1>2
    <2>2. Ahead(r, j) < k /\ Ahead(r, j + 1) < k
      BY <2>1, Zenon DEF Arrived
    <2>3. HeaderIsRead(r, k, junk, j)
      BY <2>1, <2>2, HeaderParsed
    <2>4. now = AtTurn(i, FieldsOf(r, j - 1), no) /\ i = Ahead(r, j) + 1
      BY <2>1, Zenon DEF TurnOf
    <2>5. /\ ~IsLineEnd(c, junk, i) /\ HasHeader(c, junk, i)
          /\ ValueEnd(c, junk, i) + 2 = Ahead(r, j + 1) + 1
          /\ HeaderAt(c, junk, i) = [name |-> r.headers[j].name, value |-> r.headers[j].value]
      BY <2>2, <2>3, <2>4, Zenon DEF HeaderIsRead
    <2>6. WithHeader(FieldsOf(r, j - 1), HeaderAt(c, junk, i)) = FieldsOf(r, j)
      BY <2>1, <2>5, FieldsGrow
    <2> DEFINE f == FieldsOf(r, j - 1)
    <2> HIDE DEF c, now, i, f
    <2>7. Turn(c, junk, now) =
             AtTurn(ValueEnd(c, junk, i) + 2, WithHeader(f, HeaderAt(c, junk, i)), no)
      <3>1. now = AtTurn(i, f, no)
        BY <2>4, Zenon DEF f
      <3>2. ~IsLineEnd(c, junk, i) /\ HasHeader(c, junk, i)
        BY <2>5
      <3>3. Turn(c, junk, AtTurn(i, f, no)) =
               AtTurn(ValueEnd(c, junk, i) + 2, WithHeader(f, HeaderAt(c, junk, i)), no)
        BY <3>2, TurnIs
      <3>. QED  BY <3>1, <3>3, Zenon
    <2>8. TurnOf(r, k, junk, q, j, yes, no) = AtTurn(Ahead(r, j + 1) + 1, FieldsOf(r, j), no)
      BY <1>2, Zenon DEF TurnOf
    <2>. QED  BY <2>5, <2>6, <2>7, <2>8, Zenon DEF c, now, f
  <1>3. CASE j = q + 1
    <2>1. j - 1 = q /\ j - 1 <= q /\ ~(j <= q) /\ (j - 1) + 1 = q + 1 /\ q \in 0 .. q
      BY <1>1, <1>3
    <2>2. now = AtTurn(e, F, no)
      BY <2>1, Zenon DEF TurnOf
    <2>3. TurnOf(r, k, junk, q, j, yes, no) = AtTurn(e, Outcome(r, k, junk, q), yes)
      BY <2>1, Zenon DEF TurnOf
    <2>4. Ahead(r, q + 1) < k
      BY <2>1, Zenon DEF Arrived
    <2>5. ~HasHeader(c, junk, e)
      <3>1. CASE q < n
        <4>1. q + 1 \in 1 .. n
          BY <1>1, <3>1
        <4>2. HeaderIsRead(r, k, junk, q + 1)
          BY <2>4, <4>1, HeaderParsed
        <4>3. ~(Ahead(r, (q + 1) + 1) < k)
          BY <3>1, Zenon DEF Arrived
        <4>. QED  BY <4>2, <4>3, Zenon DEF HeaderIsRead
      <3>2. CASE q = n
        BY <2>4, <3>2, LastLine
      <3>. QED  BY <1>1, <3>1, <3>2
    <2>6. CASE IsLineEnd(c, junk, e)
      <3>1. Outcome(r, k, junk, q) = F
        BY <2>6, Zenon DEF Outcome
      <3> HIDE DEF c, e, F, now
      <3>2. Turn(c, junk, now) = AtTurn(e, F, yes)
        BY <2>2, <2>6, TurnIs
      <3>. QED  BY <2>3, <3>1, <3>2, Zenon DEF c, now
    <2>7. CASE ~IsLineEnd(c, junk, e)
      <3>1. Outcome(r, k, junk, q) = WithError(F, TRUE)
        BY <2>7, Zenon DEF Outcome
      <3>2. yes = TRUE
        BY DEF Yes
      <3>3. WithError(F, TRUE) = WithError(F, yes)
        BY <3>2 DEF WithError
      <3> HIDE DEF c, e, F, now
      <3>4. Turn(c, junk, now) = AtTurn(e, WithError(F, yes), yes)
        BY <2>2, <2>5, <2>7, TurnIs
      <3>. QED  BY <2>3, <3>1, <3>3, <3>4, Zenon DEF c, now
    <2>. QED  BY <2>6, <2>7
  <1>4. CASE j > q + 1
    <2>1. ~(j - 1 <= q) /\ ~(j <= q)
      BY <1>1, <1>4
    <2>2. /\ now = AtTurn(e, Outcome(r, k, junk, q), yes)
          /\ TurnOf(r, k, junk, q, j, yes, no) = AtTurn(e, Outcome(r, k, junk, q), yes)
      BY <2>1, Zenon DEF TurnOf
    <2> HIDE DEF c, now, e
    <2>3. Turn(c, junk, now) = now
      BY <2>2, TurnIs
    <2>. QED  BY <2>2, <2>3, Zenon DEF c, now
  <1>5. j <= q \/ j = q + 1 \/ j > q + 1
    BY <1>1
  <1>. QED  BY <1>2, <1>3, <1>4, <1>5

(* What the loop makes of them. *)
LEMMA LoopParsed ==
    ASSUME NEW r \in Requests, NEW k \in 1 .. Len(RequestText(r)), NEW junk,
           Len(RequestLine(r)) < k, NEW q \in 0 .. Len(r.headers), Arrived(r, k, q)
    PROVE  parse_http_request(Sent(r, k), junk) = Outcome(r, k, junk, q)
  <1>1. PICK yes : Yes(yes)
    BY DEF Yes
  <1>2. PICK no : No(no)
    BY DEF No
  <1> DEFINE c == Sent(r, k)
             first == [r |-> HeadersStart(c), req |-> WithLine(c), done |-> FALSE]
             g == [j \in 0 .. k |-> TurnOf(r, k, junk, q, j, yes, no)]
             IsTurn(f) == f = [j \in 0 .. Len(c) |-> IF j = 0 THEN first ELSE Turn(c, junk, f[j - 1])]
             turn == CHOOSE f : IsTurn(f)
  <1>3. k \in Nat /\ Len(c) = k
    BY CutIs
  <1>4. 0 \in 0 .. k /\ k \in 0 .. k /\ 0 <= q /\ ~(k <= q) /\ q \in Nat
    <2>1. q \in Nat /\ q < k
      BY TextPlaces DEF Arrived
    <2>. QED  BY <1>3, <2>1
  <1>5. HasRequestLine(c) /\ WithLine(c) = FieldsOf(r, 0) /\ HeadersStart(c) = Len(RequestLine(r)) + 1
    BY LineParsed
  <1>6. parse_http_request(c, junk) = turn[Len(c)].req
    BY <1>5, Zenon DEF parse_http_request
  <1>7. first = TurnOf(r, k, junk, q, 0, yes, no)
    <2>1. TurnOf(r, k, junk, q, 0, yes, no) = AtTurn(Ahead(r, 0 + 1) + 1, FieldsOf(r, 0), no)
      BY <1>4, Zenon DEF TurnOf
    <2>2. Ahead(r, 0 + 1) + 1 = HeadersStart(c)
      <3>1. 0 + 1 = 1
        OBVIOUS
      <3>2. Ahead(r, 1) = Len(RequestLine(r))
        BY TextPlaces
      <3>. QED  BY <1>5, <3>1, <3>2, Zenon
    <2> DEFINE s == HeadersStart(c)
               w == WithLine(c)
    <2> HIDE DEF s, w
    <2>3. AtTurn(s, w, no) = [r |-> s, req |-> w, done |-> FALSE]
      BY <1>2 DEF AtTurn, No
    <2>. QED  BY <1>5, <2>1, <2>2, <2>3, Zenon DEF s, w
  <1>8. ASSUME NEW j \in 1 .. k
        PROVE  Turn(c, junk, g[j - 1]) = g[j]
    <2>1. j \in 0 .. k /\ j - 1 \in 0 .. k
      BY <1>3
    <2>2. g[j] = TurnOf(r, k, junk, q, j, yes, no) /\ g[j - 1] = TurnOf(r, k, junk, q, j - 1, yes, no)
      BY <2>1, Zenon
    <2> HIDE DEF g
    <2>3. Turn(c, junk, TurnOf(r, k, junk, q, j - 1, yes, no)) = TurnOf(r, k, junk, q, j, yes, no)
      BY <1>1, <1>2, TurnTaken
    <2>. QED  BY <2>2, <2>3, Zenon
  <1>9. g[0] = first
    BY <1>4, <1>7, Zenon
  <1>10. \A j \in 0 .. k : j = 0 \/ j \in 1 .. k
    BY <1>3
  <1>11. \A j \in 1 .. k : j # 0 /\ j \in 0 .. k
    BY <1>3
  <1> HIDE DEF first, c
  <1>12. IsTurn(g)
    <2>1. \A j \in 0 .. k : g[j] = IF j = 0 THEN first ELSE Turn(c, junk, g[j - 1])
      <3> SUFFICES ASSUME NEW j \in 0 .. k
                   PROVE  g[j] = IF j = 0 THEN first ELSE Turn(c, junk, g[j - 1])
        OBVIOUS
      <3> HIDE DEF g
      <3>. QED  BY <1>8, <1>9, <1>10, <1>11, Zenon
    <2>2. g = [j \in 0 .. k |-> g[j]]
      OBVIOUS
    <2> HIDE DEF g
    <2>3. g = [j \in 0 .. k |-> IF j = 0 THEN first ELSE Turn(c, junk, g[j - 1])]
      BY <2>1, <2>2, Zenon
    <2>. QED  BY <1>3, <2>3, Zenon
  <1>13. IsTurn(turn)
    BY <1>12, Zenon
  <1> HIDE DEF turn, g
  <1>14. turn[0] = first /\ \A j \in 1 .. k : turn[j] = Turn(c, junk, turn[j - 1])
    BY <1>3, <1>4, <1>11, <1>13, Zenon
  <1>15. TakeSameSteps(turn, g, k)
    <2>1. turn[0] = g[0]
      BY <1>9, <1>14, Zenon
    <2>2. ASSUME NEW j \in 1 .. k, turn[j - 1] = g[j - 1]
          PROVE  turn[j] = g[j]
      BY <1>8, <1>14, <2>2, Zenon
    <2>. QED  BY <2>1, <2>2, Zenon DEF TakeSameSteps
  <1>16. turn[k] = g[k]
    <2>1. \A j \in 0 .. k : turn[j] = g[j]
      BY <1>3, <1>15, SameSteps
    <2>. QED  BY <1>4, <2>1, Zenon
  <1>17. g[k] = AtTurn(Ahead(r, q + 1) + 1, Outcome(r, k, junk, q), yes)
    BY <1>4, Zenon DEF g, TurnOf
  <1>18. g[k].req = Outcome(r, k, junk, q)
    <2> DEFINE o == Outcome(r, k, junk, q)
               a == Ahead(r, q + 1) + 1
    <2> HIDE DEF o, a
    <2>1. AtTurn(a, o, yes).req = o
      BY DEF AtTurn
    <2>. QED  BY <1>17, <2>1, Zenon DEF o, a
  <1>. QED  BY <1>3, <1>6, <1>16, <1>18, Zenon DEF c

-----------------------------------------------------------------------------
(* What is made of a request, and the invariants of the connection. *)

(* Each field as it is meant, or not given. *)
IsHalf(r, fields) ==
    \A field \in DOMAIN NoRequest \ {"error"} :
        fields[field] \in {FieldsOf(r, Len(r.headers))[field], NoRequest[field]}

(* Without headers, each field is the meant one or none. *)
LEMMA LineIsHalf ==
    ASSUME NEW r \in Requests, NEW m \in {r.method, Null}, NEW p \in {r.path, Null}, NEW e
    PROVE  IsHalf(r, NothingGiven(r, m, p, e))
  BY DEF IsHalf, NothingGiven, NoRequest, FieldsOf

(* With some of the headers, each field is the meant one or none. *)
LEMMA FieldsAreHalf ==
    ASSUME NEW r \in Requests, NEW q \in 0 .. Len(r.headers)
    PROVE  IsHalf(r, FieldsOf(r, q))
  <1> DEFINE n == Len(r.headers)
             V(f, x, none) == ValueOf(r, q, f, x, none)
             W(f, x, none) == ValueOf(r, n, f, x, none)
  <1>1. \A f, x, none : V(f, x, none) \in {W(f, x, none), none}
    BY ValueStays
  <1>2. Number(<<>>) = NotGiven
    BY DEF Number
  <1> DEFINE h == V(<<"Host">>, "value", Null)
             c == V(<<"Connection">>, "value", Null)
             s == Number(V(<<"Range">>, "start", <<>>))
             e == Number(V(<<"Range">>, "end", <<>>))
             h2 == W(<<"Host">>, "value", Null)
             c2 == W(<<"Connection">>, "value", Null)
             s2 == Number(W(<<"Range">>, "start", <<>>))
             e2 == Number(W(<<"Range">>, "end", <<>>))
             m == r.method
             p == r.path
  <1> HIDE DEF V, W
  <1>3. h \in {h2, Null} /\ c \in {c2, Null}
    BY <1>1
  <1>4. V(<<"Range">>, "start", <<>>) \in {W(<<"Range">>, "start", <<>>), <<>>}
    BY <1>1
  <1>5. V(<<"Range">>, "end", <<>>) \in {W(<<"Range">>, "end", <<>>), <<>>}
    BY <1>1
  <1>6. s \in {s2, NotGiven}
    <2>1. CASE V(<<"Range">>, "start", <<>>) = W(<<"Range">>, "start", <<>>)
      BY <2>1, Zenon
    <2>2. CASE V(<<"Range">>, "start", <<>>) = <<>>
      BY <1>2, <2>2, Zenon
    <2>. QED  BY <1>4, <2>1, <2>2, Zenon
  <1>7. e \in {e2, NotGiven}
    <2>1. CASE V(<<"Range">>, "end", <<>>) = W(<<"Range">>, "end", <<>>)
      BY <2>1, Zenon
    <2>2. CASE V(<<"Range">>, "end", <<>>) = <<>>
      BY <1>2, <2>2, Zenon
    <2>. QED  BY <1>5, <2>1, <2>2, Zenon
  <1> DEFINE a == FieldsOf(r, q)
             b == FieldsOf(r, n)
  <1>8. a = [method |-> m, path |-> p, host |-> h, connection |-> c,
             range_start |-> s, range_end |-> e, error |-> FALSE]
    BY Zenon DEF FieldsOf, V
  <1>9. b = [method |-> m, path |-> p, host |-> h2, connection |-> c2,
             range_start |-> s2, range_end |-> e2, error |-> FALSE]
    BY Zenon DEF FieldsOf, W
  <1> HIDE DEF m, p, h, c, s, e, h2, c2, s2, e2, a, b
  <1>10. /\ a.method = m /\ a.path = p /\ a.host = h /\ a.connection = c
         /\ a.range_start = s /\ a.range_end = e
    BY <1>8
  <1>11. /\ b.method = m /\ b.path = p /\ b.host = h2 /\ b.connection = c2
         /\ b.range_start = s2 /\ b.range_end = e2
    BY <1>9
  <1>12. /\ NoRequest.host = Null /\ NoRequest.connection = Null
         /\ NoRequest.range_start = NotGiven /\ NoRequest.range_end = NotGiven
         /\ DOMAIN NoRequest \ {"error"} =
              {"method", "path", "host", "connection", "range_start", "range_end"}
    BY DEF NoRequest
  <1>13. \A field \in {"method", "path", "host", "connection", "range_start", "range_end"} :
            a[field] \in {b[field], NoRequest[field]}
    BY <1>3, <1>6, <1>7, <1>10, <1>11, <1>12
  <1>. QED  BY <1>12, <1>13, Zenon DEF IsHalf, a, b, n

(* An error changes no other field. *)
LEMMA ErrorIsNoField ==
    ASSUME NEW r \in Requests, NEW q \in 0 .. Len(r.headers)
    PROVE  IsHalf(r, WithError(FieldsOf(r, q), TRUE))
  <1> DEFINE a == FieldsOf(r, q)
  <1>1. IsHalf(r, a)
    BY FieldsAreHalf
  <1>2. \A field \in DOMAIN NoRequest \ {"error"} : WithError(a, TRUE)[field] = a[field]
    <2>1. DOMAIN NoRequest = DOMAIN a
      BY DEF NoRequest, FieldsOf
    <2> HIDE DEF a
    <2>. QED  BY <2>1 DEF WithError
  <1> HIDE DEF a
  <1>3. \A field \in DOMAIN NoRequest \ {"error"} :
           WithError(a, TRUE)[field] \in {FieldsOf(r, Len(r.headers))[field], NoRequest[field]}
    BY <1>1, <1>2, Zenon DEF IsHalf
  <1>. QED  BY <1>3, Zenon DEF IsHalf, a

(* What is made of a request, or of as much of it as has arrived. *)
LEMMA Parsed ==
    ASSUME NEW r \in Requests, NEW k \in 1 .. Len(RequestText(r)), NEW junk
    PROVE  /\ IsHalf(r, parse_http_request(Sent(r, k), junk))
           /\ k = Len(RequestText(r)) =>
                 parse_http_request(Sent(r, k), junk) = FieldsOf(r, Len(r.headers))
  <1> DEFINE c == Sent(r, k)
             n == Len(r.headers)
             N == Len(RequestText(r))
             L == Len(RequestLine(r))
  <1>1. L < N /\ n \in Nat /\ N = Ahead(r, n + 1) + 2
    <2>1. L < N
      BY LineOfText
    <2>2. n \in Nat /\ N = Ahead(r, n + 1) + 2
      BY TextPlaces
    <2>. QED  BY <2>1, <2>2
  <1>2. CASE ~(L < k)
    <2>1. ~HasRequestLine(c)
      BY <1>2, LineParsed
    <2>2. parse_http_request(c, junk) = WithLine(c)
      BY <2>1, Zenon DEF parse_http_request
    <2>3. PICK m \in {r.method, Null}, p \in {r.path, Null}, e \in BOOLEAN :
             WithLine(c) = NothingGiven(r, m, p, e)
      BY LineParsed
    <2>4. IsHalf(r, NothingGiven(r, m, p, e))
      BY LineIsHalf
    <2>5. k # N
      BY <1>1, <1>2
    <2>. QED  BY <2>2, <2>3, <2>4, <2>5, Zenon
  <1>3. CASE L < k
    <2>1. PICK q \in 0 .. n : Arrived(r, k, q)
      BY <1>3, HeadersArrived
    <2>2. parse_http_request(c, junk) = Outcome(r, k, junk, q)
      BY <1>3, <2>1, LoopParsed
    <2>3. IsHalf(r, Outcome(r, k, junk, q))
      BY FieldsAreHalf, ErrorIsNoField DEF Outcome
    <2>4. ASSUME k = N
          PROVE  Outcome(r, k, junk, q) = FieldsOf(r, n)
      <3>1. q = n
        <4> SUFFICES ASSUME q < n
                     PROVE  FALSE
          BY <1>1
        <4>1. q + 1 \in 1 .. n
          BY <1>1
        <4> DEFINE a == Ahead(r, (q + 1) + 1)
                   b == Ahead(r, n + 1)
        <4>2. a \in Nat /\ a <= b /\ b \in Nat
          BY <4>1, TextPlaces
        <4>3. ~(a < k)
          BY Zenon, <2>1 DEF Arrived
        <4>4. k = b + 2
          BY <1>1, <2>4
        <4> HIDE DEF a, b
        <4>. QED  BY <4>2, <4>3, <4>4
      <3>2. Ahead(r, n + 1) < k
        <4>1. Ahead(r, n + 1) \in Nat
          BY TextPlaces
        <4>. QED  BY <1>1, <2>4, <4>1
      <3>3. IsLineEnd(c, junk, Ahead(r, n + 1) + 1)
        BY <2>4, <3>2, LastLine
      <3>. QED  BY <3>1, <3>3, Zenon DEF Outcome
    <2>. QED  BY <2>2, <2>3, <2>4, Zenon
  <1>. QED  BY <1>2, <1>3

-----------------------------------------------------------------------------
(* The invariants hold of a request that was parsed. *)
LEMMA ParsedInTheEnd ==
    ASSUME RequestInv', meant' = meant, buf' # <<>>, Complete
    PROVE  PartsDontMatter' /\ NothingHalf'
  <1>1. PICK k \in 0 .. Len(RequestText(meant)) : buf' = Sent(meant, k)
    BY DEF RequestInv
  <1>2. meant \in Requests
    BY DEF RequestInv
  <1>3. k \in 1 .. Len(RequestText(meant))
    <2>1. /\ Len(RequestText(meant)) \in Nat /\ Sent(meant, k) \in Seq(Symbols)
          /\ Len(Sent(meant, k)) = k
      BY <1>2, SentIs
    <2>2. k # 0
      BY <1>1, <2>1, EmptySeq
    <2>. QED  BY <2>1, <2>2
  <1>4. PICK junk : req' = parse_http_request(Sent(meant, k), junk)
    BY <1>1 DEF Complete
  <1>5. /\ IsHalf(meant, req')
        /\ k = Len(RequestText(meant)) => req' = FieldsOf(meant, Len(meant.headers))
    BY <1>2, <1>3, <1>4, Parsed
  <1>6. is_http_end(buf') \/ buf' = RequestText(meant) => k = Len(RequestText(meant))
    <2>1. is_http_end(buf') => k = Len(RequestText(meant))
      BY <1>1, <1>2, EndsOnlyThere
    <2>. QED  BY <1>2, <2>1, EndIsFound
  <1>7. Fields' = FieldsOf(meant, Len(meant.headers))
    BY DEF Fields
  <1>8. PartsDontMatter'
    <2>1. state' # "READING"
      BY DEF Complete
    <2>. QED  BY <1>5, <1>6, <1>7, <2>1, Zenon DEF PartsDontMatter
  <1>9. NothingHalf'
    BY <1>5, <1>7, Zenon DEF NothingHalf, IsHalf
  <1>. QED  BY <1>8, <1>9

(* Each step keeps both promises. *)
LEMMA FieldsStep ==
    ASSUME RequestInv, RequestInv', PartsDontMatter, NothingHalf, [RequestNext]_requestVars
    PROVE  PartsDontMatter' /\ NothingHalf'
  <1>1. CASE UNCHANGED requestVars
    BY <1>1 DEF requestVars, PartsDontMatter, NothingHalf, Fields
  <1>2. ASSUME ~is_http_end(buf'), UNCHANGED <<meant, req>>
        PROVE  PartsDontMatter' /\ NothingHalf'
    <2>1. buf' # RequestText(meant')
      BY <1>2, EndIsFound DEF RequestInv
    <2>. QED  BY <1>2, <2>1 DEF PartsDontMatter, NothingHalf, Fields
  <1>3. CASE Eof
    <2>1. CASE buf = <<>> /\ UNCHANGED <<meant, req, buf>>
      <3>1. ~is_http_end(buf')
        <4>1. Len(<<>>) = 0
          OBVIOUS
        <4>. QED  BY <2>1, <4>1 DEF is_http_end
      <3>. QED  BY <1>2, <2>1, <3>1
    <2>2. CASE buf # <<>> /\ buf' = buf /\ Complete
      <3>1. meant' = meant
        BY <2>2 DEF Complete
      <3>. QED  BY <2>2, <3>1, ParsedInTheEnd
    <2>. QED  BY <1>3, <2>1, <2>2 DEF Eof
  <1>4. ASSUME NEW n \in 1 .. Len(Rest), Receive(SubSeq(Rest, 1, n))
        PROVE  PartsDontMatter' /\ NothingHalf'
    <2>1. CASE is_http_end(buf') /\ Complete
      <3>1. buf' # <<>>
        <4>1. ~is_http_end(<<>>)
          <5>1. Len(<<>>) = 0
            OBVIOUS
          <5>. QED  BY <5>1 DEF is_http_end
        <4>. QED  BY <2>1, <4>1
      <3>2. meant' = meant
        BY <2>1 DEF Complete
      <3>. QED  BY <2>1, <3>1, <3>2, ParsedInTheEnd
    <2>2. CASE ~is_http_end(buf') /\ UNCHANGED <<meant, req>>
      BY <1>2, <2>2
    <2>. QED  BY <1>4, <2>1, <2>2 DEF Receive
  <1>. QED  BY <1>1, <1>3, <1>4 DEF RequestNext

(* Nothing has been parsed at first. *)
LEMMA FieldsStart == RequestInit => PartsDontMatter /\ NothingHalf
  <1> SUFFICES ASSUME RequestInit
               PROVE  PartsDontMatter /\ NothingHalf
    OBVIOUS
  <1>1. ~is_http_end(buf)
    <2>1. Len(<<>>) = 0
      OBVIOUS
    <2>. QED  BY <2>1 DEF RequestInit, is_http_end
  <1>2. buf # RequestText(meant)
    BY <1>1, EndIsFound DEF RequestInit
  <1>. QED  BY <1>1, <1>2 DEF RequestInit, PartsDontMatter, NothingHalf

(* A request of which all has arrived is parsed, and then the method, the  *)
(* path, the host, the connection and the two ends of the range, for each  *)
(* of which a long long has room, are those that the client meant, however *)
(* many calls of recv brought it and whatever bytes lie behind it in the   *)
(* buffer (http.c:84-319).                                                 *)
THEOREM FieldsAsMeant == RequestSpec => []PartsDontMatter
  BY StartsEmpty, RequestStep, FieldsStart, FieldsStep, PTL DEF RequestSpec

(* Of a request that its client ends too early, by closing the             *)
(* connection, parse_http_request takes each field whole or not at all: it *)
(* never makes half a path or the first digits of a number a part of the   *)
(* request (http.c:158-319).                                               *)
THEOREM NothingIsHalf == RequestSpec => []NothingHalf
  BY StartsEmpty, RequestStep, FieldsStart, FieldsStep, PTL DEF RequestSpec
=============================================================================
