----------------------------- MODULE Recursion -----------------------------
(***************************************************************************)
(* Lemmas for proofs about the code's loops, which the models write as     *)
(* recursive functions: that there is a function which satisfies such an   *)
(* equation, and induction, as the least number that a claim is false of,  *)
(* or over sequences, as the set of those that a claim is true of.  Also   *)
(* what the community modules' minima, maxima and joined sequences are.    *)
(***************************************************************************)
EXTENDS Integers, SequencesExt, SequenceTheorems, WellFoundedInduction, TLAPS

(* A set of numbers has a least one: induction, as the provers can use it. *)
LEMMA LeastNumber ==
    ASSUME NEW T, T \subseteq Nat, T # {}
    PROVE  \E x \in T : \A y \in T : x <= y
  <1> DEFINE R == {ss \in Nat \X Nat : ss[1] < ss[2]}
  <1>1. IsWellFoundedOn(R, Nat)
    BY NatLessThanWellFounded DEF OpToRel
  <1>2. PICK x \in T : \A y \in T : <<y, x>> \notin R
    <2> HIDE DEF R
    <2>. QED  BY <1>1, WFMin
  <1>3. ASSUME NEW y \in T
        PROVE  x <= y
    <2>1. x \in Nat /\ y \in Nat
      OBVIOUS
    <2>2. y < x => <<y, x>> \in R
      BY <2>1
    <2>. QED  BY <1>2, <2>1, <2>2
  <1>. QED  BY <1>3

(* Values that each follow from the one before, as far as n. *)
Computes(f, S, m, n, first, step) ==
    /\ f \in [m .. n -> S]
    /\ f[m] = first
    /\ \A j \in m + 1 .. n : f[j] = step[<<j, f[j - 1]>>]

LEMMA RecursionExists ==
    ASSUME NEW S, NEW m \in Int, NEW n \in Int, m <= n, NEW first \in S,
           NEW step \in [(m + 1 .. n) \X S -> S]
    PROVE  \E f : Computes(f, S, m, n, first, step)
  <1> DEFINE Short == {k \in 0 .. n - m : ~\E f : Computes(f, S, m, m + k, first, step)}
  <1>1. Short = {}
    <2> SUFFICES ASSUME Short # {}
                 PROVE  FALSE
      OBVIOUS
    <2>1. Short \subseteq Nat
      OBVIOUS
    <2>2. PICK k \in Short : \A l \in Short : k <= l
      <3> HIDE DEF Short
      <3>. QED  BY <2>1, LeastNumber
    <2>3. k \in 0 .. n - m /\ ~\E f : Computes(f, S, m, m + k, first, step)
      OBVIOUS
    <2>4. CASE k = 0
      <3> DEFINE f == [j \in m .. m |-> first]
      <3>1. f \in [m .. m + 0 -> S] /\ f[m] = first /\ m + 1 .. m + 0 = {}
        OBVIOUS
      <3> HIDE DEF f
      <3>2. Computes(f, S, m, m + 0, first, step)
        BY <3>1 DEF Computes
      <3>. QED  BY <2>3, <2>4, <3>2
    <2>5. CASE k # 0
      <3>1. k - 1 \in 0 .. n - m /\ ~(k <= k - 1)
        BY <2>3, <2>5
      <3>2. k - 1 \notin Short
        BY <2>2, <3>1
      <3>3. PICK g : Computes(g, S, m, m + (k - 1), first, step)
        BY <3>1, <3>2
      <3> DEFINE l == m + k - 1
      <3>4. m + (k - 1) = l /\ l \in m .. n /\ l + 1 \in m + 1 .. n /\ m + k = l + 1
        BY <2>3, <2>5
      <3> HIDE DEF l
      <3>5. /\ g \in [m .. l -> S] /\ g[m] = first
            /\ \A j \in m + 1 .. l : g[j] = step[<<j, g[j - 1]>>]
        BY <3>3, <3>4 DEF Computes
      <3> DEFINE f == [j \in m .. l + 1 |-> IF j = l + 1 THEN step[<<l + 1, g[l]>>] ELSE g[j]]
      <3>6. step[<<l + 1, g[l]>>] \in S
        BY <3>4, <3>5
      <3>7. f \in [m .. l + 1 -> S]
        BY <3>4, <3>5, <3>6
      <3>8. f[m] = first
        BY <3>4, <3>5
      <3>9. \A j \in m + 1 .. l + 1 : f[j] = step[<<j, f[j - 1]>>]
        <4> SUFFICES ASSUME NEW j \in m + 1 .. l + 1
                     PROVE  f[j] = step[<<j, f[j - 1]>>]
          OBVIOUS
        <4>1. j - 1 \in m .. l /\ j - 1 \in m .. l + 1 /\ j - 1 # l + 1
          BY <3>4
        <4>2. f[j - 1] = g[j - 1]
          BY <4>1
        <4>3. j = l + 1 => f[j] = step[<<l + 1, g[l]>>] /\ j - 1 = l
          BY <3>4
        <4>4. j # l + 1 => f[j] = g[j] /\ j \in m + 1 .. l
          BY <3>4
        <4> HIDE DEF f
        <4>. QED  BY <3>5, <4>2, <4>3, <4>4
      <3> HIDE DEF f
      <3>10. Computes(f, S, m, m + k, first, step)
        BY <3>4, <3>7, <3>8, <3>9 DEF Computes
      <3>. QED  BY <2>3, <3>10
    <2>. QED  BY <2>4, <2>5
  <1>2. n - m \in 0 .. n - m /\ m + (n - m) = n
    OBVIOUS
  <1>3. n - m \notin Short
    BY <1>1
  <1>. QED  BY <1>2, <1>3

(* Two functions that agree at 0 and at every step agree as far as n. *)
TakeSameSteps(f, g, n) ==
    f[0] = g[0] /\ \A j \in 1 .. n : f[j - 1] = g[j - 1] => f[j] = g[j]

LEMMA SameSteps ==
    ASSUME NEW n \in Nat, NEW f, NEW g, TakeSameSteps(f, g, n)
    PROVE  \A j \in 0 .. n : f[j] = g[j]
  <1> DEFINE Bad == {j \in 0 .. n : f[j] # g[j]}
  <1>1. Bad = {}
    <2> SUFFICES ASSUME Bad # {}
                 PROVE  FALSE
      OBVIOUS
    <2>1. Bad \subseteq Nat
      OBVIOUS
    <2>2. PICK x \in Bad : \A y \in Bad : x <= y
      <3> HIDE DEF Bad
      <3>. QED  BY <2>1, LeastNumber
    <2>3. x \in 1 .. n /\ f[x] # g[x]
      BY DEF TakeSameSteps
    <2>4. x - 1 \in 0 .. n /\ ~(x <= x - 1)
      BY <2>3
    <2>5. f[x - 1] = g[x - 1]
      BY <2>2, <2>4
    <2>. QED  BY <2>3, <2>5 DEF TakeSameSteps
  <1>. QED  BY <1>1

(* FlattenSeq joins one more sequence with each step. *)
IsFlat(f, ss) ==
    f = [i \in 1 .. Len(ss) |-> IF i = 1 THEN ss[i] ELSE f[i - 1] \o ss[i]]
Flat(ss) == CHOOSE f : IsFlat(f, ss)

LEMMA FlatExists ==
    ASSUME NEW S, NEW ss \in Seq(Seq(S)), Len(ss) # 0
    PROVE  /\ IsFlat(Flat(ss), ss)
           /\ Flat(ss) \in [1 .. Len(ss) -> Seq(S)]
  <1> DEFINE n == Len(ss)
             T == Seq(S)
             step == [t \in (1 + 1 .. n) \X T |-> t[2] \o ss[t[1]]]
  <1>1. n \in Int /\ 1 \in Int /\ 1 <= n
    OBVIOUS
  <1>2. ss[1] \in T
    BY <1>1
  <1>3. ASSUME NEW i \in 1 + 1 .. n, NEW l \in T
        PROVE  l \o ss[i] \in T
    <2>1. ss[i] \in Seq(S)
      BY <1>1
    <2>. QED  BY <2>1, ConcatProperties
  <1>4. step \in [(1 + 1 .. n) \X T -> T]
    <2> HIDE DEF T, n
    <2>. QED  BY <1>3
  <1>5. ASSUME NEW i \in 1 + 1 .. n, NEW l \in T
        PROVE  step[<<i, l>>] = l \o ss[i]
    OBVIOUS
  <1> HIDE DEF n, T, step
  <1>6. PICK f : Computes(f, T, 1, n, ss[1], step)
    BY <1>1, <1>2, <1>4, RecursionExists
  <1>7. \A i \in 1 .. n : f[i] = IF i = 1 THEN ss[i] ELSE f[i - 1] \o ss[i]
    <2> SUFFICES ASSUME NEW i \in 1 .. n
                 PROVE  f[i] = IF i = 1 THEN ss[i] ELSE f[i - 1] \o ss[i]
      OBVIOUS
    <2>1. i # 1 => i \in 1 + 1 .. n /\ i - 1 \in 1 .. n
      BY <1>1
    <2>2. i # 1 => f[i] = step[<<i, f[i - 1]>>] /\ f[i - 1] \in T
      BY <1>6, <2>1 DEF Computes
    <2>. QED  BY <1>5, <1>6, <2>1, <2>2 DEF Computes
  <1>8. f = [i \in 1 .. n |-> f[i]]
    BY <1>6 DEF Computes
  <1>9. f = [i \in 1 .. n |-> IF i = 1 THEN ss[i] ELSE f[i - 1] \o ss[i]]
    BY <1>7, <1>8
  <1>10. IsFlat(f, ss)
    BY <1>9 DEF IsFlat, n
  <1>11. IsFlat(Flat(ss), ss)
    BY <1>10 DEF Flat
  <1>12. ASSUME NEW g, IsFlat(g, ss)
         PROVE  g \in [1 .. n -> T]
    <2>1. g = [i \in 1 .. n |-> IF i = 1 THEN ss[i] ELSE g[i - 1] \o ss[i]]
      BY <1>12 DEF IsFlat, n
    <2>2. g[1] = ss[1] /\ \A i \in 1 + 1 .. n : g[i] = g[i - 1] \o ss[i]
      <3>1. 1 \in 1 .. n /\ \A i \in 1 + 1 .. n : i \in 1 .. n /\ i # 1
        BY <1>1
      <3>. QED  BY Zenon, <2>1, <3>1
    <2> DEFINE Bad == {i \in 1 .. n : g[i] \notin T}
    <2>3. Bad = {}
      <3> SUFFICES ASSUME Bad # {}
                   PROVE  FALSE
        OBVIOUS
      <3>1. Bad \subseteq Nat
        BY <1>1
      <3>2. PICK i \in Bad : \A k \in Bad : i <= k
        <4> HIDE DEF Bad
        <4>. QED  BY <3>1, LeastNumber
      <3>3. i \in 1 + 1 .. n /\ g[i] \notin T
        BY <1>1, <1>2, <2>2
      <3>4. i - 1 \in 1 .. n /\ ~(i <= i - 1)
        BY <1>1, <3>3
      <3>5. g[i - 1] \in T
        BY <3>2, <3>4
      <3>6. g[i] = g[i - 1] \o ss[i]
        BY <2>2, <3>3
      <3>. QED  BY <1>3, <3>3, <3>5, <3>6
    <2>4. \A i \in 1 .. n : g[i] \in T
      BY <2>3
    <2>5. g = [i \in 1 .. n |-> g[i]]
      BY <2>1
    <2> HIDE DEF Bad
    <2>. QED  BY <2>4, <2>5
  <1>. QED  BY <1>11, <1>12 DEF n, T

LEMMA FlattensOneByOne ==
    ASSUME NEW S, NEW ss \in Seq(Seq(S))
    PROVE  /\ FlattenSeq(ss) \in Seq(S)
           /\ Len(ss) # 0 =>
                /\ FlattenSeq(ss) = Flat(ss)[Len(ss)]
                /\ Flat(ss)[1] = ss[1]
                /\ \A i \in 2 .. Len(ss) : Flat(ss)[i] = Flat(ss)[i - 1] \o ss[i]
                /\ \A i \in 1 .. Len(ss) : Flat(ss)[i] \in Seq(S)
  <1>1. CASE Len(ss) = 0
    <2>1. FlattenSeq(ss) = ss
      BY <1>1 DEF FlattenSeq
    <2>2. ss = <<>> /\ <<>> \in Seq(S)
      BY <1>1, EmptySeq
    <2>. QED  BY Zenon, <1>1, <2>1, <2>2
  <1>2. CASE Len(ss) # 0
    <2>1. IsFlat(Flat(ss), ss) /\ Flat(ss) \in [1 .. Len(ss) -> Seq(S)]
      BY <1>2, FlatExists
    <2>2. FlattenSeq(ss) = Flat(ss)[Len(ss)]
      BY Zenon, <1>2 DEF FlattenSeq, Flat, IsFlat
    <2>3. Len(ss) \in Nat /\ Len(ss) # 0
      BY <1>2
    <2>4. Flat(ss)[1] = ss[1] /\ \A i \in 2 .. Len(ss) : Flat(ss)[i] = Flat(ss)[i - 1] \o ss[i]
      <3> DEFINE f == Flat(ss)
      <3> HIDE DEF f
      <3>1. f = [i \in 1 .. Len(ss) |-> IF i = 1 THEN ss[i] ELSE f[i - 1] \o ss[i]]
        BY <2>1 DEF IsFlat, f
      <3>2. 1 \in 1 .. Len(ss) /\ \A i \in 2 .. Len(ss) : i \in 1 .. Len(ss) /\ i # 1
        BY <2>3
      <3>3. f[1] = ss[1] /\ \A i \in 2 .. Len(ss) : f[i] = f[i - 1] \o ss[i]
        BY Zenon, <3>1, <3>2
      <3>. QED  BY <3>3 DEF f
    <2>5. Len(ss) \in 1 .. Len(ss) /\ \A i \in 1 .. Len(ss) : Flat(ss)[i] \in Seq(S)
      <3>1. Len(ss) \in 1 .. Len(ss)
        BY <2>3
      <3>2. \A i \in 1 .. Len(ss) : Flat(ss)[i] \in Seq(S)
        BY Zenon, <2>1
      <3>. QED  BY <3>1, <3>2
    <2>. QED  BY Zenon, <2>2, <2>4, <2>5
  <1>. QED  BY <1>1, <1>2

(* Induction over sequences, with a set in a predicate's place. *)
LEMMA SeqInduction ==
    ASSUME NEW S, NEW T, <<>> \in T,
           \A s \in Seq(S), c \in S : s \in T => Append(s, c) \in T
    PROVE  Seq(S) \subseteq T
  <1> DEFINE Bad == {n \in Nat : \E s \in Seq(S) : Len(s) = n /\ s \notin T}
  <1>1. Bad = {}
    <2> SUFFICES ASSUME Bad # {}
                 PROVE  FALSE
      OBVIOUS
    <2>1. PICK n \in Bad : \A k \in Bad : n <= k
      <3>1. Bad \subseteq Nat
        OBVIOUS
      <3> HIDE DEF Bad
      <3>. QED  BY <3>1, LeastNumber
    <2>2. PICK t \in Seq(S) : Len(t) = n /\ t \notin T
      OBVIOUS
    <2>3. PICK s \in Seq(S), c \in S : t = Append(s, c)
      BY <2>2, SequenceEmptyOrAppend
    <2>4. Len(s) \in Nat /\ Len(s) + 1 = n /\ ~(n <= Len(s))
      BY <2>2, <2>3, AppendProperties
    <2>5. s \in T
      BY <2>1, <2>4
    <2>. QED  BY <2>2, <2>3, <2>5
  <1>2. ASSUME NEW s \in Seq(S)
        PROVE  s \in T
    <2>1. Len(s) \in Nat /\ Len(s) \notin Bad
      BY <1>1
    <2>. QED  BY <2>1
  <1>. QED  BY <1>2

(* The least and the greatest of a set of numbers. *)
LEMMA MinIs ==
    ASSUME NEW T, T \subseteq Nat, T # {}
    PROVE  Min(T) \in T /\ \A y \in T : Min(T) <= y
  BY LeastNumber, Zenon DEF Min

LEMMA MaxIs ==
    ASSUME NEW n \in Nat, NEW T, T \subseteq 1 .. n, T # {}
    PROVE  Max(T) \in T /\ \A y \in T : Max(T) >= y
  <1> DEFINE U == {k \in Nat : \E x \in T : k = n - x}
  <1>1. U \subseteq Nat /\ U # {}
    <2>1. PICK x \in T : TRUE
      OBVIOUS
    <2>2. n - x \in U
      BY <2>1
    <2>. QED  BY <2>2
  <1>2. PICK k \in U : \A l \in U : k <= l
    <2> HIDE DEF U
    <2>. QED  BY <1>1, LeastNumber
  <1>3. PICK x \in T : k = n - x
    OBVIOUS
  <1>4. ASSUME NEW y \in T
        PROVE  x >= y
    <2>1. n - y \in U
      OBVIOUS
    <2>. QED  BY <1>2, <1>3, <2>1
  <1>5. \E z \in T : \A y \in T : z >= y
    BY <1>4
  <1>. QED  BY <1>5, Zenon DEF Max

(* A number that is beyond all of a set is its maximum from then on, and   *)
(* its minimum only when it is the first.                                 *)
LEMMA MaxGrows ==
    ASSUME NEW n \in Nat, NEW T, T \subseteq 1 .. n - 1
    PROVE  Max(T \union {n}) = n
  <1>1. T \union {n} \subseteq 1 .. n \/ n = 0
    OBVIOUS
  <1> DEFINE U == T \union {n}
  <1>2. n \in U /\ \A x \in U : n >= x
    OBVIOUS
  <1>3. U \subseteq Int
    OBVIOUS
  <1> HIDE DEF U
  <1>4. \E x \in U : \A y \in U : x >= y
    BY <1>2
  <1>5. Max(U) \in U /\ \A y \in U : Max(U) >= y
    BY <1>4, Zenon DEF Max
  <1>6. Max(U) = n
    <2>1. n >= Max(U) /\ Max(U) >= n /\ Max(U) \in Int
      BY <1>2, <1>3, <1>5, Zenon
    <2>2. \A x \in Int : n >= x /\ x >= n => x = n
      OBVIOUS
    <2>. QED  BY <2>1, <2>2, Zenon
  <1>. QED  BY <1>6 DEF U

LEMMA MinGrows ==
    ASSUME NEW n \in Nat \ {0}, NEW T, T \subseteq 1 .. n - 1
    PROVE  Min(T \union {n}) = IF T = {} THEN n ELSE Min(T)
  <1> DEFINE U == T \union {n}
  <1>1. T \subseteq Nat /\ U \subseteq Nat /\ U # {} /\ n \in U /\ T \subseteq U
    OBVIOUS
  <1>2. \A x \in T : x < n
    OBVIOUS
  <1>3. \A x \in U : x = n \/ x \in T
    OBVIOUS
  <1> HIDE DEF U
  <1>4. Min(U) \in U /\ \A y \in U : Min(U) <= y
    BY <1>1, MinIs
  <1>5. T # {} => Min(T) \in T /\ \A y \in T : Min(T) <= y
    BY <1>1, MinIs
  <1>6. CASE T = {}
    BY <1>3, <1>4, <1>6 DEF U
  <1>7. CASE T # {}
    <2>1. Min(T) \in U /\ Min(U) \in U /\ Min(T) \in T /\ Min(T) \in Nat /\ Min(U) \in Nat
      BY <1>1, <1>4, <1>5, <1>7, Zenon
    <2>2. Min(U) <= Min(T) /\ Min(U) <= n /\ Min(T) < n
      BY <1>1, <1>2, <1>4, <2>1, Zenon
    <2>3. Min(U) = Min(T)
      <3>1. Min(U) = n \/ Min(U) \in T
        BY <1>3, <2>1, Zenon
      <3>2. Min(U) \in T => Min(T) <= Min(U)
        BY <1>5, <1>7, Zenon
      <3>3. \A x, y \in Nat : x <= y /\ y < n /\ (x = n \/ y <= x) => x = y
        OBVIOUS
      <3>. QED  BY <2>1, <2>2, <3>1, <3>2, <3>3, Zenon
    <2>. QED  BY <1>7, <2>3 DEF U
  <1>. QED  BY <1>6, <1>7

(* What FlattenSeq joins of no sequences, of one, and of one more. *)
LEMMA FlattenAppend ==
    ASSUME NEW S, NEW ss \in Seq(Seq(S)), NEW s \in Seq(S)
    PROVE  FlattenSeq(Append(ss, s)) = FlattenSeq(ss) \o s
  <1> DEFINE tt == Append(ss, s)
             n == Len(ss)
  <1>1. /\ n \in Nat /\ tt \in Seq(Seq(S)) /\ Len(tt) = n + 1
        /\ tt[n + 1] = s /\ \A i \in 1 .. n : tt[i] = ss[i]
    BY AppendProperties
  <1> HIDE DEF tt
  <1>2. /\ FlattenSeq(tt) = Flat(tt)[n + 1] /\ Flat(tt)[1] = tt[1]
        /\ \A i \in 2 .. n + 1 : Flat(tt)[i] = Flat(tt)[i - 1] \o tt[i]
    <2>1. Len(tt) # 0 /\ Len(tt) = n + 1 /\ tt \in Seq(Seq(S))
      BY <1>1
    <2> HIDE DEF n
    <2>. QED  BY <2>1, FlattensOneByOne
  <1>3. CASE n = 0
    <2>1. ss = <<>>
      BY <1>3
    <2>2. FlattenSeq(ss) = <<>>
      BY <2>1, <1>3 DEF FlattenSeq
    <2>3. FlattenSeq(tt) = s
      BY <1>1, <1>2, <1>3
    <2>. QED  BY <2>2, <2>3, ConcatEmptySeq DEF tt
  <1>4. CASE n # 0
    <2>1. /\ FlattenSeq(ss) = Flat(ss)[n] /\ Flat(ss)[1] = ss[1]
          /\ \A i \in 2 .. n : Flat(ss)[i] = Flat(ss)[i - 1] \o ss[i]
      BY <1>4, FlattensOneByOne
    <2> DEFINE Bad == {i \in 1 .. n : Flat(tt)[i] # Flat(ss)[i]}
    <2>2. Bad = {}
      <3> SUFFICES ASSUME Bad # {}
                   PROVE  FALSE
        OBVIOUS
      <3>1. PICK i \in Bad : \A k \in Bad : i <= k
        <4>1. Bad \subseteq Nat
          BY <1>1
        <4> HIDE DEF Bad
        <4>. QED  BY <4>1, LeastNumber
      <3>2. i \in 1 .. n /\ Flat(tt)[i] # Flat(ss)[i]
        OBVIOUS
      <3>3. i # 1
        BY <1>1, <1>2, <2>1, <3>2
      <3>4. i - 1 \in 1 .. n /\ ~(i <= i - 1) /\ i \in 2 .. n /\ i \in 2 .. n + 1
        BY <1>1, <3>2, <3>3
      <3>5. Flat(tt)[i - 1] = Flat(ss)[i - 1]
        BY <3>1, <3>4
      <3>. QED  BY <1>1, <1>2, <2>1, <3>2, <3>4, <3>5
    <2>3. n \in 1 .. n /\ n + 1 \in 2 .. n + 1 /\ (n + 1) - 1 = n
      BY <1>1, <1>4
    <2>4. Flat(tt)[n] = Flat(ss)[n]
      BY <2>2, <2>3
    <2>. QED  BY <1>1, <1>2, <2>1, <2>3, <2>4 DEF tt
  <1>. QED  BY <1>3, <1>4

(* What stands where in two joined sequences. *)
LEMMA JoinedPlaces ==
    ASSUME NEW S, NEW s \in Seq(S), NEW t \in Seq(S)
    PROVE  /\ s \o t \in Seq(S)
           /\ Len(s) \in Nat /\ Len(t) \in Nat
           /\ Len(s \o t) = Len(s) + Len(t)
           /\ \A i \in 1 .. Len(s) : (s \o t)[i] = s[i]
           /\ \A i \in 1 .. Len(t) : (s \o t)[Len(s) + i] = t[i]
  <1> DEFINE n == Len(s)
             m == Len(t)
             both == s \o t
  <1>1. n \in Nat /\ m \in Nat
    OBVIOUS
  <1>2. /\ both \in Seq(S) /\ Len(both) = n + m
        /\ \A i \in 1 .. n + m : both[i] = IF i <= n THEN s[i] ELSE t[i - n]
    BY ConcatProperties
  <1> HIDE DEF n, m, both
  <1>3. \A i \in 1 .. n : both[i] = s[i]
    <2> SUFFICES ASSUME NEW i \in 1 .. n
                 PROVE  both[i] = s[i]
      OBVIOUS
    <2>1. i \in 1 .. n + m /\ i <= n
      BY <1>1
    <2>. QED  BY <1>2, <2>1
  <1>4. \A i \in 1 .. m : both[n + i] = t[i]
    <2> SUFFICES ASSUME NEW i \in 1 .. m
                 PROVE  both[n + i] = t[i]
      OBVIOUS
    <2> DEFINE j == n + i
    <2>1. j \in 1 .. n + m /\ ~(j <= n) /\ j - n = i
      BY <1>1
    <2> HIDE DEF j
    <2>. QED  BY <1>2, <2>1 DEF j
  <1>. QED  BY <1>1, <1>2, <1>3, <1>4 DEF n, m, both
=============================================================================
