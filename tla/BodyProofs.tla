----------------------------- MODULE BodyProofs -----------------------------
(***************************************************************************)
(* The bodies that responses have.  First the growing buffer, which holds  *)
(* every body that is no file: it never writes outside its allocation,     *)
(* holds only what was appended to it, and never moves or loses what it    *)
(* holds, for texts of every length and every size of allocation and       *)
(* growth.  Then the listing of a directory of any size, which is written  *)
(* into it: it is in order, it has every file once, whatever other         *)
(* processes do to the directory while it is read, and its page is as long *)
(* as announced.                                                           *)
(*                                                                         *)
(* Last, write_file's handles and tries, and the bytes it sends, for every *)
(* file, range, buffer and number of tries.  What is said of the handles   *)
(* and the tries holds whatever send_buf returns; what is said of the      *)
(* bytes, where send() takes all it is given or nothing.                   *)
(***************************************************************************)
EXTENDS Listing, FileTransfer, SendBufProofs, FiniteSetTheorems

BufferInv == TypeOK /\ OnlyBytes

(* What is already in use stays in its place. *)
Kept == /\ n_items <= n_items'
        /\ \A i \in 1 .. n_items : data'[i - 1] = data[i - 1]

-----------------------------------------------------------------------------
(* The allocation is large enough for the n bytes it is asked for, and is *)
(* never made smaller (buffer.c:52).                                      *)
LEMMA AllocForRoom ==
    ASSUME TypeOK, NEW n \in Nat
    PROVE  /\ AllocFor(n) \in Nat
           /\ n_items + n <= AllocFor(n)
           /\ n_alloc <= AllocFor(n)
  BY BufferAssumption DEF TypeOK, AllocFor, Grown

(* Any call that makes sure of as much room as it writes, and counts only *)
(* bytes of what it was given, keeps the buffer as it should be.          *)
LEMMA PutIsSafe ==
    ASSUME BufferInv,
           NEW src \in Seq(Byte \union {Null}),
           NEW room \in Nat, NEW used \in Nat,
           Len(src) <= room, used <= Len(src),
           \A i \in 1 .. used : src[i] \in Byte,
           Put(src, room, used)
    PROVE  BufferInv' /\ Kept
  <1> DEFINE size == AllocFor(room)
             len  == Len(src)
  <1>1. /\ size \in Nat
        /\ n_items + room <= size
        /\ n_alloc <= size
    BY AllocForRoom DEF BufferInv
  <1>2. /\ len \in Nat
        /\ len <= room
        /\ used <= len
        /\ \A i \in 1 .. len : src[i] \in Byte \union {Null}
    OBVIOUS
  <1>3. /\ n_alloc \in Nat
        /\ n_items \in Nat
        /\ n_items <= n_alloc
        /\ data \in [0 .. n_alloc - 1 -> Byte \union {Null, Junk}]
        /\ \A i \in 1 .. n_items : data[i - 1] \in Byte
    BY DEF BufferInv, TypeOK, OnlyBytes
  <1>4. /\ n_items' = n_items + used
        /\ n_alloc' = size
        /\ data' = [i \in (0 .. size - 1) \union (n_items .. n_items + len - 1) |->
                      IF i \in n_items .. n_items + len - 1
                      THEN src[i - n_items + 1]
                      ELSE IF i < n_alloc THEN data[i] ELSE Junk]
    BY DEF Put, Copied
  <1> HIDE DEF size, len
  <1>5. (0 .. size - 1) \union (n_items .. n_items + len - 1) = 0 .. size - 1
    BY <1>1, <1>2, <1>3
  <1>6. data' = [i \in 0 .. size - 1 |->
                      IF i \in n_items .. n_items + len - 1
                      THEN src[i - n_items + 1]
                      ELSE IF i < n_alloc THEN data[i] ELSE Junk]
    BY <1>4, <1>5
  <1>7. \A i \in n_items .. n_items + len - 1 :
           /\ data'[i] = src[i - n_items + 1]
           /\ data'[i] \in Byte \union {Null}
    BY <1>1, <1>2, <1>3, <1>6
  <1>8. \A i \in 0 .. n_items - 1 : data'[i] = data[i]
    BY <1>1, <1>2, <1>3, <1>6
  <1>9. TypeOK'
    <2>1. \A i \in 0 .. size - 1 : data'[i] \in Byte \union {Null, Junk}
      BY <1>1, <1>2, <1>3, <1>6, <1>7
    <2>2. data' \in [0 .. size - 1 -> Byte \union {Null, Junk}]
      BY <1>6, <2>1
    <2> QED
      BY <1>1, <1>2, <1>3, <1>4, <2>2 DEF TypeOK
  <1>10. OnlyBytes'
    <2> SUFFICES ASSUME NEW i \in 1 .. n_items + used
                 PROVE  data'[i - 1] \in Byte
      BY <1>4 DEF OnlyBytes
    <2>1. CASE i <= n_items
      <3>1. n_items \in Nat /\ i - 1 \in 0 .. n_items - 1 /\ i \in 1 .. n_items
        BY <1>3, <2>1
      <3>2. data'[i - 1] = data[i - 1]
        BY <1>8, <3>1
      <3>3. data[i - 1] \in Byte
        BY <1>3, <3>1
      <3> QED
        BY <3>2, <3>3
    <2>2. CASE i > n_items
      <3>1. i - 1 \in n_items .. n_items + len - 1
        BY <1>2, <1>3, <2>2
      <3>2. data'[i - 1] = src[(i - 1) - n_items + 1]
        BY <1>7, <3>1
      <3>3. /\ (i - 1) - n_items + 1 = i - n_items
            /\ i - n_items \in 1 .. used
        BY <1>2, <1>3, <2>2
      <3> QED
        BY <3>2, <3>3
    <2> QED
      BY <1>3, <2>1, <2>2
  <1>11. Kept
    <2>1. ASSUME NEW i \in 1 .. n_items PROVE data'[i - 1] = data[i - 1]
      <3>1. i - 1 \in 0 .. n_items - 1
        BY <1>3
      <3> QED
        BY <1>8, <3>1
    <2>2. n_items <= n_items'
      BY <1>3, <1>4
    <2> QED
      BY <2>1, <2>2 DEF Kept
  <1> QED
    BY <1>9, <1>10, <1>11 DEF BufferInv

(* What is used of the buffer grows by what is used of the text. *)
LEMMA PutAppends ==
    ASSUME TypeOK,
           NEW src \in Seq(Byte \union {Null, Junk}),
           NEW room \in Nat, NEW used \in Nat,
           Len(src) <= room, used <= Len(src),
           Put(src, room, used)
    PROVE  /\ TypeOK'
           /\ n_items' = n_items + used
           /\ Contents' = Contents \o SubSeq(src, 1, used)
  <1> DEFINE size == AllocFor(room)
             len  == Len(src)
             Bytes == Byte \union {Null, Junk}
  <1>1. /\ size \in Nat
        /\ n_items + room <= size
        /\ n_alloc <= size
    BY AllocForRoom
  <1>2. /\ len \in Nat
        /\ len <= room
        /\ used <= len
        /\ \A i \in 1 .. len : src[i] \in Bytes
    OBVIOUS
  <1>3. /\ n_alloc \in Nat
        /\ n_items \in Nat
        /\ n_items <= n_alloc
        /\ data \in [0 .. n_alloc - 1 -> Bytes]
    BY DEF TypeOK
  <1>4. /\ n_items' = n_items + used
        /\ n_alloc' = size
        /\ data' = [i \in (0 .. size - 1) \union (n_items .. n_items + len - 1) |->
                      IF i \in n_items .. n_items + len - 1
                      THEN src[i - n_items + 1]
                      ELSE IF i < n_alloc THEN data[i] ELSE Junk]
    BY DEF Put, Copied
  <1>5. Junk \in Bytes
    OBVIOUS
  <1>6. SubSeq(src, 1, used) \in Seq(Bytes) /\ Len(SubSeq(src, 1, used)) = used
        /\ \A i \in 1 .. used : SubSeq(src, 1, used)[i] = src[i]
    OBVIOUS
  <1> HIDE DEF size, len, Bytes
  <1>7. (0 .. size - 1) \union (n_items .. n_items + len - 1) = 0 .. size - 1
    BY <1>1, <1>2, <1>3
  <1>8. data' = [i \in 0 .. size - 1 |->
                      IF i \in n_items .. n_items + len - 1
                      THEN src[i - n_items + 1]
                      ELSE IF i < n_alloc THEN data[i] ELSE Junk]
    BY <1>4, <1>7
  <1>9. \A i \in n_items .. n_items + len - 1 : data'[i] = src[i - n_items + 1]
    BY <1>1, <1>2, <1>3, <1>8
  <1>10. \A i \in 0 .. n_items - 1 : data'[i] = data[i]
    BY <1>1, <1>2, <1>3, <1>8
  <1>11. data' \in [0 .. size - 1 -> Bytes]
    <2>1. \A i \in 0 .. size - 1 : data'[i] \in Bytes
      BY <1>1, <1>2, <1>3, <1>5, <1>8
    <2>. QED  BY <1>8, <2>1
  <1>12. TypeOK'
    BY <1>1, <1>2, <1>3, <1>4, <1>11 DEF TypeOK, Bytes
  <1>13. Contents \in Seq(Bytes) /\ Len(Contents) = n_items
         /\ \A i \in 1 .. n_items : Contents[i] = data[i - 1]
    <2>1. \A i \in 1 .. n_items : i - 1 \in 0 .. n_alloc - 1
      BY <1>3
    <2>2. \A i \in 1 .. n_items : data[i - 1] \in Bytes
      BY <1>3, <2>1
    <2>. QED  BY <1>3, <2>2 DEF Contents
  <1>14. Contents' \in Seq(Bytes) /\ Len(Contents') = n_items + used
         /\ \A i \in 1 .. n_items + used : Contents'[i] = data'[i - 1]
    <2>1. \A i \in 1 .. n_items + used : i - 1 \in 0 .. size - 1
      BY <1>1, <1>2, <1>3
    <2>2. \A i \in 1 .. n_items + used : data'[i - 1] \in Bytes
      BY <1>11, <2>1
    <2>3. Contents' = [i \in 1 .. n_items + used |-> data'[i - 1]]
      BY <1>4 DEF Contents
    <2>. QED  BY <1>3, <2>2, <2>3
  <1>15. /\ Contents \o SubSeq(src, 1, used) \in Seq(Bytes)
         /\ Len(Contents \o SubSeq(src, 1, used)) = n_items + used
         /\ \A i \in 1 .. n_items + used :
               (Contents \o SubSeq(src, 1, used))[i] =
                  IF i <= n_items THEN Contents[i] ELSE SubSeq(src, 1, used)[i - n_items]
    <2> DEFINE t == SubSeq(src, 1, used)
    <2>1. t \in Seq(Bytes) /\ Len(t) = used
      BY <1>6
    <2> HIDE DEF t
    <2>2. /\ Contents \o t \in Seq(Bytes) /\ Len(Contents \o t) = n_items + used
          /\ \A i \in 1 .. n_items + used :
               (Contents \o t)[i] = IF i <= n_items THEN Contents[i] ELSE t[i - n_items]
      BY <1>13, <2>1, ConcatProperties
    <2>. QED  BY <2>2 DEF t
  <1>16. ASSUME NEW i \in 1 .. n_items + used
         PROVE  Contents'[i] = (Contents \o SubSeq(src, 1, used))[i]
    <2>1. CASE i <= n_items
      <3>1. i \in 1 .. n_items /\ i - 1 \in 0 .. n_items - 1
        BY <1>3, <2>1
      <3>. QED  BY <1>10, <1>13, <1>14, <1>15, <2>1, <3>1
    <2>2. CASE i > n_items
      <3>1. /\ i - 1 \in n_items .. n_items + len - 1 /\ (i - 1) - n_items + 1 = i - n_items
            /\ i - n_items \in 1 .. used /\ ~(i <= n_items)
        BY <1>2, <1>3, <2>2
      <3>2. data'[i - 1] = src[i - n_items]
        BY <1>9, <3>1
      <3>3. SubSeq(src, 1, used)[i - n_items] = src[i - n_items]
        BY <1>6, <3>1
      <3>4. Contents'[i] = data'[i - 1]
        BY <1>14
      <3>5. (Contents \o SubSeq(src, 1, used))[i] = SubSeq(src, 1, used)[i - n_items]
        BY <1>15, <3>1
      <3>. QED  BY <3>2, <3>3, <3>4, <3>5
    <2>3. i <= n_items \/ i > n_items
      BY <1>3
    <2>. QED  BY <2>1, <2>2, <2>3
  <1>17. Contents' = Contents \o SubSeq(src, 1, used)
    <2> DEFINE u == Contents \o SubSeq(src, 1, used)
    <2>1. /\ u \in Seq(Bytes) /\ Len(u) = Len(Contents')
          /\ \A i \in 1 .. Len(Contents') : Contents'[i] = u[i]
      BY <1>14, <1>15, <1>16
    <2> HIDE DEF u
    <2>2. Contents' = u
      BY <1>14, <2>1, SeqEqual
    <2>. QED  BY <2>2 DEF u
  <1>. QED  BY <1>4, <1>12, <1>17

-----------------------------------------------------------------------------
LEMMA BufferInvInit == Init => BufferInv
  BY BufferAssumption DEF Init, BufferInv, TypeOK, OnlyBytes

(* Every call of buffer.c is such a call. *)
LEMMA BufferStep == BufferInv /\ [Next]_vars => BufferInv' /\ [Kept]_vars
  <1> SUFFICES ASSUME BufferInv, [Next]_vars PROVE BufferInv' /\ [Kept]_vars
    OBVIOUS
  <1>1. \A t \in Texts : /\ t \in Seq(Byte)
                         /\ \A i \in 1 .. Len(t) : t[i] \in Byte
    BY BufferAssumption DEF Texts
  <1>2. ASSUME NEW c \in Byte, buf_push(c) PROVE BufferInv' /\ Kept
    <2> DEFINE src == <<c>>
    <2>1. /\ src \in Seq(Byte \union {Null})
          /\ Len(src) = 1
          /\ \A i \in 1 .. 1 : src[i] \in Byte
      OBVIOUS
    <2>2. Put(src, 1, 1)
      BY <1>2 DEF buf_push
    <2> HIDE DEF src
    <2>3. /\ 1 \in Nat
          /\ Len(src) <= 1
          /\ 1 <= Len(src)
      BY <2>1
    <2> QED
      BY <2>1, <2>2, <2>3, PutIsSafe
  <1>3. ASSUME NEW src \in Texts, buf_append(src) PROVE BufferInv' /\ Kept
    <2>1. /\ src \in Seq(Byte \union {Null})
          /\ Len(src) \in Nat
      BY <1>1
    <2> QED
      BY <1>1, <1>3, <2>1, PutIsSafe DEF buf_append
  <1>4. ASSUME NEW text \in Texts, buf_sprintf(text) PROVE BufferInv' /\ Kept
    <2> DEFINE src == Append(text, Null)
               len == Len(text)
    <2>1. /\ src \in Seq(Byte \union {Null})
          /\ len \in Nat
          /\ Len(src) = len + 1
          /\ \A i \in 1 .. len : src[i] \in Byte
      BY <1>1
    <2>2. Put(src, len + 1, len)
      BY <1>4 DEF buf_sprintf
    <2> HIDE DEF src, len
    <2>3. /\ len + 1 \in Nat
          /\ Len(src) <= len + 1
          /\ len <= Len(src)
      BY <2>1
    <2> QED
      BY <2>1, <2>2, <2>3, PutIsSafe
  <1>5. CASE UNCHANGED vars
    BY <1>5 DEF vars, BufferInv, TypeOK, OnlyBytes
  <1> QED
    BY <1>2, <1>3, <1>4, <1>5 DEF Next

LEMMA BufferInvAlways == Spec => []BufferInv
  BY BufferInvInit, BufferStep, PTL DEF Spec

(* No call writes outside the allocation. *)
THEOREM StaysInAllocation == Spec => []TypeOK
  <1>1. BufferInv => TypeOK
    BY DEF BufferInv
  <1> QED
    BY <1>1, BufferInvAlways, PTL

(* The used part holds what was appended, with no null of buf_sprintf and *)
(* no uninitialised byte in it.                                           *)
THEOREM HoldsOnlyBytes == Spec => []OnlyBytes
  <1>1. BufferInv => OnlyBytes
    BY DEF BufferInv
  <1> QED
    BY <1>1, BufferInvAlways, PTL

(* What was appended is never moved, overwritten or dropped. *)
THEOREM KeepsContents == Spec => AppendOnly
  <1>1. BufferInv /\ [Next]_vars => [Kept]_vars
    BY BufferStep
  <1> QED
    BY <1>1, BufferInvAlways, PTL DEF Spec, AppendOnly, Kept

-----------------------------------------------------------------------------
FileType == [name : Names, is_dir : BOOLEAN, is_link : BOOLEAN,
             is_broken_link : BOOLEAN, size : {"", "K", "M", "G", "T"}]

(* The order that Rank and NotAfter make. *)
Before(a, b) == NotAfter(Rank(a), Rank(b))

DirRank(f) == IF f.is_dir THEN 0 ELSE 1
NameRank(n) == IF n = Dot THEN 0 ELSE IF n = DotDot THEN 1
               ELSE IF n \in DotNames THEN 2
               ELSE IF n \notin AlnumNames THEN 3 ELSE 4

LEMMA NotAfterIsLexical ==
    ASSUME NEW r1, NEW r2, NEW r3, NEW s1, NEW s2, NEW s3
    PROVE  NotAfter(<<r1, r2, r3>>, <<s1, s2, s3>>) <=>
             \/ r1 = s1 /\ r2 = s2 /\ r3 = s3
             \/ r1 < s1
             \/ r1 = s1 /\ r2 < s2
             \/ r1 = s1 /\ r2 = s2 /\ r3 < s3
  <1> DEFINE r == <<r1, r2, r3>>
             s == <<s1, s2, s3>>
             Less(k) == r[k] < s[k] /\ \A j \in 1 .. k - 1 : r[j] = s[j]
  <1>1. Less(1) <=> r1 < s1
    OBVIOUS
  <1>2. Less(2) <=> r2 < s2 /\ r1 = s1
    OBVIOUS
  <1>3. Less(3) <=> r3 < s3 /\ r1 = s1 /\ r2 = s2
    OBVIOUS
  <1>4. NotAfter(r, s) <=> r = s \/ \E k \in 1 .. 3 : Less(k)
    BY DEF NotAfter
  <1>5. (\E k \in 1 .. 3 : Less(k)) <=> Less(1) \/ Less(2) \/ Less(3)
    <2> HIDE DEF Less
    <2>. QED  OBVIOUS
  <1>6. r = s <=> r1 = s1 /\ r2 = s2 /\ r3 = s3
    OBVIOUS
  <1>. QED  BY <1>1, <1>2, <1>3, <1>4, <1>5, <1>6

(* Names have places, which tell them apart. *)
LEMMA PlacesAreNumbers ==
    ASSUME NEW a \in Names, NEW b \in Names
    PROVE  /\ Place(a) \in Nat
           /\ Place(a) = Place(b) => a = b
           /\ strcoll(a, b) = Place(a) - Place(b)
  <1>1. Collation \in Seq(Range(Collation))
    BY ListingAssumption
  <1>2. ASSUME NEW n \in Names
        PROVE  Place(n) \in Nat /\ Collation[Place(n)] = n
    <2>1. PICK i \in DOMAIN Collation : Collation[i] = n
      BY DEF Names, Range
    <2>2. Place(n) \in DOMAIN Collation /\ Collation[Place(n)] = n
      BY <2>1 DEF Place
    <2>. QED  BY <1>1, <2>2
  <1>. QED  BY <1>2 DEF strcoll

LEMMA BeforeIsLexical ==
    ASSUME NEW a \in FileType, NEW b \in FileType
    PROVE  Before(a, b) <=>
             \/ DirRank(a) < DirRank(b)
             \/ DirRank(a) = DirRank(b) /\ NameRank(a.name) < NameRank(b.name)
             \/ /\ DirRank(a) = DirRank(b) /\ NameRank(a.name) = NameRank(b.name)
                /\ Place(a.name) <= Place(b.name)
  <1>1. /\ Rank(a) = <<DirRank(a), NameRank(a.name), Place(a.name)>>
        /\ Rank(b) = <<DirRank(b), NameRank(b.name), Place(b.name)>>
    BY DEF Rank, DirRank, NameRank
  <1>2. /\ a.name \in Names /\ b.name \in Names
        /\ Place(a.name) \in Nat /\ Place(b.name) \in Nat
    BY PlacesAreNumbers DEF FileType
  <1>3. /\ DirRank(a) \in {0, 1} /\ DirRank(b) \in {0, 1}
        /\ NameRank(a.name) \in 0 .. 4 /\ NameRank(b.name) \in 0 .. 4
    BY DEF DirRank, NameRank
  <1>4. Before(a, b) <=>
             \/ /\ DirRank(a) = DirRank(b) /\ NameRank(a.name) = NameRank(b.name)
                /\ Place(a.name) = Place(b.name)
             \/ DirRank(a) < DirRank(b)
             \/ DirRank(a) = DirRank(b) /\ NameRank(a.name) < NameRank(b.name)
             \/ /\ DirRank(a) = DirRank(b) /\ NameRank(a.name) = NameRank(b.name)
                /\ Place(a.name) < Place(b.name)
    BY <1>1, NotAfterIsLexical DEF Before
  <1>. QED  BY <1>2, <1>4

LEMMA BeforeIsATotalOrder ==
    ASSUME NEW a \in FileType, NEW b \in FileType, NEW c \in FileType
    PROVE  /\ Before(a, a)
           /\ Before(a, b) \/ Before(b, a)
           /\ Before(a, b) /\ Before(b, c) => Before(a, c)
  <1>1. \A f \in {a, b, c} :
          /\ f \in FileType
          /\ DirRank(f) \in Int /\ NameRank(f.name) \in Int /\ Place(f.name) \in Int
    <2> SUFFICES ASSUME NEW f \in FileType
                 PROVE  /\ DirRank(f) \in Int /\ NameRank(f.name) \in Int
                        /\ Place(f.name) \in Int
      OBVIOUS
    <2>1. f.name \in Names
      BY DEF FileType
    <2>. QED  BY <2>1, PlacesAreNumbers DEF DirRank, NameRank
  <1>. QED  BY <1>1, BeforeIsLexical

(* The chain of special cases in compare_file_names, by kind of name.      *)
LEMMA ComparedNames ==
    ASSUME NEW a \in Names, NEW b \in Names
    PROVE  compare_file_names(a, b) =
             IF a = Dot THEN 1 ELSE IF b = Dot THEN -1
             ELSE IF a = DotDot THEN 1 ELSE IF b = DotDot THEN -1
             ELSE IF NameRank(a) < NameRank(b) THEN 1
             ELSE IF NameRank(b) < NameRank(a) THEN -1
             ELSE Place(b) - Place(a)
  <1>1. /\ Place(a) \in Nat /\ Place(b) \in Nat
        /\ strcoll(a, b) = Place(a) - Place(b)
        /\ -strcoll(a, b) = Place(b) - Place(a)
    BY PlacesAreNumbers
  <1>2. DotNames \cap AlnumNames = {}
    BY ListingAssumption
  <1>3. \A n : n \in {a, b} /\ n # Dot /\ n # DotDot =>
          NameRank(n) = IF n \in DotNames THEN 2 ELSE IF n \notin AlnumNames THEN 3 ELSE 4
    BY DEF NameRank
  <1>4. {a, b} \subseteq DotNames <=> a \in DotNames /\ b \in DotNames
    OBVIOUS
  <1>5. {a, b} \cap AlnumNames = {} <=> a \notin AlnumNames /\ b \notin AlnumNames
    OBVIOUS
  <1>. QED  BY <1>1, <1>2, <1>3, <1>4, <1>5 DEF compare_file_names

(* compare_files tells which of two files comes first. *)
LEMMA ComparesRanks ==
    ASSUME NEW a \in FileType, NEW b \in FileType
    PROVE  IF compare_files(a, b) < 0 THEN Before(b, a) ELSE Before(a, b)
  <1>1. /\ a.name \in Names /\ b.name \in Names
        /\ a.is_dir \in BOOLEAN /\ b.is_dir \in BOOLEAN
        /\ Place(a.name) \in Nat /\ Place(b.name) \in Nat
    BY PlacesAreNumbers DEF FileType
  <1>2. CASE a.is_dir # b.is_dir
    BY <1>1, <1>2, BeforeIsLexical DEF compare_files, DirRank
  <1>3. CASE a.is_dir = b.is_dir
    <2>1. compare_files(a, b) = compare_file_names(a.name, b.name)
      BY <1>3 DEF compare_files
    <2>2. DirRank(a) = DirRank(b) /\ DirRank(a) \in Int
      BY <1>3 DEF DirRank
    <2>3. \A n \in {a.name, b.name} :
            /\ NameRank(n) \in 0 .. 4
            /\ NameRank(n) = 0 <=> n = Dot
            /\ NameRank(n) = 1 <=> n = DotDot
      BY DEF NameRank, Dot, DotDot
    <2>. QED  BY <1>1, <2>1, <2>2, <2>3, ComparedNames, BeforeIsLexical
  <1>. QED  BY <1>2, <1>3

-----------------------------------------------------------------------------
(* The search for the first of the rest. *)
SmallestStep(list, s, j) == IF compare_files(list[s], list[j]) < 0 THEN j ELSE s

IsSmallest(list, i, f) ==
    f = [j \in i .. Len(list) |-> IF j = i THEN i ELSE SmallestStep(list, f[j - 1], j)]

LEMMA SmallestExists ==
    ASSUME NEW list, Len(list) \in Nat, NEW i \in 1 .. Len(list)
    PROVE  \E f : IsSmallest(list, i, f)
  <1> DEFINE n == Len(list)
             step == [t \in (i + 1 .. n) \X (i .. n) |-> SmallestStep(list, t[2], t[1])]
  <1>1. n \in Int /\ i \in Int /\ i <= n /\ i \in i .. n
    OBVIOUS
  <1>2. step \in [(i + 1 .. n) \X (i .. n) -> i .. n]
    BY <1>1 DEF SmallestStep
  <1>3. ASSUME NEW j \in i + 1 .. n, NEW s \in i .. n
        PROVE  step[<<j, s>>] = SmallestStep(list, s, j)
    OBVIOUS
  <1> HIDE DEF n, step
  <1>4. PICK f : Computes(f, i .. n, i, n, i, step)
    BY <1>1, <1>2, RecursionExists
  <1>5. \A j \in i .. n : f[j] = IF j = i THEN i ELSE SmallestStep(list, f[j - 1], j)
    <2> SUFFICES ASSUME NEW j \in i .. n
                 PROVE  f[j] = IF j = i THEN i ELSE SmallestStep(list, f[j - 1], j)
      OBVIOUS
    <2>1. j # i => j \in i + 1 .. n /\ j - 1 \in i .. n
      BY <1>1
    <2>2. j # i => f[j] = step[<<j, f[j - 1]>>] /\ f[j - 1] \in i .. n
      BY <1>4, <2>1 DEF Computes
    <2>. QED  BY <1>3, <1>4, <2>1, <2>2 DEF Computes
  <1>6. f = [j \in i .. n |-> f[j]]
    BY <1>4 DEF Computes
  <1>7. f = [j \in i .. n |-> IF j = i THEN i ELSE SmallestStep(list, f[j - 1], j)]
    BY <1>5, <1>6
  <1>. QED  BY <1>7 DEF IsSmallest, n

LEMMA SmallestComesFirst ==
    ASSUME NEW list \in Seq(FileType), NEW i \in 1 .. Len(list)
    PROVE  /\ Smallest(list, i) \in i .. Len(list)
           /\ \A l \in i .. Len(list) : Before(list[Smallest(list, i)], list[l])
  <1> DEFINE n == Len(list)
             f == CHOOSE g : IsSmallest(list, i, g)
             First(j) == /\ f[j] \in i .. n
                         /\ \A l \in i .. j : Before(list[f[j]], list[l])
  <1>1. Smallest(list, i) = f[n]
    BY Zenon DEF Smallest, IsSmallest, SmallestStep
  <1>2. IsSmallest(list, i, f)
    BY SmallestExists
  <1>3. n \in Nat /\ i \in 1 .. n /\ \A j \in 1 .. n : list[j] \in FileType
    OBVIOUS
  <1>4. f[i] = i /\ \A j \in i + 1 .. n : f[j] = SmallestStep(list, f[j - 1], j)
    <2> HIDE DEF f
    <2>1. f = [j \in i .. n |-> IF j = i THEN i ELSE SmallestStep(list, f[j - 1], j)]
      BY <1>2 DEF IsSmallest
    <2> HIDE DEF n
    <2>. QED  BY <1>3, <2>1
  <1> HIDE DEF n, f
  <1>5. First(i)
    BY <1>3, <1>4, BeforeIsATotalOrder
  <1>6. ASSUME NEW j \in i + 1 .. n, First(j - 1)
        PROVE  First(j)
    <2>1. /\ j \in i .. n /\ f[j - 1] \in i .. n
          /\ list[j] \in FileType /\ list[f[j - 1]] \in FileType
          /\ \A l \in i .. j - 1 : Before(list[f[j - 1]], list[l])
          /\ \A l \in i .. j : (l \in i .. j - 1 \/ l = j) /\ list[l] \in FileType
      BY <1>3, <1>6
    <2>2. f[j] = IF compare_files(list[f[j - 1]], list[j]) < 0 THEN j ELSE f[j - 1]
      BY <1>4 DEF SmallestStep
    <2>3. CASE compare_files(list[f[j - 1]], list[j]) < 0
      <3>1. f[j] = j /\ Before(list[j], list[f[j - 1]])
        BY <2>1, <2>2, <2>3, ComparesRanks
      <3>. QED  BY <2>1, <3>1, BeforeIsATotalOrder
    <2>4. CASE ~(compare_files(list[f[j - 1]], list[j]) < 0)
      <3>1. f[j] = f[j - 1] /\ Before(list[f[j - 1]], list[j])
        BY <2>1, <2>2, <2>4, ComparesRanks
      <3>. QED  BY <2>1, <3>1
    <2>. QED  BY <2>3, <2>4
  <1>7. First(n)
    <2> DEFINE Late == {j \in i .. n : ~First(j)}
    <2> SUFFICES ASSUME Late # {}
                 PROVE  FALSE
      BY <1>3
    <2> HIDE DEF First
    <2>1. Late \subseteq Nat
      BY <1>3
    <2>2. PICK j \in Late : \A k \in Late : j <= k
      <3> HIDE DEF Late
      <3>. QED  BY <2>1, LeastNumber
    <2>3. j \in i .. n /\ ~First(j) /\ j # i
      BY <1>5
    <2>4. j \in i + 1 .. n /\ j - 1 \in i .. n /\ ~(j <= j - 1)
      BY <1>3, <2>3
    <2>5. First(j - 1)
      BY <2>2, <2>4
    <2>. QED  BY <1>6, <2>3, <2>4, <2>5
  <1>. QED  BY <1>1, <1>7 DEF n

-----------------------------------------------------------------------------
(* One list has the files of another, in some order. *)
Reorders(l, list) ==
    LET n == Len(list)
    IN  /\ l \in Seq(FileType) /\ Len(l) = n
        /\ \E p \in [1 .. n -> 1 .. n] :
              /\ \A a, b \in 1 .. n : p[a] = p[b] => a = b
              /\ \A k \in 1 .. n : l[k] = list[p[k]]

(* The first i files are in order, and before all others. *)
SortedTo(l, i) == \A a \in 1 .. i, b \in 1 .. Len(l) : a < b => Before(l[a], l[b])

IsSwapped(s, l, a, b) ==
    /\ s \in Seq(FileType) /\ Len(s) = Len(l)
    /\ \A k \in 1 .. Len(l) : s[k] = IF k = b THEN l[a] ELSE IF k = a THEN l[b] ELSE l[k]

LEMMA SwapIs ==
    ASSUME NEW l, l \in Seq(FileType), NEW a, a \in 1 .. Len(l), NEW b, b \in 1 .. Len(l)
    PROVE  IsSwapped(swap_in_file_list(l, a, b), l, a, b)
  <1> DEFINE s == swap_in_file_list(l, a, b)
             m == [l EXCEPT ![a] = l[b]]
  <1>1. l[a] \in FileType /\ l[b] \in FileType
    OBVIOUS
  <1>2. /\ m \in Seq(FileType) /\ Len(m) = Len(l)
        /\ \A k \in 1 .. Len(l) : m[k] = IF k = a THEN l[b] ELSE l[k]
    BY <1>1, ExceptSeq
  <1>3. s = [m EXCEPT ![b] = l[a]]
    BY DEF swap_in_file_list
  <1> HIDE DEF m, s
  <1>4. /\ s \in Seq(FileType) /\ Len(s) = Len(m)
        /\ \A k \in 1 .. Len(m) : s[k] = IF k = b THEN l[a] ELSE m[k]
    BY <1>1, <1>2, <1>3, ExceptSeq
  <1>5. IsSwapped(s, l, a, b)
    BY <1>2, <1>4 DEF IsSwapped
  <1>. QED  BY <1>5 DEF s

LEMMA SwapReorders ==
    ASSUME NEW list \in Seq(FileType), NEW l \in Seq(FileType), Reorders(l, list),
           NEW a \in 1 .. Len(list), NEW b \in 1 .. Len(list)
    PROVE  Reorders(swap_in_file_list(l, a, b), list)
  <1> DEFINE n == Len(list)
             s == swap_in_file_list(l, a, b)
  <1>1. Len(l) = n
    BY DEF Reorders
  <1>2. PICK p \in [1 .. n -> 1 .. n] :
          /\ \A c, d \in 1 .. n : p[c] = p[d] => c = d
          /\ \A k \in 1 .. n : l[k] = list[p[k]]
    BY DEF Reorders
  <1>3. /\ s \in Seq(FileType) /\ Len(s) = n
        /\ \A k \in 1 .. n : s[k] = IF k = b THEN l[a] ELSE IF k = a THEN l[b] ELSE l[k]
    <2>1. a \in 1 .. Len(l) /\ b \in 1 .. Len(l)
      BY <1>1
    <2>2. IsSwapped(s, l, a, b)
      BY <2>1, SwapIs
    <2> HIDE DEF n, s
    <2>. QED  BY <1>1, <2>2 DEF IsSwapped
  <1> DEFINE q == [k \in 1 .. n |-> IF k = b THEN p[a] ELSE IF k = a THEN p[b] ELSE p[k]]
  <1>4. a \in 1 .. n /\ b \in 1 .. n
    OBVIOUS
  <1> HIDE DEF n, s
  <1>5. q \in [1 .. n -> 1 .. n]
    BY <1>2, <1>4
  <1>6. \A c, d \in 1 .. n : q[c] = q[d] => c = d
    BY <1>2, <1>4
  <1>7. \A k \in 1 .. n : s[k] = list[q[k]]
    BY <1>2, <1>3, <1>4
  <1> HIDE DEF q
  <1>. QED  BY <1>3, <1>5, <1>6, <1>7 DEF Reorders, n, s

(* What one turn of the sort makes of a list that is sorted so far.        *)
SortStep(l, i) == swap_in_file_list(l, Smallest(l, i), i)

LEMMA SortStepSorts ==
    ASSUME NEW l \in Seq(FileType), NEW i \in 1 .. Len(l), SortedTo(l, i - 1)
    PROVE  SortedTo(SortStep(l, i), i)
  <1> DEFINE n == Len(l)
             x == Smallest(l, i)
             s == SortStep(l, i)
  <1>1. x \in i .. n /\ \A k \in i .. n : Before(l[x], l[k])
    BY SmallestComesFirst
  <1>2. n \in Nat /\ i \in 1 .. n /\ x \in 1 .. n
    BY <1>1
  <1>3. /\ Len(s) = n
        /\ \A k \in 1 .. n : s[k] = IF k = i THEN l[x] ELSE IF k = x THEN l[i] ELSE l[k]
    <2>1. x \in 1 .. Len(l)
      BY <1>2
    <2> HIDE DEF x
    <2>2. IsSwapped(swap_in_file_list(l, x, i), l, x, i)
      BY <2>1, SwapIs
    <2>3. IsSwapped(s, l, x, i)
      BY <2>2 DEF SortStep, x
    <2> HIDE DEF s
    <2>. QED  BY <2>3 DEF IsSwapped
  <1> HIDE DEF n, x, s
  <1>4. ASSUME NEW a \in 1 .. i, NEW b \in 1 .. n, a < b
        PROVE  Before(s[a], s[b])
    <2>1. PICK c \in 1 .. n : s[b] = l[c] /\ (b >= i => c >= i) /\ (b < i => c = b)
      BY <1>1, <1>2, <1>3
    <2>2. CASE a = i
      BY <1>1, <1>2, <1>3, <1>4, <2>1, <2>2
    <2>3. CASE a < i
      <3>1. s[a] = l[a] /\ a \in 1 .. i - 1 /\ a < c
        BY <1>1, <1>2, <1>3, <1>4, <2>1, <2>3
      <3>. QED  BY <2>1, <3>1 DEF SortedTo, n
    <2>. QED  BY <1>2, <2>2, <2>3
  <1>. QED  BY <1>3, <1>4 DEF SortedTo, s

Sorts(list, f) ==
    f = [i \in 0 .. Len(list) |-> IF i = 0 THEN list ELSE SortStep(f[i - 1], i)]

LEMMA ReordersItself ==
    ASSUME NEW list \in Seq(FileType)
    PROVE  Reorders(list, list)
  <1> DEFINE p == [k \in 1 .. Len(list) |-> k]
  <1>1. /\ p \in [1 .. Len(list) -> 1 .. Len(list)]
        /\ \A a, b \in 1 .. Len(list) : p[a] = p[b] => a = b
        /\ \A k \in 1 .. Len(list) : list[k] = list[p[k]]
    OBVIOUS
  <1> HIDE DEF p
  <1>. QED  BY <1>1 DEF Reorders

LEMMA SortStepReorders ==
    ASSUME NEW list \in Seq(FileType), NEW l \in Seq(FileType), Reorders(l, list),
           NEW i \in 1 .. Len(list)
    PROVE  Reorders(SortStep(l, i), list)
  <1>1. Len(l) = Len(list) /\ Len(list) \in Nat
    BY DEF Reorders
  <1>2. Smallest(l, i) \in 1 .. Len(list)
    BY <1>1, SmallestComesFirst
  <1>. QED  BY <1>2, SwapReorders DEF SortStep

LEMMA SortExists ==
    ASSUME NEW list \in Seq(FileType)
    PROVE  \E f : Sorts(list, f)
  <1> DEFINE n == Len(list)
             S == {l \in Seq(FileType) : Reorders(l, list)}
             step == [t \in (0 + 1 .. n) \X S |-> SortStep(t[2], t[1])]
  <1>1. n \in Nat /\ 0 \in Int /\ n \in Int /\ 0 <= n
    OBVIOUS
  <1>2. list \in S
    BY ReordersItself
  <1>3. ASSUME NEW i \in 0 + 1 .. n, NEW l \in S
        PROVE  SortStep(l, i) \in S
    <2>1. Reorders(SortStep(l, i), list)
      BY <1>1, SortStepReorders
    <2>. QED  BY <2>1 DEF Reorders
  <1>4. step \in [(0 + 1 .. n) \X S -> S]
    <2> HIDE DEF S, n
    <2>. QED  BY <1>3
  <1>5. ASSUME NEW i \in 0 + 1 .. n, NEW l \in S
        PROVE  step[<<i, l>>] = SortStep(l, i)
    OBVIOUS
  <1> HIDE DEF n, S, step
  <1>6. PICK f : Computes(f, S, 0, n, list, step)
    BY <1>1, <1>2, <1>4, RecursionExists
  <1>7. \A i \in 0 .. n : f[i] = IF i = 0 THEN list ELSE SortStep(f[i - 1], i)
    <2> SUFFICES ASSUME NEW i \in 0 .. n
                 PROVE  f[i] = IF i = 0 THEN list ELSE SortStep(f[i - 1], i)
      OBVIOUS
    <2>1. i # 0 => i \in 0 + 1 .. n /\ i - 1 \in 0 .. n
      BY <1>1
    <2>2. i # 0 => f[i] = step[<<i, f[i - 1]>>] /\ f[i - 1] \in S
      BY <1>6, <2>1 DEF Computes
    <2>. QED  BY <1>5, <1>6, <2>1, <2>2 DEF Computes
  <1>8. f = [i \in 0 .. n |-> f[i]]
    BY <1>6 DEF Computes
  <1>9. f = [i \in 0 .. n |-> IF i = 0 THEN list ELSE SortStep(f[i - 1], i)]
    BY <1>7, <1>8
  <1>. QED  BY <1>9 DEF Sorts, n

(* sort_file_list (dir.c:242) puts the files it is given in order, and     *)
(* keeps each of them.                                                     *)
THEOREM SortIsCorrect ==
    ASSUME NEW list \in Seq(FileType)
    PROVE  /\ Reorders(sort_file_list(list), list)
           /\ SortedTo(sort_file_list(list), Len(list))
  <1> DEFINE n == Len(list)
             f == CHOOSE g : Sorts(list, g)
             Good(i) == Reorders(f[i], list) /\ SortedTo(f[i], i)
  <1>1. sort_file_list(list) = f[n]
    BY Zenon DEF sort_file_list, Sorts, SortStep
  <1>2. Sorts(list, f)
    BY SortExists
  <1>3. n \in Nat
    OBVIOUS
  <1>4. f[0] = list /\ \A i \in 1 .. n : f[i] = SortStep(f[i - 1], i)
    <2> HIDE DEF f
    <2>1. f = [i \in 0 .. n |-> IF i = 0 THEN list ELSE SortStep(f[i - 1], i)]
      BY <1>2 DEF Sorts
    <2> HIDE DEF n
    <2>. QED  BY <1>3, <2>1
  <1> HIDE DEF f
  <1>5. Good(0)
    BY <1>4, ReordersItself DEF SortedTo
  <1>6. ASSUME NEW i \in 1 .. n, Good(i - 1)
        PROVE  Good(i)
    <2>1. f[i - 1] \in Seq(FileType) /\ Len(f[i - 1]) = n
      BY <1>6 DEF Reorders
    <2>. QED  BY <1>4, <1>6, <2>1, SortStepReorders, SortStepSorts
  <1>7. Good(n)
    <2> DEFINE Bad == {i \in 0 .. n : ~Good(i)}
    <2> SUFFICES ASSUME Bad # {}
                 PROVE  FALSE
      BY <1>3
    <2> HIDE DEF Good
    <2>1. Bad \subseteq Nat
      BY <1>3
    <2>2. PICK i \in Bad : \A k \in Bad : i <= k
      <3> HIDE DEF Bad
      <3>. QED  BY <2>1, LeastNumber
    <2>3. i \in 0 .. n /\ ~Good(i) /\ i # 0
      BY <1>5
    <2>4. i \in 1 .. n /\ i - 1 \in 0 .. n /\ ~(i <= i - 1)
      BY <1>3, <2>3
    <2>5. Good(i - 1)
      BY <2>2, <2>4
    <2>. QED  BY <1>6, <2>3, <2>4, <2>5
  <1>. QED  BY <1>1, <1>7

-----------------------------------------------------------------------------
(* What may be listed in the place of the name n: a nameless file, if n is *)
(* one of the others, which were changed or which lstat() failed on, or a  *)
(* file of that name, which is what n stands for unless n was changed.     *)
AsSeen(f, n, d, others) ==
    \/ f.name = NullName /\ n \in others
    \/ /\ f.name = n
       /\ n \notin others => f.is_link = d[n].is_link
       /\ n \notin others /\ ~d[n].is_link => f.is_dir = (d[n].to = "dir")

(* What scandir() gave: each name that there is once, in any order. *)
Scanned(N, d, others) ==
    /\ N \in Seq(Names) /\ \A i, j \in 1 .. Len(N) : N[i] = N[j] => i = j
    /\ \A n \in Names : d[n] # Gone /\ n \notin others => \E i \in 1 .. Len(N) : N[i] = n
    /\ \A i \in 1 .. Len(N) : d[N[i]] # Gone \/ N[i] \in others

(* The first names of N have been looked at, and the rest are entries.     *)
Looking(N, rest, list, d, others) ==
    /\ Scanned(N, d, others)
    /\ Len(N) = Len(list) + Len(rest)
    /\ \A i \in 1 .. Len(list) : AsSeen(list[i], N[i], d, others)
    /\ \A i \in 1 .. Len(rest) : rest[i] = N[Len(list) + i]

Looked(list, d, others) ==
    \E N \in Seq(Names), seen \in Seq(FileType) :
       /\ Looking(N, <<>>, seen, d, others)
       /\ Reorders(list, seen)
       /\ SortedTo(list, Len(list))

DirInv(d, others) ==
    /\ d \in [Names -> InodeType]
    /\ d[NullName] = Gone
    /\ others \subseteq Names \ {NullName}
    /\ IsFiniteSet(others)

ListInv ==
    /\ DirInv(dir, Doubtful)
    /\ pc \in {"scan", "look", "write", "done"}
    /\ pc # "done" => head = NoHead
    /\ pc = "scan" => files = <<>> /\ dir[Dot] # Gone /\ Doubtful = {}
    /\ pc = "look" => /\ entries # <<>> /\ entries \in Seq(Names)
                      /\ files \in Seq(FileType)
                      /\ \E N \in Seq(Names) : Looking(N, entries, files, dir, Doubtful)
    /\ Listed => Looked(files, dir, Doubtful)

LEMMA NamesAreFinite == IsFiniteSet(Names) /\ {Dot, DotDot, NullName} \subseteq Names
  <1>1. Collation \in [1 .. Len(Collation) -> Names]
    BY ListingAssumption DEF Names
  <1>2. Len(Collation) \in Nat /\ IsFiniteSet(1 .. Len(Collation))
    BY ListingAssumption, FS_Interval
  <1>3. Collation \in Surjection(1 .. Len(Collation), Names)
    BY <1>1 DEF Surjection, Names, Range
  <1>. QED  BY <1>2, <1>3, FS_Surjection, ListingAssumption

(* An injection of as many numbers as a finite set has members meets each. *)
LEMMA SeqsMeetAll ==
    ASSUME NEW S, IsFiniteSet(S), NEW f \in SetToSeqs(S)
    PROVE  /\ f \in Seq(S)
           /\ \A i, j \in 1 .. Len(f) : f[i] = f[j] => i = j
           /\ \A x \in S : \E i \in 1 .. Len(f) : f[i] = x
  <1> DEFINE c == Cardinality(S)
  <1>1. c \in Nat
    BY FS_CardinalityType
  <1>2. f \in [1 .. c -> S] /\ \A i, j \in 1 .. c : i # j => f[i] # f[j]
    BY DEF SetToSeqs
  <1>3. f \in Injection(1 .. c, S)
    BY <1>2 DEF Injection, IsInjective
  <1>4. Cardinality(1 .. c) = c
    BY <1>1, FS_Interval
  <1>5. f \in Surjection(1 .. c, S)
    BY <1>3, <1>4, FS_Injection
  <1>6. \A x \in S : \E i \in 1 .. c : f[i] = x
    BY <1>5 DEF Surjection
  <1> HIDE DEF c
  <1>7. f \in Seq(S) /\ Len(f) = c
    BY <1>1, <1>2
  <1>. QED  BY <1>2, <1>6, <1>7

LEMMA InfoIsAsSeen ==
    ASSUME NEW d, NEW others, DirInv(d, others), NEW n \in Names,
           d[n] # Gone \/ n \in others,
           NEW f \in read_file_info(n, d[n]), f = NULL_FILE => n \in others
    PROVE  f \in FileType /\ AsSeen(f, n, d, others)
  <1>1. d[n] \in InodeType /\ NullName \in Names
    BY NamesAreFinite DEF DirInv
  <1>2. d[n].is_link \in BOOLEAN /\ d[n].size \in {"", "K", "M", "G", "T"}
    BY <1>1 DEF InodeType
  <1>3. CASE f = NULL_FILE
    <2>1. f = NULL_FILE /\ n \in others
      BY <1>3
    <2>2. NULL_FILE \in FileType /\ NULL_FILE.name = NullName
      BY <1>1 DEF NULL_FILE, File, FileType
    <2>. QED  BY <2>1, <2>2 DEF AsSeen
  <1>4. CASE f # NULL_FILE
    <2>1. \/ f = File(n, d[n].to = "dir", d[n].is_link, d[n].to = "broken", d[n].size)
          \/ d[n].is_link /\ \E broken \in BOOLEAN : f = File(n, FALSE, TRUE, broken, "")
      BY <1>2, <1>4 DEF read_file_info
    <2>2. CASE f = File(n, d[n].to = "dir", d[n].is_link, d[n].to = "broken", d[n].size)
      BY <1>2, <2>2 DEF File, FileType, AsSeen
    <2>3. CASE d[n].is_link /\ \E broken \in BOOLEAN : f = File(n, FALSE, TRUE, broken, "")
      <3>1. PICK broken \in BOOLEAN : f = File(n, FALSE, TRUE, broken, "")
        BY <2>3
      <3>2. File(n, FALSE, TRUE, broken, "") \in FileType
        BY DEF File, FileType
      <3>3. f.name = n /\ f.is_link = TRUE
        BY <3>1 DEF File
      <3>4. f \in FileType
        BY <3>1, <3>2
      <3>. QED  BY <1>2, <2>3, <3>3, <3>4 DEF AsSeen
    <2>. QED  BY <2>1, <2>2, <2>3
  <1>. QED  BY <1>3, <1>4

(* Another process changes a file. *)
LEMMA ChangeKeepsLooking ==
    ASSUME NEW d, NEW others, DirInv(d, others),
           NEW n \in Names, NEW inode, NEW e, e = [d EXCEPT ![n] = inode],
           NEW N \in Seq(Names), NEW rest, NEW list \in Seq(FileType),
           Looking(N, rest, list, d, others), Len(rest) \in Nat
    PROVE  Looking(N, rest, list, e, others \union {n})
  <1>1. \A m \in Names : m # n => e[m] = d[m]
    BY DEF DirInv
  <1>2. Len(N) \in Nat /\ Len(list) \in Nat /\ Len(list) <= Len(N)
        /\ \A i \in 1 .. Len(N) : N[i] \in Names
    BY DEF Looking
  <1>3. Scanned(N, e, others \union {n})
    BY <1>1, <1>2 DEF Scanned, Looking
  <1>4. ASSUME NEW i \in 1 .. Len(list)
        PROVE  AsSeen(list[i], N[i], e, others \union {n})
    <2>1. N[i] \in Names /\ AsSeen(list[i], N[i], d, others)
      BY <1>2 DEF Looking
    <2>. QED  BY <1>1, <2>1 DEF AsSeen
  <1>. QED  BY <1>3, <1>4 DEF Looking

(* One more entry is looked at. *)
LEMMA LookKeepsLooking ==
    ASSUME NEW d, NEW others, DirInv(d, others),
           NEW N \in Seq(Names), NEW rest \in Seq(Names), rest # <<>>,
           NEW list \in Seq(FileType), Looking(N, rest, list, d, others),
           NEW f \in read_file_info(Head(rest), d[Head(rest)]),
           f = NULL_FILE => Head(rest) \in others
    PROVE  /\ Append(list, f) \in Seq(FileType)
           /\ Tail(rest) \in Seq(Names)
           /\ Looking(N, Tail(rest), Append(list, f), d, others)
  <1> DEFINE k == Len(list)
             l == Append(list, f)
             t == Tail(rest)
  <1>1. /\ t \in Seq(Names) /\ Len(t) = Len(rest) - 1 /\ Len(rest) \in Nat /\ Len(rest) >= 1
        /\ \A i \in 1 .. Len(t) : t[i] = rest[i + 1]
        /\ Head(rest) = rest[1]
    BY HeadTailProperties, EmptySeq
  <1>2. Len(N) \in Nat /\ k \in Nat /\ Len(N) = k + Len(rest) /\ k + 1 \in 1 .. Len(N)
        /\ rest[1] = N[k + 1] /\ N[k + 1] \in Names
    BY <1>1 DEF Looking
  <1>3. d[N[k + 1]] # Gone \/ N[k + 1] \in others
    BY <1>2 DEF Looking, Scanned
  <1>4. f \in FileType /\ AsSeen(f, N[k + 1], d, others)
    BY <1>1, <1>2, <1>3, InfoIsAsSeen
  <1>5. /\ l \in Seq(FileType) /\ Len(l) = k + 1 /\ l[k + 1] = f
        /\ \A i \in 1 .. k : l[i] = list[i]
    BY <1>4, AppendProperties
  <1>6. \A i \in 1 .. k + 1 : AsSeen(l[i], N[i], d, others)
    <2>1. \A i \in 1 .. k : AsSeen(list[i], N[i], d, others)
      BY DEF Looking
    <2>2. \A i \in 1 .. k + 1 : i \in 1 .. k \/ i = k + 1
      BY <1>2
    <2> HIDE DEF l, k
    <2>. QED  BY <1>4, <1>5, <2>1, <2>2
  <1>7. \A i \in 1 .. Len(t) : t[i] = N[k + 1 + i]
    <2> SUFFICES ASSUME NEW i \in 1 .. Len(t)
                 PROVE  t[i] = N[k + 1 + i]
      OBVIOUS
    <2>1. i + 1 \in 1 .. Len(rest) /\ k + (i + 1) = k + 1 + i
      BY <1>1, <1>2
    <2>2. rest[i + 1] = N[k + (i + 1)]
      BY <2>1 DEF Looking
    <2>. QED  BY <1>1, <2>1, <2>2
  <1>8. Scanned(N, d, others) /\ Len(N) = (k + 1) + Len(t)
    BY <1>1, <1>2 DEF Looking
  <1> HIDE DEF l, t, k
  <1>9. Looking(N, t, l, d, others)
    BY <1>5, <1>6, <1>7, <1>8 DEF Looking
  <1>. QED  BY <1>1, <1>5, <1>9 DEF l, t

(* After the last one the files are sorted. *)
LEMMA SortLooked ==
    ASSUME NEW d, NEW others, NEW N \in Seq(Names), NEW seen \in Seq(FileType),
           Looking(N, <<>>, seen, d, others)
    PROVE  Looked(sort_file_list(seen), d, others)
  <1>1. Reorders(sort_file_list(seen), seen) /\ SortedTo(sort_file_list(seen), Len(seen))
    BY SortIsCorrect
  <1>2. Len(sort_file_list(seen)) = Len(seen)
    BY <1>1 DEF Reorders
  <1>. QED  BY <1>1, <1>2 DEF Looked

LEMMA ScanIsLooking ==
    ASSUME NEW d, NEW others, DirInv(d, others), others = {}, d[Dot] # Gone,
           NEW e \in SetToSeqs({n \in Names : d[n] # Gone})
    PROVE  /\ e # <<>> /\ e \in Seq(Names)
           /\ Looking(e, e, <<>>, d, others)
  <1> DEFINE S == {n \in Names : d[n] # Gone}
  <1>1. IsFiniteSet(S) /\ Dot \in S
    BY NamesAreFinite, FS_Subset
  <1>2. /\ e \in Seq(S)
        /\ \A i, j \in 1 .. Len(e) : e[i] = e[j] => i = j
        /\ \A x \in S : \E i \in 1 .. Len(e) : e[i] = x
    BY <1>1, SeqsMeetAll
  <1>3. e \in Seq(Names) /\ Len(e) \in Nat /\ \A i \in 1 .. Len(e) : e[i] \in S
    BY <1>2
  <1>4. e # <<>>
    BY <1>1, <1>2, <1>3
  <1>5. Scanned(e, d, others)
    BY <1>2, <1>3 DEF Scanned
  <1>6. \A i \in 1 .. Len(e) : e[i] = e[0 + i]
    BY <1>3
  <1>. QED  BY <1>3, <1>4, <1>5, <1>6 DEF Looking

-----------------------------------------------------------------------------
LEMMA InodesAreTyped == /\ Inodes \union {Directory, Gone} \subseteq InodeType
                         /\ Directory # Gone
  <1>1. Gone \in InodeType /\ Directory \in InodeType
    BY DEF Gone, Directory, Inode, InodeType
  <1>2. Gone.to = "broken" /\ Directory.to = "dir"
    BY DEF Gone, Directory, Inode
  <1>. QED  BY <1>1, <1>2, ListingAssumption

LEMMA ListInvInit == ListInit => ListInv
  <1> SUFFICES ASSUME ListInit PROVE ListInv
    OBVIOUS
  <1>1. dir \in [Names -> InodeType] /\ dir[NullName] = Gone /\ dir[Dot] # Gone /\ Doubtful = {}
    BY InodesAreTyped, NamesAreFinite DEF ListInit, Doubtful
  <1>2. DirInv(dir, Doubtful)
    BY <1>1, FS_EmptySet DEF DirInv
  <1>. QED  BY <1>1, <1>2 DEF ListInit, ListInv, Listed

LEMMA ListInvStep == ListInv /\ [ListNext]_listVars => ListInv'
  <1> SUFFICES ASSUME ListInv, [ListNext]_listVars
               PROVE  ListInv'
    OBVIOUS
  <1>1. ASSUME NEW n \in Names \ {Dot, DotDot, NullName},
               NEW inode \in Inodes \union {Gone}, Change(n, inode)
        PROVE  ListInv'
    <2>1. /\ pc = "look" /\ dir' = [dir EXCEPT ![n] = inode]
          /\ Doubtful' = Doubtful \union {n} /\ UNCHANGED <<entries, files, head, pc>>
      BY <1>1 DEF Change, Doubtful
    <2>2. inode \in InodeType
      BY InodesAreTyped
    <2>3. DirInv(dir, Doubtful)
      BY DEF ListInv
    <2>4. DirInv(dir', Doubtful')
      <3>1. IsFiniteSet(Doubtful') /\ Doubtful' \subseteq Names \ {NullName}
        BY <2>1, <2>3, FS_AddElement DEF DirInv
      <3>. QED  BY <2>1, <2>2, <2>3, <3>1 DEF DirInv
    <2>5. PICK N \in Seq(Names) : Looking(N, entries, files, dir, Doubtful)
      BY <2>1 DEF ListInv
    <2>6. files \in Seq(FileType) /\ Len(entries) \in Nat /\ n \in Names
      BY <2>1 DEF ListInv
    <2>7. Looking(N, entries, files, dir', Doubtful')
      BY <2>1, <2>3, <2>5, <2>6, ChangeKeepsLooking
    <2>8. ~Listed'
      BY <2>1 DEF Listed
    <2>. QED  BY <2>1, <2>4, <2>7, <2>8 DEF ListInv
  <1>2. ASSUME ScanDir PROVE ListInv'
    <2>1. /\ pc = "scan" /\ pc' = "look" /\ entries' \in SetToSeqs(Present)
          /\ UNCHANGED <<dir, files, head>> /\ Doubtful' = Doubtful
      BY <1>2 DEF ScanDir, Doubtful
    <2>2. DirInv(dir, Doubtful) /\ files = <<>> /\ head = NoHead /\ dir[Dot] # Gone /\ Doubtful = {}
      BY <2>1 DEF ListInv
    <2>3. /\ entries' # <<>> /\ entries' \in Seq(Names)
          /\ Looking(entries', entries', <<>>, dir, Doubtful)
      BY <2>1, <2>2, ScanIsLooking DEF Present
    <2>4. DirInv(dir', Doubtful')
      BY <2>1, <2>2
    <2>5. Looking(entries', entries', files', dir', Doubtful') /\ files' \in Seq(FileType)
      BY <2>1, <2>2, <2>3
    <2>6. ~Listed'
      BY <2>1 DEF Listed
    <2>. QED  BY <2>1, <2>2, <2>3, <2>4, <2>5, <2>6 DEF ListInv
  <1>3. ASSUME ScanDirFails PROVE ListInv'
    <2>1. /\ pc' = "done" /\ head'.status = 500 /\ dir' = dir /\ Doubtful' = Doubtful
      BY <1>3 DEF ScanDirFails, Doubtful
    <2>2. DirInv(dir', Doubtful') /\ ~Listed'
      BY <2>1 DEF ListInv, Listed
    <2>. QED  BY <2>1, <2>2 DEF ListInv
  <1>4. ASSUME Look PROVE ListInv'
    <2> DEFINE n == Head(entries)
    <2>1. /\ pc = "look" /\ entries' = Tail(entries) /\ UNCHANGED <<dir, head, changed>>
      BY <1>4 DEF Look
    <2>2. /\ DirInv(dir, Doubtful) /\ entries # <<>> /\ entries \in Seq(Names)
          /\ files \in Seq(FileType) /\ head = NoHead
      BY <2>1 DEF ListInv
    <2>3. PICK N \in Seq(Names) : Looking(N, entries, files, dir, Doubtful)
      BY <2>1 DEF ListInv
    <2>4. PICK f \in read_file_info(n, dir[n]) :
             /\ unseen' = unseen \union ({n} \intersect FailedOn(f))
             /\ IF entries' # <<>>
                THEN files' = Append(files, f) /\ UNCHANGED <<calls, pc>>
                ELSE files' = sort_file_list(Append(files, f)) /\ pc' = "write"
      BY <1>4 DEF Look
    <2>9. n \in Names /\ n = N[Len(files) + 1] /\ Len(entries) \in Nat
          /\ (dir[n] # Gone \/ n \in Doubtful)
      <3>1. Len(entries) \in Nat /\ Len(entries) >= 1 /\ n = entries[1] /\ n \in Names
        BY <2>2, EmptySeq
      <3>2. n = N[Len(files) + 1]
        BY <2>3, <3>1 DEF Looking
      <3>3. Len(files) + 1 \in 1 .. Len(N)
        BY <2>2, <2>3, <3>1 DEF Looking
      <3>. QED  BY <2>3, <3>1, <3>2, <3>3 DEF Looking, Scanned
    <2>10. /\ f = NULL_FILE => n \in Doubtful'
           /\ \/ Doubtful' = Doubtful
              \/ Doubtful' = Doubtful \union {n} /\ n \in Present
      <3>1. CASE f = NULL_FILE /\ n \in Present
        BY <2>1, <2>4, <3>1 DEF FailedOn, Doubtful
      <3>2. CASE ~(f = NULL_FILE /\ n \in Present)
        <4>1. unseen' = unseen
          BY <2>4, <3>2 DEF FailedOn
        <4>2. Doubtful' = Doubtful
          BY <2>1, <4>1 DEF Doubtful
        <4>. QED  BY <2>9, <3>2, <4>2 DEF Present
      <3>. QED  BY <3>1, <3>2
    <2>11. DirInv(dir', Doubtful') /\ Looking(N, entries, files, dir, Doubtful')
      <3>1. CASE Doubtful' = Doubtful
        BY <2>1, <2>2, <2>3, <3>1
      <3>2. CASE Doubtful' = Doubtful \union {n} /\ n \in Present
        <4>1. n # NullName /\ IsFiniteSet(Doubtful')
          BY <2>2, <3>2, FS_AddElement DEF DirInv, Present
        <4>2. DirInv(dir', Doubtful')
          BY <2>1, <2>2, <2>9, <3>2, <4>1 DEF DirInv
        <4>3. dir = [dir EXCEPT ![n] = dir[n]]
          BY <2>2 DEF DirInv
        <4>4. Looking(N, entries, files, dir, Doubtful \union {n})
          <5> HIDE DEF n
          <5>. QED  BY <2>2, <2>3, <2>9, <4>3, ChangeKeepsLooking
        <4>. QED  BY <3>2, <4>2, <4>4
      <3>. QED  BY <2>10, <3>1, <3>2
    <2>5. /\ Append(files, f) \in Seq(FileType) /\ entries' \in Seq(Names)
          /\ Looking(N, entries', Append(files, f), dir, Doubtful')
      <3>1. DirInv(dir, Doubtful')
        BY <2>1, <2>11
      <3>. QED  BY <2>1, <2>2, <2>4, <2>10, <2>11, <3>1, LookKeepsLooking
    <2>7. CASE entries' # <<>>
      <3>1. files' = Append(files, f) /\ pc' = "look"
        BY <2>1, <2>4, <2>7
      <3>2. Looking(N, entries', files', dir', Doubtful') /\ head' = NoHead
        BY <2>1, <2>2, <2>5, <3>1
      <3>3. ~Listed'
        BY <3>1 DEF Listed
      <3>. QED  BY <2>5, <2>11, <2>7, <3>1, <3>2, <3>3 DEF ListInv
    <2>8. CASE entries' = <<>>
      <3>1. files' = sort_file_list(Append(files, f)) /\ pc' = "write"
        BY <2>4, <2>8
      <3>2. Looked(files', dir, Doubtful')
        BY <2>5, <2>8, <3>1, SortLooked
      <3>3. Looked(files', dir', Doubtful') /\ head' = NoHead
        BY <2>1, <2>2, <3>2
      <3>. QED  BY <2>11, <3>1, <3>3 DEF ListInv
    <2>. QED  BY <2>7, <2>8
  <1>5. ASSUME Write PROVE ListInv'
    <2>1. /\ pc = "write" /\ UNCHANGED <<dir, entries, files, head, pc>>
          /\ Doubtful' = Doubtful
      BY <1>5 DEF Write, Doubtful
    <2>. QED  BY <2>1 DEF ListInv, Listed
  <1>6. ASSUME WriteHead PROVE ListInv'
    <2>1. /\ pc = "write" /\ pc' = "done" /\ UNCHANGED <<dir, entries, files>>
          /\ head'.status = 200 /\ head.status = 0 /\ Doubtful' = Doubtful
      BY <1>6 DEF WriteHead, ListInv, NoHead, Doubtful
    <2>2. DirInv(dir', Doubtful')
      BY <2>1 DEF ListInv
    <2>3. head.status # 500 => Looked(files', dir', Doubtful')
      BY <2>1 DEF ListInv, Listed
    <2>. QED  BY <2>1, <2>2, <2>3 DEF ListInv, Listed
  <1>7. CASE UNCHANGED listVars
    <2>1. Doubtful' = Doubtful /\ UNCHANGED <<dir, entries, files, head, pc>>
      BY <1>7 DEF listVars, Doubtful
    <2>. QED  BY <2>1 DEF ListInv, Listed
  <1>. QED  BY <1>1, <1>2, <1>3, <1>4, <1>5, <1>6, <1>7 DEF ListNext, ListDone

LEMMA ListInvAlways == ListSpec => []ListInv
  BY ListInvInit, ListInvStep, PTL DEF ListSpec

(* The listing of a directory of any size is in the order that             *)
(* compare_files (dir.c:228) is meant to make, from one end to the other.  *)
THEOREM ListingInOrder == ListSpec => []InOrder
  <1>1. ListInv => InOrder
    <2> SUFFICES ASSUME ListInv, Listed
                 PROVE  \A i, j \in DOMAIN files :
                          i < j => NotAfter(Rank(files[i]), Rank(files[j]))
      BY DEF InOrder
    <2>1. PICK seen \in Seq(FileType) : Reorders(files, seen) /\ SortedTo(files, Len(files))
      BY DEF ListInv, Looked
    <2>2. files \in Seq(FileType) /\ SortedTo(files, Len(files))
      BY <2>1 DEF Reorders
    <2>. QED  BY <2>2 DEF SortedTo, Before
  <1>. QED  BY <1>1, ListInvAlways, PTL

(* What was looked at is listed, in another order: each file of the        *)
(* listing stands for a name of its own.                                   *)
LEMMA LookedByName ==
    ASSUME NEW d, NEW others, NEW list, Looked(list, d, others)
    PROVE  \E N \in Seq(Names), p \in [DOMAIN list -> DOMAIN list] :
              /\ Scanned(N, d, others)
              /\ DOMAIN list = DOMAIN N
              /\ \A i, j \in DOMAIN list : p[i] = p[j] => i = j
              /\ \A k \in DOMAIN N : \E i \in DOMAIN list : p[i] = k
              /\ \A i \in DOMAIN list : AsSeen(list[i], N[p[i]], d, others)
  <1>1. PICK N \in Seq(Names), seen \in Seq(FileType) :
           Looking(N, <<>>, seen, d, others) /\ Reorders(list, seen)
    BY DEF Looked
  <1> DEFINE n == Len(seen)
  <1>2. n \in Nat /\ DOMAIN list = 1 .. n /\ DOMAIN N = 1 .. n
    BY <1>1 DEF Looking, Reorders
  <1>3. PICK p \in [1 .. n -> 1 .. n] :
           /\ \A a, b \in 1 .. n : p[a] = p[b] => a = b
           /\ \A k \in 1 .. n : list[k] = seen[p[k]]
    BY <1>1 DEF Reorders
  <1>4. Scanned(N, d, others) /\ \A i \in 1 .. n : AsSeen(seen[i], N[i], d, others)
    BY <1>1 DEF Looking
  <1> HIDE DEF n
  <1>5. p \in Surjection(1 .. n, 1 .. n)
    <2>1. p \in Injection(1 .. n, 1 .. n)
      BY <1>3 DEF Injection, IsInjective
    <2>. QED  BY <1>2, <2>1, FS_Interval, FS_Injection
  <1>6. \A k \in 1 .. n : \E i \in 1 .. n : p[i] = k
    BY <1>5 DEF Surjection
  <1>7. \A i \in 1 .. n : AsSeen(list[i], N[p[i]], d, others)
    BY <1>3, <1>4
  <1>8. /\ p \in [DOMAIN list -> DOMAIN list]
        /\ \A i, j \in DOMAIN list : p[i] = p[j] => i = j
        /\ \A k \in DOMAIN N : \E i \in DOMAIN list : p[i] = k
        /\ \A i \in DOMAIN list : AsSeen(list[i], N[p[i]], d, others)
    BY <1>2, <1>3, <1>6, <1>7
  <1>9. DOMAIN list = DOMAIN N
    BY <1>2
  <1>. QED  BY Zenon, <1>4, <1>8, <1>9

(* Whatever other processes do to a directory of any size while it is      *)
(* read (dir.c:401, dir.c:432), each file that they leave alone is listed  *)
(* once, as what it is, unless lstat() fails on it (dir.c:338); there are  *)
(* no more nameless files than names that were changed or failed on; and   *)
(* nothing is listed that was never there.                                 *)
THEOREM EachFileListedOnce == ListSpec => []ListedOnce
  <1>1. ListInv => ListedOnce
    <2> SUFFICES ASSUME ListInv, Listed
                 PROVE  /\ \A n \in Present \ Doubtful : \E i \in DOMAIN files :
                             /\ Occurrences(n) = {i}
                             /\ files[i].is_link = dir[n].is_link
                             /\ ~dir[n].is_link => files[i].is_dir = (dir[n].to = "dir")
                        /\ Cardinality(Occurrences(NullName)) <= Cardinality(Doubtful)
                        /\ \A i \in DOMAIN files :
                             files[i].name \in Present \union Doubtful \union {NullName}
      BY Zenon DEF ListedOnce
    <2>1. DirInv(dir, Doubtful) /\ Looked(files, dir, Doubtful)
      BY DEF ListInv
    <2>2. PICK N \in Seq(Names), p \in [DOMAIN files -> DOMAIN files] :
              /\ Scanned(N, dir, Doubtful)
              /\ DOMAIN files = DOMAIN N
              /\ \A i, j \in DOMAIN files : p[i] = p[j] => i = j
              /\ \A k \in DOMAIN N : \E i \in DOMAIN files : p[i] = k
              /\ \A i \in DOMAIN files : AsSeen(files[i], N[p[i]], dir, Doubtful)
      BY <2>1, LookedByName
    <2>3. /\ \A i \in DOMAIN N : N[i] \in Names /\ (dir[N[i]] # Gone \/ N[i] \in Doubtful)
          /\ \A i, j \in DOMAIN N : N[i] = N[j] => i = j
          /\ \A n \in Present \ Doubtful : \E i \in DOMAIN N : N[i] = n
      <3>1. DOMAIN N = 1 .. Len(N) /\ \A i \in 1 .. Len(N) : N[i] \in Names
        OBVIOUS
      <3>2. \A n \in Present \ Doubtful : n \in Names /\ dir[n] # Gone /\ n \notin Doubtful
        BY DEF Present
      <3>. QED  BY Zenon, <2>2, <3>1, <3>2 DEF Scanned
    <2>4. dir[NullName] = Gone /\ NullName \notin Doubtful /\ IsFiniteSet(Doubtful)
      BY <2>1 DEF DirInv
    <2>5. ASSUME NEW n \in Present \ Doubtful
          PROVE  \E i \in DOMAIN files :
                    /\ Occurrences(n) = {i}
                    /\ files[i].is_link = dir[n].is_link
                    /\ ~dir[n].is_link => files[i].is_dir = (dir[n].to = "dir")
      <3>1. PICK k \in DOMAIN N : N[k] = n
        BY <2>3
      <3>2. PICK i \in DOMAIN files : p[i] = k
        BY <2>2
      <3>3. n # NullName /\ n \notin Doubtful
        BY <2>4 DEF Present
      <3>4. /\ files[i].name = n /\ files[i].is_link = dir[n].is_link
            /\ ~dir[n].is_link => files[i].is_dir = (dir[n].to = "dir")
        <4>1. AsSeen(files[i], n, dir, Doubtful)
          BY <2>2, <3>1, <3>2
        <4>. QED  BY <3>3, <4>1 DEF AsSeen
      <3>5. ASSUME NEW j \in DOMAIN files, files[j].name = n
            PROVE  j = i
        <4>1. N[p[j]] = n /\ p[j] \in DOMAIN N
          BY <2>2, <3>3, <3>5 DEF AsSeen
        <4>2. p[j] = k
          BY <2>3, <3>1, <4>1
        <4>. QED  BY <2>2, <3>2, <4>2
      <3>6. Occurrences(n) = {i}
        BY <3>4, <3>5 DEF Occurrences
      <3>. QED  BY <3>4, <3>6
    <2>6. Cardinality(Occurrences(NullName)) <= Cardinality(Doubtful)
      <3> DEFINE S == Occurrences(NullName)
                 f == [i \in S |-> N[p[i]]]
      <3>1. ASSUME NEW i \in S
            PROVE  i \in DOMAIN files /\ p[i] \in DOMAIN N /\ N[p[i]] \in Doubtful
        <4>1. i \in DOMAIN files /\ files[i].name = NullName
          BY DEF Occurrences
        <4>2. p[i] \in DOMAIN N /\ AsSeen(files[i], N[p[i]], dir, Doubtful)
          BY <2>2, <4>1
        <4>3. N[p[i]] # NullName \/ N[p[i]] \in Doubtful
          BY <2>3, <2>4, <4>2
        <4>. QED  BY <4>1, <4>2, <4>3 DEF AsSeen
      <3> HIDE DEF S
      <3>2. \A i, j \in S : f[i] = f[j] => i = j
        BY <2>2, <2>3, <3>1
      <3>3. f \in [S -> Doubtful]
        BY <3>1
      <3> HIDE DEF f
      <3>4. f \in Injection(S, Doubtful)
        BY <3>2, <3>3 DEF Injection, IsInjective
      <3>. QED  BY <2>4, <3>4, FS_Injection DEF S
    <2>7. ASSUME NEW i \in DOMAIN files
          PROVE  files[i].name \in Present \union Doubtful \union {NullName}
      <3>1. AsSeen(files[i], N[p[i]], dir, Doubtful) /\ p[i] \in DOMAIN N
        BY <2>2
      <3>2. N[p[i]] \in Present \union Doubtful
        BY <2>3, <3>1 DEF Present
      <3>. QED  BY <3>1, <3>2 DEF AsSeen
    <2>. QED  BY <2>5, <2>6, <2>7
  <1>. QED  BY <1>1, ListInvAlways, PTL

-----------------------------------------------------------------------------
-----------------------------------------------------------------------------
(* What is written to a page: an item, or for the largest files whatever   *)
(* malloc() left there.                                                    *)
Written == Byte \union {Junk}
CallType == {call \in [op : {"push", "append", "sprintf"}, text : Seq(Written)] :
               call.op = "push" => Len(call.text) = 1}

LEMMA CallsAreTyped ==
    /\ \A item \in Written : Push(item) \in CallType /\ Add(item) \in CallType
    /\ \A text \in Seq(Written) : Format(text) \in CallType
  BY DEF Push, Add, Format, CallType

LEMMA RowIsTyped ==
    ASSUME NEW f \in FileType
    PROVE  Row(f) \in Seq(CallType)
  <1>1. f.name \in Written /\ f.size \in {"", "K", "M", "G", "T"}
    BY ListingAssumption DEF FileType, Written, Items
  <1>2. {"<a", "</tr>", "/", "quote", "red", ">", "/ ->", " ->", ""} \subseteq Written
    BY ListingAssumption DEF Written, Items
  <1>3. get_file_type_suffix(f) \in Written
    BY <1>2 DEF get_file_type_suffix
  <1>4. get_human_file_size(f.size) \in Written
    BY <1>1, ListingAssumption DEF get_human_file_size, Written, Items
  <1>5. ASSUME NEW b, NEW call \in CallType
        PROVE  When(b, call) \in Seq(CallType)
    BY DEF When
  <1>6. /\ Add("<a") \in CallType /\ Push(f.name) \in CallType
        /\ Push("/") \in CallType /\ Push("quote") \in CallType
        /\ Add("red") \in CallType /\ Push(">") \in CallType /\ Add(f.name) \in CallType
        /\ Add(get_file_type_suffix(f)) \in CallType
        /\ Add(get_human_file_size(f.size)) \in CallType /\ Add("</tr>") \in CallType
    BY <1>1, <1>2, <1>3, <1>4, CallsAreTyped
  <1>7. /\ <<Add("<a"), Push(f.name)>> \in Seq(CallType)
        /\ <<Push("quote")>> \in Seq(CallType)
        /\ <<Push(">"), Add(f.name)>> \in Seq(CallType)
        /\ <<Add("</tr>")>> \in Seq(CallType)
    BY <1>6
  <1>8. /\ When(f.is_dir, Push("/")) \in Seq(CallType)
        /\ When(f.is_link /\ f.is_broken_link, Add("red")) \in Seq(CallType)
        /\ When(get_file_type_suffix(f) # "", Add(get_file_type_suffix(f))) \in Seq(CallType)
        /\ When(~f.is_dir, Add(get_human_file_size(f.size))) \in Seq(CallType)
    BY <1>5, <1>6
  <1>9. ASSUME NEW s \in Seq(CallType), NEW t \in Seq(CallType)
        PROVE  s \o t \in Seq(CallType)
    BY ConcatProperties
  <1>. QED  BY <1>7, <1>8, <1>9 DEF Row

LEMMA PageIsTyped ==
    ASSUME NEW list \in Seq(FileType)
    PROVE  /\ file_list_to_html(list) \in Seq(CallType)
           /\ Len(file_list_to_html(list)) # 0
  <1> DEFINE rows == [i \in DOMAIN list |-> Row(list[i])]
             first == <<Add("<html>"), Format(<<"<h1>", "endpoint">>)>>
             last == <<Add("</html>")>>
  <1>1. {"<html>", "</html>", "<h1>", "endpoint"} \subseteq Written
    BY ListingAssumption DEF Written, Items
  <1>2. rows \in Seq(Seq(CallType))
    <2>1. \A i \in 1 .. Len(list) : Row(list[i]) \in Seq(CallType)
      BY RowIsTyped
    <2>. QED  BY <2>1
  <1>3. FlattenSeq(rows) \in Seq(CallType)
    <2> HIDE DEF rows
    <2>. QED  BY <1>2, FlattensOneByOne
  <1>4. first \in Seq(CallType) /\ Len(first) = 2 /\ last \in Seq(CallType)
    <2>1. <<"<h1>", "endpoint">> \in Seq(Written)
      BY <1>1
    <2>2. /\ Add("<html>") \in CallType /\ Format(<<"<h1>", "endpoint">>) \in CallType
          /\ Add("</html>") \in CallType
      BY <1>1, <2>1, CallsAreTyped
    <2>. QED  BY <2>2
  <1>5. file_list_to_html(list) = first \o FlattenSeq(rows) \o last
    BY DEF file_list_to_html
  <1> HIDE DEF first, rows, last
  <1>6. first \o FlattenSeq(rows) \in Seq(CallType) /\ Len(first \o FlattenSeq(rows)) >= 2
    <2> DEFINE mid == FlattenSeq(rows)
    <2>1. mid \in Seq(CallType) /\ Len(mid) >= 0
      BY <1>3
    <2> HIDE DEF mid
    <2>2. first \o mid \in Seq(CallType) /\ Len(first \o mid) = Len(first) + Len(mid)
      BY <1>4, <2>1, ConcatProperties
    <2>3. Len(mid) \in Nat
      BY <2>1
    <2>. QED  BY <1>4, <2>2, <2>3 DEF mid
  <1>7. /\ (first \o FlattenSeq(rows)) \o last \in Seq(CallType)
        /\ Len((first \o FlattenSeq(rows)) \o last) >= 2
    BY <1>4, <1>6, ConcatProperties
  <1>. QED  BY <1>5, <1>7

-----------------------------------------------------------------------------
TextsOf(page) == [i \in DOMAIN page |-> page[i].text]

(* The first k calls have been made. *)
Made(page, k, contents) ==
    contents = IF k = 0 THEN <<>> ELSE Flat(TextsOf(page))[k]

Writing(page, rest, contents) ==
    /\ rest \in Seq(CallType)
    /\ \E k \in 0 .. Len(page) :
          /\ Len(page) = k + Len(rest)
          /\ \A i \in 1 .. Len(rest) : rest[i] = page[k + i]
          /\ Made(page, k, contents)

PageInv ==
    /\ TypeOK
    /\ pc \in {"scan", "look"} => n_items = 0
    /\ pc = "write" => Writing(file_list_to_html(files), calls, Contents)
    /\ PageIsWhole

LEMMA TextsAreTyped ==
    ASSUME NEW page \in Seq(CallType), Len(page) # 0
    PROVE  /\ TextsOf(page) \in Seq(Seq(Written))
           /\ Len(TextsOf(page)) = Len(page)
           /\ \A i \in 1 .. Len(page) : TextsOf(page)[i] = page[i].text
  <1>1. \A i \in 1 .. Len(page) : page[i].text \in Seq(Written)
    BY DEF CallType
  <1>. QED  BY <1>1 DEF TextsOf

(* One more call is made. *)
LEMMA CallIsMade ==
    ASSUME NEW page \in Seq(CallType), Len(page) # 0,
           NEW rest, rest # <<>>, NEW contents, NEW more,
           Writing(page, rest, contents),
           more = contents \o Head(rest).text
    PROVE  Writing(page, Tail(rest), more)
  <1> DEFINE n == Len(page)
             t == TextsOf(page)
  <1>1. /\ t \in Seq(Seq(Written)) /\ Len(t) = n /\ n \in Nat /\ n # 0
        /\ \A i \in 1 .. n : t[i] = page[i].text
    BY TextsAreTyped
  <1>2. rest \in Seq(CallType)
    BY DEF Writing
  <1>3. PICK k \in 0 .. n : /\ n = k + Len(rest)
                            /\ \A i \in 1 .. Len(rest) : rest[i] = page[k + i]
                            /\ Made(page, k, contents)
    BY DEF Writing
  <1>4. /\ Tail(rest) \in Seq(CallType) /\ Len(Tail(rest)) = Len(rest) - 1
        /\ Len(rest) \in Nat /\ Len(rest) >= 1
        /\ \A i \in 1 .. Len(Tail(rest)) : Tail(rest)[i] = rest[i + 1]
        /\ Head(rest) = rest[1]
    BY <1>2, HeadTailProperties, EmptySeq
  <1> HIDE DEF n, t
  <1>5. /\ Flat(t)[1] = t[1]
        /\ \A i \in 2 .. n : Flat(t)[i] = Flat(t)[i - 1] \o t[i]
        /\ \A i \in 1 .. n : Flat(t)[i] \in Seq(Written)
    BY <1>1, FlattensOneByOne
  <1>6. k + 1 \in 1 .. n /\ k + 1 \in 0 .. n /\ n = (k + 1) + Len(Tail(rest)) /\ k + 1 # 0
    BY <1>1, <1>3, <1>4
  <1>7. Head(rest).text = t[k + 1]
    <2>1. rest[1] = page[k + 1]
      BY <1>3, <1>4
    <2>. QED  BY <1>1, <1>4, <1>6, <2>1
  <1>8. more = Flat(t)[k + 1]
    <2>1. CASE k = 0
      <3>1. contents = <<>>
        BY <1>3, <2>1 DEF Made
      <3>2. t[1] \in Seq(Written)
        BY <1>1
      <3>3. more = t[1]
        BY <1>7, <2>1, <3>1, <3>2, ConcatEmptySeq
      <3>. QED  BY <1>5, <2>1, <3>3
    <2>2. CASE k # 0
      <3>1. contents = Flat(t)[k]
        BY <1>3, <2>2 DEF Made, t
      <3>2. k + 1 \in 2 .. n /\ (k + 1) - 1 = k
        BY <1>3, <1>6, <2>2
      <3>3. Flat(t)[k + 1] = Flat(t)[(k + 1) - 1] \o t[k + 1]
        BY <1>5, <3>2
      <3>. QED  BY Zenon, <1>7, <3>1, <3>2, <3>3
    <2>. QED  BY <2>1, <2>2
  <1>9. Made(page, k + 1, more)
    BY <1>6, <1>8 DEF Made, t
  <1>10. \A i \in 1 .. Len(Tail(rest)) : Tail(rest)[i] = page[(k + 1) + i]
    <2> SUFFICES ASSUME NEW i \in 1 .. Len(Tail(rest))
                 PROVE  Tail(rest)[i] = page[(k + 1) + i]
      OBVIOUS
    <2>1. i + 1 \in 1 .. Len(rest) /\ k + (i + 1) = (k + 1) + i
      BY <1>3, <1>4
    <2>2. rest[i + 1] = page[k + (i + 1)]
      BY <1>3, <2>1
    <2>. QED  BY <1>4, <2>1, <2>2
  <1>. QED  BY <1>4, <1>6, <1>9, <1>10 DEF Writing, n

(* Before the first call of a page nothing is written, after the last one  *)
(* the page is.                                                            *)
LEMMA PageBegins ==
    ASSUME NEW page \in Seq(CallType)
    PROVE  Writing(page, page, <<>>)
  <1>1. Len(page) \in Nat /\ \A i \in 1 .. Len(page) : page[i] = page[0 + i]
    OBVIOUS
  <1>2. Made(page, 0, <<>>)
    BY DEF Made
  <1>. QED  BY <1>1, <1>2 DEF Writing

LEMMA PageEnds ==
    ASSUME NEW page \in Seq(CallType), Len(page) # 0, NEW contents,
           Writing(page, <<>>, contents)
    PROVE  contents = FlattenSeq(TextsOf(page))
  <1>1. PICK k \in 0 .. Len(page) : Len(page) = k + Len(<<>>) /\ Made(page, k, contents)
    BY DEF Writing
  <1>2. k = Len(page) /\ k # 0
    BY <1>1
  <1>3. contents = Flat(TextsOf(page))[Len(page)]
    BY <1>1, <1>2 DEF Made
  <1>4. FlattenSeq(TextsOf(page)) = Flat(TextsOf(page))[Len(page)]
    BY TextsAreTyped, FlattensOneByOne
  <1>. QED  BY <1>3, <1>4

(* Each kind of call appends its text. *)
LEMMA WriteAppends ==
    ASSUME TypeOK, calls \in Seq(CallType), Write
    PROVE  TypeOK' /\ Contents' = Contents \o Head(calls).text
  <1> DEFINE call == Head(calls)
             text == call.text
             len == Len(text)
             Bytes == Byte \union {Null, Junk}
  <1> SUFFICES TypeOK' /\ Contents' = Contents \o text
    OBVIOUS
  <1>1. call \in CallType
    BY HeadTailProperties DEF Write
  <1>2. text \in Seq(Written) /\ len \in Nat /\ (call.op = "push" => len = 1)
    BY <1>1 DEF CallType
  <1>3. text \in Seq(Bytes) /\ SubSeq(text, 1, len) = text
    <2>1. \A i \in 1 .. len : text[i] \in Bytes
      BY <1>2 DEF Written
    <2>2. text \in Seq(Bytes)
      BY <1>2, <2>1
    <2> HIDE DEF text, Bytes
    <2>. QED  BY <2>2, SubSeqFull
  <1>4. \/ call.op = "push" /\ buf_push(text[1])
        \/ call.op = "append" /\ buf_append(text)
        \/ call.op = "sprintf" /\ buf_sprintf(text)
    BY DEF Write
  <1> HIDE DEF call, text, len
  <1>5. ASSUME NEW src \in Seq(Bytes), NEW room \in Nat, Len(src) <= room, len <= Len(src),
               SubSeq(src, 1, len) = text, Put(src, room, len)
        PROVE  TypeOK' /\ Contents' = Contents \o text
    BY <1>2, <1>5, PutAppends
  <1>6. CASE call.op = "push" /\ buf_push(text[1])
    <2>1. <<text[1]>> = text /\ len = 1
      BY <1>2, <1>6 DEF len
    <2>2. Put(text, 1, len)
      BY <1>6, <2>1 DEF buf_push
    <2>3. 1 \in Nat /\ Len(text) <= 1 /\ len <= Len(text)
      BY <2>1 DEF len
    <2> HIDE DEF Bytes
    <2>. QED  BY <1>3, <1>5, <2>2, <2>3
  <1>7. CASE buf_append(text)
    <2>1. Put(text, len, len) /\ Len(text) = len
      BY <1>7 DEF buf_append, len
    <2>2. len \in Nat /\ Len(text) <= len /\ len <= Len(text)
      BY <1>2, <2>1
    <2> HIDE DEF Bytes
    <2>. QED  BY <1>3, <1>5, <2>1, <2>2
  <1>8. CASE buf_sprintf(text)
    <2> DEFINE src == Append(text, Null)
    <2>1. src \in Seq(Bytes) /\ Len(src) = len + 1 /\ SubSeq(src, 1, len) = text
      <3>1. src \in Seq(Bytes) /\ Len(src) = len + 1 /\ \A i \in 1 .. len : src[i] = text[i]
        BY <1>2, <1>3, AppendProperties DEF len
      <3> HIDE DEF src
      <3>2. /\ SubSeq(src, 1, len) \in Seq(Bytes) /\ Len(SubSeq(src, 1, len)) = len
            /\ \A i \in 1 .. len : SubSeq(src, 1, len)[i] = src[i]
        BY <1>2, <3>1
      <3>3. SubSeq(src, 1, len) = text
        <4> DEFINE u == SubSeq(src, 1, len)
        <4>1. u \in Seq(Bytes) /\ Len(u) = Len(text) /\ \A i \in 1 .. Len(u) : u[i] = text[i]
          BY <3>1, <3>2 DEF len
        <4> HIDE DEF u
        <4>2. u = text
          BY <1>3, <4>1, SeqEqual
        <4>. QED  BY <4>2 DEF u
      <3>. QED  BY <3>1, <3>3
    <2>2. Put(src, len + 1, len)
      BY <1>8 DEF buf_sprintf, len
    <2> HIDE DEF src
    <2>3. len + 1 \in Nat /\ Len(src) <= len + 1 /\ len <= Len(src)
      BY <1>2, <2>1
    <2>. QED  BY <1>5, <2>1, <2>2, <2>3
  <1>. QED  BY <1>4, <1>6, <1>7, <1>8

LEMMA PageInvInit == ListInit => PageInv
  <1> SUFFICES ASSUME ListInit PROVE PageInv
    OBVIOUS
  <1>1. Init /\ pc = "scan"
    BY DEF ListInit
  <1>2. TypeOK
    BY <1>1, BufferInvInit DEF BufferInv
  <1>. QED  BY <1>1, <1>2 DEF PageInv, PageIsWhole, Init

LEMMA PageInvStep == ListInv /\ PageInv /\ ListInv' /\ [ListNext]_listVars => PageInv'
  <1> SUFFICES ASSUME ListInv, PageInv, ListInv', [ListNext]_listVars
               PROVE  PageInv'
    OBVIOUS
  <1> USE DEF PageIsWhole
  <1>1. TypeOK /\ n_items \in Nat
    BY DEF PageInv, TypeOK
  <1>2. ASSUME UNCHANGED vars
        PROVE  TypeOK' /\ n_items' = n_items /\ Contents' = Contents
    BY <1>1, <1>2 DEF vars, TypeOK, Contents
  <1>3. ASSUME NEW n \in Names \ {Dot, DotDot, NullName},
               NEW inode \in Inodes \union {Gone}, Change(n, inode)
        PROVE  PageInv'
    <2>1. pc = "look" /\ UNCHANGED <<vars, entries, pc>>
      BY <1>3 DEF Change
    <2>. QED  BY <1>2, <2>1 DEF PageInv
  <1>4. ASSUME ScanDir PROVE PageInv'
    <2>1. pc = "scan" /\ pc' = "look" /\ UNCHANGED vars
      BY <1>4 DEF ScanDir
    <2>. QED  BY <1>2, <2>1 DEF PageInv, ListInv
  <1>5. ASSUME ScanDirFails PROVE PageInv'
    <2>1. /\ pc = "scan" /\ pc' = "done" /\ head' = [status |-> 500, length |-> 0]
          /\ UNCHANGED vars
      BY <1>5 DEF ScanDirFails
    <2>. QED  BY <1>2, <2>1 DEF PageInv
  <1>6. ASSUME Look PROVE PageInv'
    <2>1. /\ pc = "look" /\ UNCHANGED vars /\ n_items = 0
          /\ \/ pc' = "look"
             \/ pc' = "write" /\ calls' = file_list_to_html(files')
      BY <1>6 DEF Look, PageInv
    <2>2. CASE pc' = "look"
      BY <1>2, <2>1, <2>2 DEF PageInv, ListInv
    <2>3. CASE pc' = "write" /\ calls' = file_list_to_html(files')
      <3>1. Listed'
        BY <2>1, <2>3, <1>6 DEF Listed, Look, ListInv, NoHead
      <3>2. files' \in Seq(FileType)
        BY <3>1 DEF ListInv, Looked, Reorders
      <3>3. Contents' = <<>>
        BY <1>2, <2>1 DEF Contents
      <3>4. Writing(file_list_to_html(files'), calls', Contents')
        BY <2>3, <3>2, <3>3, PageIsTyped, PageBegins
      <3>. QED  BY <1>2, <2>1, <2>3, <3>4 DEF PageInv
    <2>. QED  BY <2>1, <2>2, <2>3
  <1>7. ASSUME Write PROVE PageInv'
    <2>1. /\ pc = "write" /\ calls # <<>> /\ calls' = Tail(calls) /\ UNCHANGED <<files, pc>>
      BY <1>7 DEF Write
    <2>2. Listed /\ Writing(file_list_to_html(files), calls, Contents)
      BY <2>1 DEF PageInv, Listed, ListInv, NoHead
    <2>3. files \in Seq(FileType) /\ calls \in Seq(CallType)
      BY <2>2 DEF ListInv, Looked, Reorders, Writing
    <2>4. TypeOK' /\ Contents' = Contents \o Head(calls).text
      BY <1>1, <1>7, <2>3, WriteAppends
    <2>5. Writing(file_list_to_html(files), Tail(calls), Contents')
      BY <2>1, <2>2, <2>3, <2>4, PageIsTyped, CallIsMade
    <2>6. Writing(file_list_to_html(files)', calls', Contents')
      BY <2>1, <2>5
    <2>. QED  BY <2>1, <2>4, <2>6 DEF PageInv
  <1>8. ASSUME WriteHead PROVE PageInv'
    <2>1. /\ pc = "write" /\ calls = <<>> /\ pc' = "done" /\ UNCHANGED <<vars, files>>
          /\ head' = [status |-> 200, length |-> n_items]
      BY <1>8 DEF WriteHead
    <2>2. Listed /\ Writing(file_list_to_html(files), <<>>, Contents)
      BY <2>1 DEF PageInv, Listed, ListInv, NoHead
    <2>3. files \in Seq(FileType)
      BY <2>2 DEF ListInv, Looked, Reorders
    <2>4. Contents = FlattenSeq(TextsOf(file_list_to_html(files)))
      BY <2>2, <2>3, PageIsTyped, PageEnds
    <2>5. Contents' = FlattenSeq(TextsOf(file_list_to_html(files')))
      BY <1>2, <2>1, <2>4
    <2>. QED  BY <1>2, <2>1, <2>5 DEF PageInv, TextsOf
  <1>9. CASE UNCHANGED listVars
    BY <1>2, <1>9 DEF listVars, PageInv
  <1>. QED  BY <1>3, <1>4, <1>5, <1>6, <1>7, <1>8, <1>9 DEF ListNext, ListDone

(* The page of a directory of any size is in the buffer whole and in order *)
(* when the head announces its length, however often the buffer grew and   *)
(* wherever (http.c:429, buffer.c:52).                                     *)
THEOREM PageAsAnnounced == ListSpec => []PageIsWhole
  <1>1. ListInv /\ PageInv /\ [ListNext]_listVars => ListInv' /\ PageInv'
    BY ListInvStep, PageInvStep
  <1>2. ListInit => ListInv /\ PageInv
    BY ListInvInit, PageInvInit
  <1>3. PageInv => PageIsWhole
    BY DEF PageInv
  <1>. QED  BY <1>1, <1>2, <1>3, PTL DEF ListSpec

(* No page is written past the end of the allocation. *)
THEOREM PageInAllocation == ListSpec => []TypeOK
  <1>1. ListInv /\ PageInv /\ [ListNext]_listVars => ListInv' /\ PageInv'
    BY ListInvStep, PageInvStep
  <1>2. ListInit => ListInv /\ PageInv
    BY ListInvInit, PageInvInit
  <1>3. PageInv => TypeOK
    BY DEF PageInv
  <1>. QED  BY <1>1, <1>2, <1>3, PTL DEF ListSpec

-----------------------------------------------------------------------------
(* A call that returns, other than by Completes, has closed its handle. *)
HandleInv == handles = IF status \in {"loop", "W_COMPLETE_WRITE"} THEN 1 ELSE 0

(* Each call that sends nothing costs one try, and is a stall, as each of  *)
(* the head's was; the one that sent something before it was stopped costs *)
(* a try, too, but is none.  In the loop, that this call may be a stall is *)
(* counted already.                                                        *)
TriesInv == /\ write_tries_left \in 0 .. MaxTries
            /\ stalls \in 0 .. MaxTries
            /\ status = "call" => stalls + write_tries_left >= MaxTries - 1
            /\ status = "loop" => stalls + write_tries_left >= MaxTries
            /\ StallsBeforeDrop

(* In the loop the handle's position is where the transfer has got to, so  *)
(* that the next piece follows the last one; fread() is asked for nothing  *)
(* only by a call that starts at the last byte of the range.               *)
BytesInv == /\ range_start \in Nat /\ range_end \in Int
            /\ file_offset \in Nat /\ range_start <= file_offset
            /\ wire = Piece(range_start, file_offset - range_start)
            /\ status = "loop" =>
                  /\ file_pos = file_offset
                  /\ nbytes_to_read \in 0 .. BufLen
                  /\ nbytes_to_read = 0 => file_offset = range_end
            /\ status = "W_COMPLETE_WRITE" =>
                  file_offset >= FileSize \/ file_offset = range_end

LEMMA HandleStep == HandleInv /\ [FileNext]_fileVars => HandleInv'
  <1> SUFFICES ASSUME HandleInv, [FileNext]_fileVars PROVE HandleInv'
    OBVIOUS
  <1>1. CASE OpenAndSeek
    BY <1>1 DEF HandleInv, OpenAndSeek
  <1>2. CASE OpenFails
    BY <1>2 DEF HandleInv, OpenFails
  <1>3. CASE Fails
    BY <1>3 DEF HandleInv, Fails, fulfill
  <1>4. CASE Completes
    BY <1>4 DEF HandleInv, Completes
  <1>5. CASE SendPiece
    <2>1. /\ status = "loop"
          /\ \/ UNCHANGED <<handles, status>>
             \/ /\ handles' = fulfill(handles)
                /\ status' \in {"W_FATAL_ERROR", "W_MAX_TRIES", "call"}
      BY <1>5 DEF SendPiece
    <2>. QED  BY <2>1 DEF HandleInv, fulfill
  <1>6. CASE UNCHANGED fileVars
    BY <1>6 DEF HandleInv, fileVars
  <1>. QED  BY <1>1, <1>2, <1>3, <1>4, <1>5, <1>6 DEF FileNext

LEMMA TriesStep == TriesInv /\ [FileNext]_fileVars => TriesInv'
  <1> SUFFICES ASSUME TriesInv, [FileNext]_fileVars PROVE TriesInv'
    OBVIOUS
  <1>1. MaxTries \in Nat \ {0}
    BY FileAssumption
  <1>2. CASE OpenAndSeek
    BY <1>1, <1>2 DEF TriesInv, StallsBeforeDrop, OpenAndSeek
  <1>3. CASE OpenFails \/ Fails \/ Completes
    BY <1>3 DEF TriesInv, StallsBeforeDrop, OpenFails, Fails, Completes
  <1>4. CASE SendPiece
    <2>1. /\ status = "loop"
          /\ \/ /\ status' = "W_FATAL_ERROR"
                /\ UNCHANGED <<write_tries_left, stalls>>
             \/ /\ write_tries_left' = MaxTries /\ stalls' = 0
                /\ UNCHANGED status
             \/ /\ write_tries_left = 0 /\ status' = "W_MAX_TRIES"
                /\ UNCHANGED <<write_tries_left, stalls>>
             \/ /\ write_tries_left # 0 /\ status' = "call"
                /\ write_tries_left' = write_tries_left - 1
                /\ UNCHANGED stalls
      BY <1>4 DEF SendPiece, OutOfTries, TriesAfterStall, TriesAfterProgress
    <2>. QED  BY <1>1, <2>1 DEF TriesInv, StallsBeforeDrop
  <1>5. CASE UNCHANGED fileVars
    BY <1>5 DEF TriesInv, StallsBeforeDrop, fileVars
  <1>. QED  BY <1>2, <1>3, <1>4, <1>5 DEF FileNext

LEMMA BytesReadBound ==
    ASSUME BytesInv, status = "loop"
    PROVE  /\ BytesRead \in Nat
           /\ BytesRead = 0 => file_offset >= FileSize \/ file_offset = range_end
  <1>1. FileSize \in Nat /\ BufLen \in Nat \ {0}
    BY FileAssumption
  <1>. QED  BY <1>1 DEF BytesInv, BytesRead

(* A piece of the file goes out from where the transfer has got to. *)
LEMMA PieceExtendsWire ==
    ASSUME BytesInv, status = "loop", NEW n \in Nat
    PROVE  /\ wire \o Piece(file_pos, n) =
                  Piece(range_start, file_offset + n - range_start)
           /\ wire \o <<>> = wire
  <1> DEFINE m == file_offset - range_start
  <1>1. /\ m \in Nat /\ range_start \in Int
        /\ range_start + m = file_pos /\ m + n = file_offset + n - range_start
        /\ wire = Piece(range_start, m)
    BY DEF BytesInv
  <1> HIDE DEF m
  <1>2. wire \o Piece(range_start + m, n) = Piece(range_start, m + n)
    BY <1>1, PiecesJoin
  <1>3. wire \in Seq(Int)
    BY <1>1, PieceIsASequence
  <1>. QED  BY <1>1, <1>2, <1>3, ConcatEmptySeq

LEMMA SendPieceKeepsBytesInv ==
    ASSUME Sends = "whole", BytesInv, SendPiece
    PROVE  BytesInv'
  <1> DEFINE n == BytesRead
             Out(r) == [i \in DOMAIN r.wire |-> file_pos + r.wire[i]]
  <1>1. status = "loop" /\ n > 0
    BY DEF SendPiece
  <1>2. n \in Nat /\ file_pos \in Int /\ file_pos = file_offset
    BY <1>1, BytesReadBound DEF BytesInv
  <1>3. PICK r \in send_buf(n) :
          /\ wire' = wire \o Out(r)
          /\ \/ r.ret = -1 /\ status' = "W_FATAL_ERROR" /\ file_offset' = file_offset
             \/ r.ret # -1 /\ file_offset' = file_offset + r.ret
                /\ \/ r.ret > 0 /\ status' = status
                   \/ r.ret = 0 /\ status' \in {"W_MAX_TRIES", "call"}
    BY DEF SendPiece
  <1>4. /\ UNCHANGED <<range_start, range_end, nbytes_to_read>>
        /\ file_pos' = file_pos + n
    BY DEF SendPiece
  <1>5. \/ r.ret \in {-1, 0} /\ r.wire = <<>>
        \/ r.ret = n /\ r.wire = FirstBytes(n)
    BY <1>1, <1>2, <1>3, SendsAllOrNothing
  <1>6. CASE r.ret = n /\ r.wire = FirstBytes(n)
    <2>1. Out(r) = Piece(file_pos, n)
      BY <1>2, <1>6, FirstBytesOfAPiece
    <2>2. wire' = Piece(range_start, file_offset + n - range_start)
      BY <1>1, <1>2, <1>3, <2>1, PieceExtendsWire
    <2>3. file_offset' = file_offset + n /\ status' = "loop"
      BY <1>1, <1>2, <1>3, <1>6
    <2>4. nbytes_to_read # 0
      BY <1>1, <1>2, FileAssumption DEF BytesRead, BytesInv
    <2> HIDE DEF n
    <2>. QED  BY <1>1, <1>2, <1>4, <2>2, <2>3, <2>4 DEF BytesInv
  <1>7. CASE r.ret \in {-1, 0} /\ r.wire = <<>>
    <2>1. Out(r) = <<>>
      BY <1>7
    <2>2. wire' = wire
      BY <1>1, <1>2, <1>3, <2>1, PieceExtendsWire
    <2>3. file_offset' = file_offset /\ status' \in {"W_FATAL_ERROR", "W_MAX_TRIES", "call"}
      BY <1>3, <1>7 DEF BytesInv
    <2>. QED  BY <1>4, <2>2, <2>3 DEF BytesInv
  <1>. QED  BY <1>5, <1>6, <1>7

LEMMA BytesStep ==
    ASSUME Sends = "whole"
    PROVE  BytesInv /\ [FileNext]_fileVars => BytesInv'
  <1> SUFFICES ASSUME BytesInv, [FileNext]_fileVars PROVE BytesInv'
    OBVIOUS
  <1>1. CASE OpenAndSeek
    <2>1. FileSize \in Nat /\ BufLen \in Nat \ {0}
      BY FileAssumption
    <2>. QED  BY <1>1, <2>1 DEF BytesInv, OpenAndSeek, SeekedTo, BytesToRead
  <1>2. CASE OpenFails \/ Fails
    BY <1>2 DEF BytesInv, OpenFails, Fails
  <1>3. CASE Completes
    BY <1>3, BytesReadBound DEF BytesInv, Completes
  <1>4. CASE SendPiece
    BY <1>4, SendPieceKeepsBytesInv
  <1>5. CASE UNCHANGED fileVars
    BY <1>5 DEF BytesInv, fileVars
  <1>. QED  BY <1>1, <1>2, <1>3, <1>4, <1>5 DEF FileNext

LEMMA BytesInit == FileInit => BytesInv
  <1> SUFFICES ASSUME FileInit PROVE BytesInv
    OBVIOUS
  <1>1. FileSize \in Nat
    BY FileAssumption
  <1>2. range_start \in Nat /\ range_end \in Int
    BY <1>1 DEF FileInit
  <1>3. file_offset = range_start /\ file_offset - range_start = 0
    BY <1>2 DEF FileInit
  <1>4. wire = Piece(range_start, 0)
    BY <1>2, PieceIsASequence DEF FileInit
  <1>. QED  BY <1>2, <1>3, <1>4 DEF FileInit, BytesInv

-----------------------------------------------------------------------------
(* Between calls of write_file (mimino.c:379) no handle is open, never     *)
(* more than one, and none after a call that failed or gave up: only the   *)
(* return that says W_COMPLETE_WRITE (mimino.c:429) leaves one behind.     *)
THEOREM HandleIsClosed == FileSpec => []OneHandle
  <1>1. FileInit => HandleInv
    BY DEF FileInit, HandleInv
  <1>2. HandleInv => OneHandle
    BY DEF HandleInv, OneHandle
  <1>. QED  BY <1>1, <1>2, HandleStep, PTL DEF FileSpec

(* write_file returns W_MAX_TRIES (mimino.c:453) only to a client whose    *)
(* socket was found full in MaxTries calls in a row, with nothing taken of *)
(* the file: those of write_headers, which takes from the same counter     *)
(* (mimino.c:332), are among them, but none before the last progress.      *)
THEOREM DropsOnlyTheStalled == FileSpec => []StallsBeforeDrop
  <1>1. FileInit => TriesInv
    BY FileAssumption DEF FileInit, TriesInv, StallsBeforeDrop
  <1>2. TriesInv => StallsBeforeDrop
    BY DEF TriesInv
  <1>. QED  BY <1>1, <1>2, TriesStep, PTL DEF FileSpec

(* Between calls the client has received the file from the start of the    *)
(* range up to file_offset (mimino.h:59), nothing twice and nothing left   *)
(* out, over any number of calls that the socket cut short -- where send() *)
(* takes all or nothing: the run FileTransferPartial shows what happens    *)
(* elsewhere.                                                              *)
THEOREM TransferResumes ==
    ASSUME Sends = "whole"
    PROVE  FileSpec => []ResumesWhereItStopped
  <1>1. BytesInv => ResumesWhereItStopped
    BY DEF BytesInv, ResumesWhereItStopped, Piece
  <1>. QED  BY <1>1, BytesInit, BytesStep, PTL DEF FileSpec

(* When write_file returns W_COMPLETE_WRITE (mimino.c:429), the client has *)
(* all of the range that the file has, but perhaps for its last byte.      *)
THEOREM TransferCompletes ==
    ASSUME Sends = "whole"
    PROVE  FileSpec => []CompleteButForOneByte
  <1>1. BytesInv => CompleteButForOneByte
    <2> SUFFICES ASSUME BytesInv, status = "W_COMPLETE_WRITE",
                        NEW p \in range_start .. range_end - 1, p < FileSize
                 PROVE  Contains(wire, p)
      BY DEF CompleteButForOneByte
    <2>1. FileSize \in Nat
      BY FileAssumption
    <2> DEFINE n == file_offset - range_start
               i == p - range_start + 1
    <2>2. n \in Nat /\ i \in 1 .. n /\ range_start + i - 1 = p /\ range_start \in Int
      BY <2>1 DEF BytesInv
    <2>3. Len(wire) = n /\ wire[i] = p
      <3>1. wire = Piece(range_start, n)
        BY DEF BytesInv
      <3> HIDE DEF n, i
      <3>2. Len(wire) = n
        BY <2>2, <3>1, PieceIsASequence
      <3>3. wire[i] = p
        BY <2>2, <3>1 DEF Piece
      <3>. QED  BY <3>2, <3>3
    <2> HIDE DEF n, i
    <2>. QED  BY <2>2, <2>3 DEF Contains
  <1>. QED  BY <1>1, BytesInit, BytesStep, PTL DEF FileSpec
=============================================================================
