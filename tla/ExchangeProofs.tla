--------------------------- MODULE ExchangeProofs ---------------------------
(***************************************************************************)
(* First what a client receives on a connection, for any lengths, targets  *)
(* and ranges, any number of requests and whatever parts of them send()    *)
(* takes, where no room appears in the socket between a partial send() and *)
(* send_buf's return.  Then the memory of the connection's requests and    *)
(* responses (Ownership), with any headers: no pointer is used or freed    *)
(* after its block was freed, and nothing is lost but for a known cause.   *)
(***************************************************************************)
EXTENDS Ownership, SendBufProofs, FiniteSetTheorems

ResponseType == [status : Int, ended : BOOLEAN, length : Int, body : Int,
                 file : {"null", "dir", "file"}, range_start : Nat, range_end : Int,
                 head_nbytes_sent : Int, body_nbytes_sent : Int]

(* What the head of a listing says, if the request names no range.         *)
ListingIsAnnounced(q, r) ==
    q.target = "dir" /\ ~RangeIsGiven(q) =>
        /\ r.ended
        /\ r.length = ListLen /\ r.body = ListLen
        /\ r.range_start = 0 /\ r.range_end = ListLen - 1

(* A response as make_http_response returns it. *)
Made(q, r) == /\ r \in ResponseType
              /\ r.head_nbytes_sent = 0 /\ r.body_nbytes_sent = 0
              /\ ListingIsAnnounced(q, r)

Framed(q, r, body) ==
    q.target = "dir" /\ ~RangeIsGiven(q) =>
        r.ended /\ (q.method # "HEAD" => Len(body) = r.length)

(* A response whose head is on its way. *)
Begun(q, r) == /\ r \in ResponseType
               /\ r.head_nbytes_sent \in 0 .. HeadLen
               /\ r.body_nbytes_sent = 0
               /\ ListingIsAnnounced(q, r)

(* As much of the body as was counted is on the wire, of one in memory.    *)
BodyBegun(r, body) ==
    /\ r.body_nbytes_sent \in Nat
    /\ body = Piece(r.range_start, r.body_nbytes_sent)
    /\ \/ r.body_nbytes_sent = 0
       \/ r.body # NotGiven /\ r.range_start + r.body_nbytes_sent < r.range_end + 1

(* What is on the wire is what was counted, of the head first, and of the  *)
(* body once the head is complete.                                         *)
WireInv ==
    /\ req \in Requests
    /\ res \in ResponseType
    /\ state \in {"WRITING_HEADERS", "WRITING_BODY", "READING", "CLOSING"}
    /\ state = "WRITING_HEADERS" =>
          /\ body_wire = <<>>
          /\ \/ res = NULL /\ head_wire = <<>>
             \/ Begun(req, res) /\ head_wire = FirstBytes(res.head_nbytes_sent)
    /\ state = "WRITING_BODY" =>
          /\ HasBody(req)
          /\ ListingIsAnnounced(req, res)
          /\ head_wire = FirstBytes(HeadLen)
          /\ BodyBegun(res, body_wire)
    /\ state = "READING" => Framed(req, res, body_wire)
    /\ HeadComesFirst
    /\ BodyInOrder

LEMMA Lengths == /\ HeadLen \in Nat \ {0} /\ ListLen \in Nat \ {0}
                 /\ NotFoundLen \in Nat \ {0} /\ FileSize \in Nat
                 /\ Targets \subseteq TargetKinds
                 /\ RangeBounds \subseteq Nat \union {-1}
  BY ExchangeAssumption DEF NotGiven

-----------------------------------------------------------------------------
LEMMA ResponsesAreMade ==
    ASSUME req \in Requests, NEW r \in make_http_response(req)
    PROVE  Made(req, r)
  <1>1. /\ req.target \in TargetKinds
        /\ req.start \in Nat \union {-1} /\ req.end \in Nat \union {-1}
    BY Lengths DEF Requests
  <1>2. NotGiven = -1 /\ \A j \in Junk : j[1] \in Nat /\ j[2] \in Int
    BY DEF Junk, NotGiven
  <1>3. /\ \A d \in Nat : Given(req.start, d) \in Nat
        /\ \A d \in Int : Given(req.end, d) \in Int
        /\ ~RangeIsGiven(req) => \A d : Given(req.start, d) = d /\ Given(req.end, d) = d
    BY <1>1 DEF Given, NotGiven, RangeIsGiven
  <1>4. CASE req.target = "missing"
    <2>1. r \in NotFound(req)
      BY <1>4 DEF make_http_response
    <2>2. PICK j \in Junk :
            r = Response(404, TRUE, NotFoundLen,
                         IF req.method = "HEAD" THEN NotGiven ELSE NotFoundLen, "null", j[1], j[2])
      BY <2>1 DEF NotFound
    <2>. QED  BY <1>2, <1>4, <2>2, Lengths
             DEF Made, Response, ResponseType, ListingIsAnnounced
  <1>5. CASE req.target = "unreadable"
    <2>1. r \in FatalError(req)
      BY <1>5 DEF make_http_response
    <2>2. PICK j \in Junk :
            r = Response(500, TRUE, NotGiven, NotGiven, "null", j[1], j[2])
      BY <2>1 DEF FatalError
    <2>. QED  BY <1>2, <1>5, <2>2
             DEF Made, Response, ResponseType, ListingIsAnnounced
  <1>6. CASE req.target = "dir_bare"
    <2>1. r \in Redirect(req)
      BY <1>6 DEF make_http_response
    <2>2. PICK j \in Junk :
            r = Response(301, FALSE, NotGiven, NotGiven, "dir", j[1], j[2])
      BY <2>1 DEF Redirect
    <2>. QED  BY <1>2, <1>6, <2>2
             DEF Made, Response, ResponseType, ListingIsAnnounced
  <1>7. CASE req.target = "dir"
    <2>1. r \in Listing(req)
      BY <1>7 DEF make_http_response
    <2>2. r = Response(200, TRUE, ListLen, ListLen, "dir",
                       Given(req.start, 0), Given(req.end, ListLen - 1))
      BY <2>1 DEF Listing
    <2>. QED  BY <1>3, <2>2, Lengths
             DEF Made, Response, ResponseType, ListingIsAnnounced
  <1>8. CASE req.target = "dir_gone"
    <2>1. r \in ListingFails(req)
      BY <1>8 DEF make_http_response
    <2>2. r = Response(500, FALSE, NotGiven, 0, "dir",
                       Given(req.start, 0), Given(req.end, -1))
      BY <2>1 DEF ListingFails
    <2>. QED  BY <1>2, <1>3, <1>8, <2>2
             DEF Made, Response, ResponseType, ListingIsAnnounced
  <1>9. CASE req.target = "file"
    <2>1. r \in WholeFile(req)
      BY <1>9 DEF make_http_response
    <2>2. r = Response(IF RangeIsGiven(req) THEN 206 ELSE 200, TRUE, FileSize, NotGiven,
                       "file", Given(req.start, 0), Given(req.end, FileSize - 1))
      BY <2>1 DEF WholeFile
    <2>. QED  BY <1>2, <1>3, <1>9, <2>2, Lengths
             DEF Made, Response, ResponseType, ListingIsAnnounced
  <1>. QED  BY <1>1, <1>4, <1>5, <1>6, <1>7, <1>8, <1>9 DEF TargetKinds

-----------------------------------------------------------------------------
(* A count that goes up leaves the rest of the response as it is.          *)
LEMMA HeadCountsUp ==
    ASSUME NEW r \in ResponseType, NEW k \in Int, NEW q,
           q = [r EXCEPT !.head_nbytes_sent = @ + k]
    PROVE  /\ q \in ResponseType
           /\ q.head_nbytes_sent = r.head_nbytes_sent + k
           /\ q.body_nbytes_sent = r.body_nbytes_sent
           /\ ListingIsAnnounced(req, r) => ListingIsAnnounced(req, q)
  BY DEF ResponseType, ListingIsAnnounced

LEMMA BodyCountsUp ==
    ASSUME NEW r \in ResponseType, NEW k \in Int, NEW q,
           q = [r EXCEPT !.body_nbytes_sent = @ + k]
    PROVE  /\ q \in ResponseType
           /\ q.body_nbytes_sent = r.body_nbytes_sent + k
           /\ q.range_start = r.range_start /\ q.range_end = r.range_end
           /\ q.body = r.body
           /\ ListingIsAnnounced(req, r) => ListingIsAnnounced(req, q)
  BY DEF ResponseType, ListingIsAnnounced

(* What one call of send_buf may put on the wire. *)
LEMMA ShiftedIsAPiece ==
    ASSUME Sends # "parts", NEW n \in Nat, NEW s \in send_buf(n), NEW from \in Int
    PROVE  \/ s.ret \in 0 .. n /\ Shifted(s.wire, from) = Piece(from, s.ret)
           \/ s.ret = -1 /\ \E k \in 0 .. n : Shifted(s.wire, from) = Piece(from, k)
  <1>1. CASE s.ret \in 0 .. n /\ s.wire = FirstBytes(s.ret)
    BY <1>1, FirstBytesOfAPiece DEF Shifted
  <1>2. CASE s.ret = -1 /\ \E k \in 0 .. n : s.wire = FirstBytes(k)
    BY <1>2, FirstBytesOfAPiece DEF Shifted
  <1>. QED  BY <1>1, <1>2, SendsABeginning

LEMMA PieceIsConsecutive ==
    ASSUME NEW from \in Int, NEW n \in Nat
    PROVE  /\ Len(Piece(from, n)) = n
           /\ \A i \in DOMAIN Piece(from, n) : Piece(from, n)[i] = from + i - 1
  BY PieceIsASequence DEF Piece

(* Where the exchange stands once a part of the body was tried: the head   *)
(* is out, and what there is of the body follows the start of the range.   *)
BodyTried ==
    /\ res' \in ResponseType
    /\ state' \in {"WRITING_BODY", "READING", "CLOSING"}
    /\ \A i \in DOMAIN body_wire' : body_wire'[i] = res'.range_start + i - 1
    /\ state' = "WRITING_BODY" =>
          ListingIsAnnounced(req, res') /\ BodyBegun(res', body_wire')
    /\ state' = "READING" => Framed(req, res', body_wire')

LEMMA FinishesOrNot ==
    ASSUME NEW same
    PROVE  /\ Retries(same) => state' \in {same, "CLOSING"}
           /\ Finishes => state' \in {"READING", "CLOSING"}
  BY DEF Retries, Finishes, Ends

LEMMA WriteBodyTries ==
    ASSUME Sends # "parts", NEW r \in ResponseType, ListingIsAnnounced(req, r),
           BodyBegun(r, body_wire), r.body # NotGiven, write_body(r)
    PROVE  BodyTried
  <1> DEFINE n == BodyLeft(r)
             from == BodyFrom(r)
             last == r.range_end + 1
             sent == r.body_nbytes_sent
  <1>1. /\ n \in Nat /\ last \in Int /\ r.range_start \in Nat /\ sent \in Nat
        /\ n = IF last - sent < 0 THEN 0 ELSE last - sent
        /\ from = r.range_start + sent /\ from \in Int
        /\ body_wire = Piece(r.range_start, sent)
        /\ sent = 0 \/ r.range_start + sent < last
    BY DEF BodyLeft, BodyFrom, ResponseType, BodyBegun
  <1> HIDE DEF n, from
  <1>2. PICK s \in send_buf(n) :
          /\ body_wire' = body_wire \o Shifted(s.wire, from)
          /\ \/ s.ret = -1 /\ Ends("CLOSING") /\ res' = r
             \/ /\ s.ret # -1
                /\ res' = [r EXCEPT !.body_nbytes_sent = @ + s.ret]
                /\ IF r.range_start + res'.body_nbytes_sent < last
                   THEN Retries("WRITING_BODY") ELSE Finishes
    BY DEF write_body, n, from
  <1>3. ASSUME NEW k \in 0 .. n, Shifted(s.wire, from) = Piece(from, k)
        PROVE  body_wire' = Piece(r.range_start, sent + k)
    <2> DEFINE start == r.range_start
    <2>1. start \in Int /\ sent \in Nat /\ k \in Nat
      BY <1>1, <1>3
    <2>2. body_wire' = Piece(start, sent) \o Piece(start + sent, k)
      BY <1>1, <1>2, <1>3
    <2> HIDE DEF sent, start
    <2>3. body_wire' = Piece(start, sent + k)
      BY <2>1, <2>2, PiecesJoin
    <2>. QED  BY <2>3 DEF start
  <1>4. CASE s.ret = -1 /\ \E k \in 0 .. n : Shifted(s.wire, from) = Piece(from, k)
    <2>1. PICK k \in 0 .. n : body_wire' = Piece(r.range_start, sent + k)
      BY <1>3, <1>4
    <2>2. r.range_start \in Int /\ sent + k \in Nat
      BY <1>1
    <2>3. \A i \in DOMAIN body_wire' : body_wire'[i] = r.range_start + i - 1
      <3> HIDE DEF sent
      <3>. QED  BY <2>1, <2>2, PieceIsConsecutive
    <2>4. res' = r /\ state' = "CLOSING"
      BY <1>2, <1>4 DEF Ends
    <2>. QED  BY <2>3, <2>4 DEF BodyTried
  <1>5. CASE s.ret \in 0 .. n /\ Shifted(s.wire, from) = Piece(from, s.ret)
    <2>1. body_wire' = Piece(r.range_start, sent + s.ret)
      BY <1>3, <1>5
    <2>2. r.range_start \in Int /\ sent + s.ret \in Nat /\ s.ret \in Int /\ s.ret # -1
      BY <1>1, <1>5
    <2>3. /\ res' = [r EXCEPT !.body_nbytes_sent = @ + s.ret]
          /\ IF r.range_start + res'.body_nbytes_sent < last
             THEN Retries("WRITING_BODY") ELSE Finishes
      BY <1>2, <2>2
    <2>4. /\ res' \in ResponseType /\ res'.body_nbytes_sent = sent + s.ret
          /\ res'.range_start = r.range_start /\ res'.range_end = r.range_end
          /\ res'.body # NotGiven /\ ListingIsAnnounced(req, res')
      BY <2>2, <2>3, BodyCountsUp
    <2>5. /\ Len(body_wire') = sent + s.ret
          /\ \A i \in DOMAIN body_wire' : body_wire'[i] = r.range_start + i - 1
      <3> HIDE DEF sent
      <3>. QED  BY <2>1, <2>2, PieceIsConsecutive
    <2>6. CASE r.range_start + res'.body_nbytes_sent < last
      <3>1. state' \in {"WRITING_BODY", "CLOSING"}
        BY <2>3, <2>6, FinishesOrNot
      <3>2. BodyBegun(res', body_wire')
        BY <2>1, <2>2, <2>4, <2>6 DEF BodyBegun
      <3> HIDE DEF sent, last
      <3>. QED  BY <2>4, <2>5, <3>1, <3>2 DEF BodyTried
    <2>7. CASE ~(r.range_start + res'.body_nbytes_sent < last)
      <3>1. state' \in {"READING", "CLOSING"}
        BY <2>3, <2>7, FinishesOrNot
      <3>2. Framed(req, res', body_wire')
        <4> SUFFICES ASSUME req.target = "dir", ~RangeIsGiven(req)
                     PROVE  res'.ended /\ Len(body_wire') = res'.length
          BY DEF Framed
        <4>1. /\ res'.ended /\ res'.length = ListLen
              /\ r.range_start = 0 /\ last = ListLen /\ ListLen \in Nat
          <5>1. r.range_end + 1 = ListLen
            BY Lengths DEF ListingIsAnnounced
          <5>. QED  BY <2>4, <5>1, Lengths DEF ListingIsAnnounced
        <4>2. sent + s.ret = ListLen
          <5>1. s.ret \in 0 .. n /\ ~(0 + (sent + s.ret) < last)
            BY <1>5, <2>4, <2>7, <4>1
          <5> HIDE DEF sent, last
          <5>. QED  BY <1>1, <4>1, <5>1
        <4>. QED  BY <2>5, <4>1, <4>2
      <3> HIDE DEF sent, last
      <3>. QED  BY <2>4, <2>5, <3>1, <3>2 DEF BodyTried
    <2>. QED  BY <2>6, <2>7
  <1>. QED  BY <1>1, <1>4, <1>5, ShiftedIsAPiece

LEMMA WriteFileTries ==
    ASSUME NEW r \in ResponseType, ListingIsAnnounced(req, r), r.body = NotGiven,
           body_wire = <<>>, WriteFileDone(r), res' = r
    PROVE  BodyTried
  <1> DEFINE from == IF r.file = "dir" THEN 0 ELSE r.range_start
  <1>1. PICK stop \in (IF r.file = "file" THEN {FileSize, r.range_end} ELSE {r.range_end}) :
          /\ r.file = "dir" => stop = from
          /\ Finishes
          /\ body_wire' = body_wire \o [i \in 1 .. stop - from |-> from + i - 1]
    BY DEF WriteFileDone
  <1>2. stop \in Int /\ from \in Int /\ r.range_start \in Nat
    BY <1>1, Lengths DEF ResponseType
  <1> DEFINE n == IF stop - from < 0 THEN 0 ELSE stop - from
  <1>3. n \in Nat /\ 1 .. stop - from = 1 .. n
    BY <1>2
  <1>4. body_wire' = Piece(from, n)
    <2>1. [i \in 1 .. stop - from |-> from + i - 1] = Piece(from, n)
      BY <1>3 DEF Piece
    <2>2. Piece(from, n) \in Seq(Int)
      BY <1>2, <1>3, PieceIsASequence
    <2>. QED  BY <1>1, <2>1, <2>2, ConcatEmptySeq
  <1>5. \A i \in DOMAIN body_wire' : body_wire'[i] = r.range_start + i - 1
    <2>1. r.file = "dir" => n = 0
      BY <1>1, <1>2
    <2>2. DOMAIN body_wire' = 1 .. n /\ \A i \in 1 .. n : body_wire'[i] = from + i - 1
      BY <1>2, <1>3, <1>4, PieceIsASequence DEF Piece
    <2>. QED  BY <2>1, <2>2
  <1>6. Framed(req, res', body_wire')
    BY Lengths DEF Framed, ListingIsAnnounced, NotGiven
  <1>. QED  BY <1>1, <1>5, <1>6, FinishesOrNot DEF BodyTried

LEMMA BodyStepTries ==
    ASSUME Sends # "parts", NEW r \in ResponseType, ListingIsAnnounced(req, r),
           BodyBegun(r, body_wire), BodyStep(r)
    PROVE  BodyTried
  <1>1. CASE r.body # NotGiven /\ write_body(r)
    BY <1>1, WriteBodyTries
  <1>2. CASE r.body = NotGiven /\ WriteFileDone(r) /\ res' = r
    <2>1. r.range_start \in Int
      BY DEF ResponseType
    <2>2. body_wire = <<>>
      BY <1>2, <2>1, PieceIsASequence DEF BodyBegun
    <2>. QED  BY <1>2, <2>2, WriteFileTries
  <1>3. CASE Ends("CLOSING") /\ res' = r /\ UNCHANGED body_wire
    <2>1. r.range_start \in Int /\ r.body_nbytes_sent \in Nat
      BY DEF ResponseType, BodyBegun
    <2>2. \A i \in DOMAIN body_wire : body_wire[i] = r.range_start + i - 1
      BY <2>1, PieceIsConsecutive DEF BodyBegun
    <2>. QED  BY <1>3, <2>2 DEF BodyTried, Ends
  <1>. QED  BY <1>1, <1>2, <1>3 DEF BodyStep

LEMMA WriteHeadersKeepsWireInv ==
    ASSUME Sends # "parts", WireInv, WriteHeaders
    PROVE  WireInv'
  <1>1. /\ req' = req /\ req \in Requests /\ state = "WRITING_HEADERS"
        /\ body_wire = <<>>
    BY DEF WireInv, WriteHeaders
  <1>2. PICK made \in Responded, s \in send_buf(HeadLen - res.head_nbytes_sent) :
          LET r == [made EXCEPT !.head_nbytes_sent = @ + s.ret]
          IN  /\ head_wire' = head_wire \o Shifted(s.wire, made.head_nbytes_sent)
              /\ \/ s.ret = -1 /\ Ends("CLOSING") /\ res' = made /\ UNCHANGED body_wire
                 \/ /\ s.ret # -1 /\ ~HeadIsSent(r) /\ Retries("WRITING_HEADERS")
                    /\ res' = r /\ UNCHANGED body_wire
                 \/ /\ s.ret # -1 /\ HeadIsSent(r) /\ ~HasBody(req) /\ Finishes
                    /\ res' = r /\ UNCHANGED body_wire
                 \/ s.ret # -1 /\ HeadIsSent(r) /\ HasBody(req) /\ BodyStep(r)
    BY Zenon DEF WriteHeaders
  <1> DEFINE r == [made EXCEPT !.head_nbytes_sent = @ + s.ret]
             sent == made.head_nbytes_sent
             left == HeadLen - sent
  <1>3. HeadLen \in Nat \ {0}
    BY Lengths
  <1>4. /\ Begun(req, made) /\ head_wire = FirstBytes(sent)
        /\ res.head_nbytes_sent = sent
    <2>1. CASE res = NULL
      <3>1. Made(req, made) /\ res.head_nbytes_sent = 0
        BY <1>1, <1>2, <2>1, ResponsesAreMade DEF Responded, NULL, Response
      <3>2. sent = 0 /\ Begun(req, made)
        BY <1>3, <3>1 DEF Made, Begun
      <3>3. head_wire = <<>>
        BY <1>1, <2>1 DEF WireInv, Begun, NULL, Response, FirstBytes
      <3>. QED  BY <3>1, <3>2, <3>3 DEF FirstBytes
    <2>2. CASE res # NULL
      BY <1>1, <1>2, <2>2 DEF WireInv, Responded
    <2>. QED  BY <2>1, <2>2
  <1>5. /\ made \in ResponseType /\ made.body_nbytes_sent = 0
        /\ ListingIsAnnounced(req, made)
        /\ sent \in 0 .. HeadLen /\ left \in Nat /\ s \in send_buf(left)
    BY <1>2, <1>3, <1>4 DEF Begun
  <1>6. FirstBytes(sent) = Piece(0, sent) /\ \A k \in 0 .. left : FirstBytes(sent + k) = Piece(0, sent + k)
    BY <1>5 DEF FirstBytes, Piece
  <1>7. ASSUME NEW k \in 0 .. left, Shifted(s.wire, sent) = Piece(sent, k)
        PROVE  head_wire' = FirstBytes(sent + k)
    <2>1. head_wire' = Piece(0, sent) \o Piece(sent, k)
      BY <1>2, <1>4, <1>6, <1>7
    <2>2. sent \in Nat /\ k \in Nat
      BY <1>3, <1>5, <1>7
    <2> HIDE DEF sent, left
    <2>3. \A from \in Int : Piece(from, sent) \o Piece(from + sent, k) = Piece(from, sent + k)
      BY <2>2, PiecesJoin
    <2> DEFINE zero == 0
    <2>4. zero \in Int /\ zero + sent = sent
      BY <2>2
    <2>5. head_wire' = Piece(zero, sent + k)
      <3>1. head_wire' = Piece(zero, sent) \o Piece(sent, k)
        BY <2>1
      <3> HIDE DEF zero
      <3>2. Piece(zero, sent) \o Piece(zero + sent, k) = Piece(zero, sent + k)
        BY <2>3, <2>4
      <3>. QED  BY <2>4, <3>1, <3>2, Zenon
    <2>. QED  BY <1>6, <2>5
  <1>8. \/ s.ret \in 0 .. left /\ Shifted(s.wire, sent) = Piece(sent, s.ret)
        \/ s.ret = -1
    <2>1. sent \in Int
      BY <1>5
    <2> HIDE DEF sent, left
    <2>. QED  BY <1>5, <2>1, ShiftedIsAPiece
  <1>9. CASE s.ret = -1
    <2>1. body_wire' = <<>> /\ state' = "CLOSING" /\ res' = made
      BY <1>1, <1>2, <1>5, <1>9 DEF Ends
    <2>. QED  BY <1>1, <1>5, <2>1 DEF WireInv, HeadComesFirst, BodyInOrder
  <1>10. CASE s.ret \in 0 .. left /\ Shifted(s.wire, sent) = Piece(sent, s.ret)
    <2>1. /\ s.ret \in Int /\ s.ret # -1
          /\ sent + s.ret \in 0 .. HeadLen
      BY <1>3, <1>5, <1>10
    <2>2. /\ r \in ResponseType /\ r.head_nbytes_sent = sent + s.ret
          /\ r.body_nbytes_sent = 0 /\ ListingIsAnnounced(req, r)
      BY <1>5, <2>1, HeadCountsUp
    <2>3. head_wire' = FirstBytes(r.head_nbytes_sent)
      BY <1>7, <1>10, <2>2
    <2>4. Begun(req, r)
      BY <2>1, <2>2 DEF Begun
    <2>5. HeadIsSent(r) => r.head_nbytes_sent = HeadLen
      BY <1>3, <2>1, <2>2 DEF HeadIsSent
    <2> HIDE DEF r, sent, left
    <2>6. \/ ~HeadIsSent(r) /\ Retries("WRITING_HEADERS") /\ res' = r /\ UNCHANGED body_wire
          \/ HeadIsSent(r) /\ ~HasBody(req) /\ Finishes /\ res' = r /\ UNCHANGED body_wire
          \/ HeadIsSent(r) /\ HasBody(req) /\ BodyStep(r)
      BY <1>2, <2>1 DEF r
    <2>7. CASE Retries("WRITING_HEADERS") /\ res' = r /\ UNCHANGED body_wire
      <3>1. state' \in {"WRITING_HEADERS", "CLOSING"} /\ body_wire' = <<>>
        BY <1>1, <2>7, FinishesOrNot
      <3>. QED  BY <1>1, <2>2, <2>3, <2>4, <2>7, <3>1 DEF WireInv, HeadComesFirst, BodyInOrder
    <2>8. CASE HeadIsSent(r) /\ ~HasBody(req) /\ Finishes /\ res' = r /\ UNCHANGED body_wire
      <3>1. state' \in {"READING", "CLOSING"} /\ body_wire' = <<>>
        BY <1>1, <2>8, FinishesOrNot
      <3>2. Framed(req, res', body_wire')
        BY <2>2, <2>8 DEF Framed, ListingIsAnnounced, HasBody
      <3>. QED  BY <1>1, <2>2, <2>3, <2>5, <2>8, <3>1, <3>2
                DEF WireInv, HeadComesFirst, BodyInOrder
    <2>9. CASE HeadIsSent(r) /\ HasBody(req) /\ BodyStep(r)
      <3>1. BodyBegun(r, body_wire)
        <4>1. r.range_start \in Int
          BY <2>2 DEF ResponseType
        <4>. QED  BY <1>1, <2>2, <4>1, PieceIsASequence DEF BodyBegun
      <3>2. BodyTried
        BY <2>2, <2>9, <3>1, BodyStepTries
      <3>. QED  BY <1>1, <2>3, <2>5, <2>9, <3>2
                DEF WireInv, HeadComesFirst, BodyInOrder, BodyTried, HasBody
    <2>. QED  BY <2>6, <2>7, <2>8, <2>9
  <1>. QED  BY <1>8, <1>9, <1>10

LEMMA WriteBodyKeepsWireInv ==
    ASSUME Sends # "parts", WireInv, WriteBody
    PROVE  WireInv'
  <1>1. /\ req' = req /\ req \in Requests /\ HasBody(req)
        /\ head_wire' = FirstBytes(HeadLen)
        /\ res \in ResponseType /\ ListingIsAnnounced(req, res)
        /\ BodyBegun(res, body_wire)
        /\ BodyStep(res)
    BY DEF WireInv, WriteBody
  <1>2. BodyTried
    BY <1>1, BodyStepTries
  <1>. QED  BY <1>1, <1>2 DEF WireInv, HeadComesFirst, BodyInOrder, BodyTried, HasBody

LEMMA NULLIsAResponse == NULL \in ResponseType /\ NULL.range_start = 0
  BY DEF NULL, Response, ResponseType, NotGiven

LEMMA ReceiveKeepsWireInv == WireInv /\ Receive => WireInv'
  BY NULLIsAResponse DEF WireInv, Receive, HeadComesFirst, BodyInOrder

(* A connection that ends, however it does, leaves what was sent as it is. *)
LEMMA EndKeepsWireInv ==
    ASSUME WireInv, state' = "CLOSING", UNCHANGED <<req, res, head_wire, body_wire>>
    PROVE  WireInv'
  BY DEF WireInv, HeadComesFirst, BodyInOrder

LEMMA WireStep ==
    ASSUME Sends # "parts"
    PROVE  WireInv /\ [Next]_vars => WireInv'
  <1> SUFFICES ASSUME WireInv, [Next]_vars
               PROVE  WireInv'
    OBVIOUS
  <1>1. CASE WriteHeaders
    BY <1>1, WriteHeadersKeepsWireInv
  <1>2. CASE WriteBody
    BY <1>2, WriteBodyKeepsWireInv
  <1>3. CASE Receive
    BY <1>3, ReceiveKeepsWireInv
  <1>4. CASE UNCHANGED vars
    BY <1>4 DEF WireInv, HeadComesFirst, BodyInOrder, vars
  <1>. QED  BY <1>1, <1>2, <1>3, <1>4 DEF Next, Closed

LEMMA WireInit == Init => WireInv
  BY NULLIsAResponse DEF Init, WireInv, HeadComesFirst, BodyInOrder

(* What else happens to a connection that is reused, refused or timed out. *)
LEMMA OwnWireStep ==
    ASSUME Sends # "parts"
    PROVE  WireInv /\ [OwnNext]_allVars => WireInv'
  <1> SUFFICES ASSUME WireInv, [OwnNext]_allVars
               PROVE  WireInv'
    OBVIOUS
  <1>1. CASE OwnReceive \/ OwnWriteHeaders \/ OwnWriteBody
    <2>1. [Next]_vars
      BY <1>1 DEF OwnReceive, OwnWriteHeaders, OwnWriteBody, Next
    <2>. QED  BY <2>1, WireStep
  <1>2. CASE OwnRefuse \/ OwnTimeOut
    <2>1. state' = "CLOSING" /\ UNCHANGED <<req, res, head_wire, body_wire>>
      BY <1>2 DEF OwnRefuse, OwnTimeOut, Ends
    <2>. QED  BY <2>1, EndKeepsWireInv
  <1>3. CASE OwnReceivePart \/ OwnDone \/ UNCHANGED allVars
    <2>1. [Next]_vars
      BY <1>3 DEF OwnReceivePart, OwnDone, allVars
    <2>. QED  BY <2>1, WireStep
  <1>. QED  BY <1>1, <1>2, <1>3 DEF OwnNext

LEMMA WireInvHolds == ASSUME Sends # "parts" PROVE OwnSpec => []WireInv
  <1>1. OwnInit => WireInv
    BY WireInit DEF OwnInit
  <1>. QED  BY <1>1, OwnWireStep, PTL DEF OwnSpec

-----------------------------------------------------------------------------
(* No byte of a body goes out, and no further request is read, before the  *)
(* client has all of the head, once, in whatever parts the socket takes it *)
(* (write_headers, mimino.c:311) -- where no room appears in the socket    *)
(* between a partial send() and the return to poll().                      *)
THEOREM HeadFirst == ASSUME Sends # "parts" PROVE OwnSpec => []HeadComesFirst
  <1>1. WireInv => HeadComesFirst
    BY DEF WireInv
  <1>. QED  BY <1>1, WireInvHolds, PTL

(* What write_body (mimino.c:341) sends of a body in memory, over however  *)
(* many partial writes, are consecutive bytes from the start of the range, *)
(* and nothing of any body goes out for a HEAD request -- where no room    *)
(* appears in the socket between a partial send() and the return.          *)
THEOREM BodyIsInOrder == ASSUME Sends # "parts" PROVE OwnSpec => []BodyInOrder
  <1>1. WireInv => BodyInOrder
    BY DEF WireInv
  <1>. QED  BY <1>1, WireInvHolds, PTL

(* On a connection that is kept alive a directory's listing is as long as  *)
(* its Content-Length says, which write_body's length is computed from the *)
(* range for (http.c:452, mimino.c:341) -- on the same condition.          *)
THEOREM ListingsAreFramed == ASSUME Sends # "parts" PROVE OwnSpec => []ListingIsFramed
  <1>1. WireInv => ListingIsFramed
    BY DEF WireInv, ListingIsFramed, Framed, EndIsClear
  <1>. QED  BY <1>1, WireInvHolds, PTL

-----------------------------------------------------------------------------
(* Memories, as the code can make them.                                    *)
Blocks == Pointers \X (Nat \ {0})
Memories == {m \in [heap : SUBSET Blocks,
                    ptr : [Pointers -> Blocks \union {NoBlock, Static}],
                    bad : BOOLEAN] : IsFiniteSet(m.heap)}

(* What is known of a pointer: that it is NULL, a literal, a live block,    *)
(* one of several of these, a block that was freed; of a path's pointer,   *)
(* that it is the requested path, the index file's, or no other block than *)
(* res->file_path is.                                                      *)
Holds(m, p, known) ==
    /\ known = "none" => m.ptr[p] = NoBlock
    /\ known = "static" => m.ptr[p] = Static
    /\ known = "live" => m.ptr[p] \in m.heap
    /\ known = "held" => m.ptr[p] \in m.heap \union {NoBlock}
    /\ known = "named" => m.ptr[p] \in m.heap \union {NoBlock, Static}
    /\ known = "gone" => m.ptr[p] \notin m.heap
    /\ known = "real" => /\ m.ptr[p] \in m.heap /\ m.ptr[p][1] = "real_path"
                         /\ m.ptr[p] = m.ptr["file_path"]
    /\ known = "index" => /\ m.ptr[p] \in m.heap \union {NoBlock}
                          /\ m.ptr[p][1] # "real_path"
    /\ known = "spent" => (m.ptr[p] \in m.heap => m.ptr[p] = m.ptr["file_path"])
Empty == {"none", "static", "gone"}
Freeable == {"none", "live", "held", "real", "index"}

(* The pointers that one path is passed around in. All others only ever    *)
(* hold what was allocated for them.                                       *)
PathPointers == {"file_path", "real_path", "index_real_path"}
NameFits(b, p) ==
    b \in Blocks => IF p \in PathPointers THEN b[1] \in PathPointers ELSE b[1] = p

(* Nothing was freed twice, s tells what each pointer holds, and each      *)
(* block that no pointer holds has its cause among C.                      *)
Keeps(m, s, C) ==
    /\ m \in Memories /\ ~m.bad
    /\ \A p \in Pointers : Holds(m, p, s[p]) /\ NameFits(m.ptr[p], p)
    /\ \A b \in m.heap : CauseOf(b[1]) \in C \/ \E p \in Pointers : m.ptr[p] = b

LEMMA NoBlockIsNone == NoBlock \notin Blocks /\ Static \notin Blocks /\ NoBlock # Static
  BY DEF NoBlock, Static, Blocks

LEMMA MemoryIs ==
    ASSUME NEW m \in Memories
    PROVE  /\ m.heap \subseteq Blocks /\ IsFiniteSet(m.heap)
           /\ m.ptr \in [Pointers -> Blocks \union {NoBlock, Static}]
           /\ m.bad \in BOOLEAN
           /\ NoBlock \notin m.heap /\ Static \notin m.heap
           /\ m = [heap |-> m.heap, ptr |-> m.ptr, bad |-> m.bad]
  <1>1. /\ m.heap \subseteq Blocks /\ IsFiniteSet(m.heap)
        /\ m.ptr \in [Pointers -> Blocks \union {NoBlock, Static}]
        /\ m.bad \in BOOLEAN
        /\ m = [heap |-> m.heap, ptr |-> m.ptr, bad |-> m.bad]
    BY DEF Memories
  <1>. QED  BY <1>1, NoBlockIsNone

(* There is always another name for a block. *)
LEMMA FreshIs ==
    ASSUME NEW m \in Memories, NEW p \in Pointers
    PROVE  Fresh(m, p) \in Blocks \ m.heap /\ Fresh(m, p)[1] = p
  <1> DEFINE c == Cardinality(m.heap)
             Unused == {k \in 1 .. c + 1 : <<p, k>> \notin m.heap}
  <1>1. c \in Nat /\ IsFiniteSet(m.heap)
    BY MemoryIs, FS_CardinalityType
  <1>2. Unused # {}
    <2> SUFFICES ASSUME \A k \in 1 .. c + 1 : <<p, k>> \in m.heap
                 PROVE  FALSE
      OBVIOUS
    <2> DEFINE f == [k \in 1 .. c + 1 |-> <<p, k>>]
    <2>1. f \in Injection(1 .. c + 1, m.heap)
      BY DEF Injection, IsInjective
    <2>2. Cardinality(1 .. c + 1) = c + 1
      BY <1>1, FS_Interval
    <2> HIDE DEF f
    <2>3. Cardinality(1 .. c + 1) <= c
      BY <1>1, <2>1, FS_Injection
    <2> HIDE DEF c
    <2>. QED  BY <1>1, <2>2, <2>3
  <1>3. PICK k \in Unused : \A l \in Unused : k <= l
    <2>1. Unused \subseteq Nat
      BY <1>1
    <2> HIDE DEF Unused
    <2>. QED  BY <1>2, <2>1, LeastNumber
  <1> HIDE DEF c
  <1>4. k \in 1 .. c + 1 /\ <<p, k>> \notin m.heap
    OBVIOUS
  <1>5. \A j \in 1 .. k - 1 : <<p, j>> \in m.heap
    <2> SUFFICES ASSUME NEW j \in 1 .. k - 1
                 PROVE  j \notin Unused /\ j \in 1 .. c + 1
      OBVIOUS
    <2>1. j \in 1 .. c + 1 /\ ~(k <= j)
      BY <1>1, <1>4
    <2> HIDE DEF Unused
    <2>. QED  BY <1>3, <2>1
  <1> DEFINE l == CHOOSE n \in 1 .. c + 1 :
                    <<p, n>> \notin m.heap /\ \A j \in 1 .. n - 1 : <<p, j>> \in m.heap
  <1>6. l \in 1 .. c + 1 /\ <<p, l>> \notin m.heap
    BY <1>4, <1>5
  <1>7. Fresh(m, p) = <<p, l>>
    BY DEF Fresh, c
  <1> HIDE DEF l
  <1>8. l \in Nat \ {0}
    BY <1>1, <1>6
  <1>. QED  BY <1>6, <1>7, <1>8 DEF Blocks

LEMMA AllocIs ==
    ASSUME NEW m \in Memories, NEW p \in Pointers, NEW n, n = Alloc(m, p)
    PROVE  /\ n \in Memories
           /\ n.heap = m.heap \union {Fresh(m, p)} /\ n.bad = m.bad
           /\ \A q \in Pointers : n.ptr[q] = IF q = p THEN Fresh(m, p) ELSE m.ptr[q]
  <1> DEFINE b == Fresh(m, p)
             Refs == Blocks \union {NoBlock, Static}
  <1>1. b \in Blocks /\ b \in Refs
    BY FreshIs
  <1>2. m \in [heap : SUBSET Blocks, ptr : [Pointers -> Refs], bad : BOOLEAN]
    BY DEF Memories
  <1>3. n = [m EXCEPT !.heap = @ \union {b}, !.ptr[p] = b]
    BY DEF Alloc
  <1> HIDE DEF b, Refs
  <1>4. n.heap = m.heap \union {b}
    BY <1>2, <1>3
  <1>5. n.ptr = [m.ptr EXCEPT ![p] = b]
    BY <1>2, <1>3
  <1>6. n.bad = m.bad
    BY <1>2, <1>3
  <1>7. n \in [heap : SUBSET Blocks, ptr : [Pointers -> Refs], bad : BOOLEAN]
    BY <1>1, <1>2, <1>3, <1>4, <1>5, <1>6
  <1>8. IsFiniteSet(n.heap)
    <2>1. IsFiniteSet(m.heap)
      BY MemoryIs
    <2>. QED  BY <1>4, <2>1, FS_AddElement
  <1>9. \A q \in Pointers : n.ptr[q] = IF q = p THEN b ELSE m.ptr[q]
    BY <1>2, <1>5
  <1>. QED  BY <1>4, <1>6, <1>7, <1>8, <1>9 DEF Memories, b, Refs

LEMMA FreeIs ==
    ASSUME NEW m \in Memories, NEW p \in Pointers, NEW n, n = Free(m, p)
    PROVE  /\ n \in Memories
           /\ n.heap = m.heap \ {m.ptr[p]} /\ n.ptr = m.ptr
           /\ n.bad = (m.bad \/ m.ptr[p] \notin m.heap \union {NoBlock})
  <1> DEFINE Refs == Blocks \union {NoBlock, Static}
             x == m.ptr[p]
             twice == x \notin m.heap \union {NoBlock}
  <1>1. m \in [heap : SUBSET Blocks, ptr : [Pointers -> Refs], bad : BOOLEAN]
    BY DEF Memories
  <1>2. n = [m EXCEPT !.heap = @ \ {x}, !.bad = @ \/ twice]
    BY DEF Free
  <1>3. twice \in BOOLEAN
    OBVIOUS
  <1> HIDE DEF x, twice, Refs
  <1>4. n.heap = m.heap \ {x}
    BY <1>1, <1>2
  <1>5. n.ptr = m.ptr
    BY <1>1, <1>2
  <1>6. n.bad = (m.bad \/ twice)
    BY <1>1, <1>2
  <1>7. n \in [heap : SUBSET Blocks, ptr : [Pointers -> Refs], bad : BOOLEAN]
    BY <1>1, <1>2, <1>3
  <1>8. IsFiniteSet(n.heap)
    BY <1>4, MemoryIs, FS_RemoveElement
  <1>. QED  BY <1>4, <1>5, <1>6, <1>7, <1>8 DEF Memories, Refs, x, twice

(* Assign, Literal and Forget only change what pointers hold.              *)
Points(m, p, b) == [m EXCEPT !.ptr[p] = b]

LEMMA PointsElsewhere ==
    ASSUME NEW m \in Memories, NEW p \in Pointers, NEW n,
           NEW b \in Blocks \union {NoBlock, Static}, n = Points(m, p, b)
    PROVE  /\ n \in Memories /\ n.heap = m.heap /\ n.bad = m.bad
           /\ \A q \in Pointers : n.ptr[q] = IF q = p THEN b ELSE m.ptr[q]
  <1> DEFINE Refs == Blocks \union {NoBlock, Static}
  <1>1. m \in [heap : SUBSET Blocks, ptr : [Pointers -> Refs], bad : BOOLEAN] /\ b \in Refs
    BY DEF Memories
  <1> HIDE DEF Refs
  <1>0. n = [m EXCEPT !.ptr[p] = b]
    BY DEF Points
  <1>2. n.heap = m.heap
    BY <1>0, <1>1
  <1>3. n.bad = m.bad
    BY <1>0, <1>1
  <1>4. n.ptr = [m.ptr EXCEPT ![p] = b]
    BY <1>0, <1>1
  <1>5. n \in [heap : SUBSET Blocks, ptr : [Pointers -> Refs], bad : BOOLEAN]
    BY <1>0, <1>1
  <1>6. \A q \in Pointers : n.ptr[q] = IF q = p THEN b ELSE m.ptr[q]
    BY <1>1, <1>4
  <1>. QED  BY <1>2, <1>3, <1>5, <1>6, MemoryIs DEF Memories, Refs

LEMMA ForgetIs ==
    ASSUME NEW m \in Memories, NEW P, NEW n, n = Forget(m, P)
    PROVE  /\ n \in Memories /\ n.heap = m.heap /\ n.bad = m.bad
           /\ \A q \in Pointers : n.ptr[q] = IF q \in P THEN NoBlock ELSE m.ptr[q]
  <1> DEFINE Refs == Blocks \union {NoBlock, Static}
             t == [q \in Pointers |-> IF q \in P THEN NoBlock ELSE m.ptr[q]]
  <1>1. m \in [heap : SUBSET Blocks, ptr : [Pointers -> Refs], bad : BOOLEAN]
        /\ NoBlock \in Refs /\ DOMAIN m.ptr = Pointers
    BY MemoryIs DEF Memories
  <1> HIDE DEF Refs
  <1>2. t \in [Pointers -> Refs]
    BY <1>1
  <1>3. n = [m EXCEPT !.ptr = t]
    BY <1>1 DEF Forget
  <1> HIDE DEF t
  <1>4. n.heap = m.heap
    BY <1>1, <1>3
  <1>5. n.bad = m.bad
    BY <1>1, <1>3
  <1>6. n.ptr = t
    BY <1>1, <1>3
  <1>7. n \in [heap : SUBSET Blocks, ptr : [Pointers -> Refs], bad : BOOLEAN]
    BY <1>1, <1>2, <1>3
  <1>. QED  BY <1>4, <1>5, <1>6, <1>7, MemoryIs DEF Memories, Refs, t

-----------------------------------------------------------------------------
(* The rules by which what is known changes, one for each operation.       *)
LEMMA KeepsHeld ==
    ASSUME NEW m, NEW s, NEW C, Keeps(m, s, C)
    PROVE  /\ m \in Memories /\ ~m.bad
           /\ \A p \in Pointers : Holds(m, p, s[p]) /\ NameFits(m.ptr[p], p)
           /\ \A p \in Pointers : m.ptr[p] \in Blocks \union {NoBlock, Static}
           /\ \A b \in m.heap : b \in Blocks /\ b # NoBlock /\ b # Static
           /\ \A b \in m.heap : CauseOf(b[1]) \in C \/ \E p \in Pointers : m.ptr[p] = b
  BY MemoryIs DEF Keeps

LEMMA HeldOrNot ==
    ASSUME NEW m, NEW s, NEW C, Keeps(m, s, C), NEW p \in Pointers
    PROVE  /\ s[p] = "live" => m.ptr[p] # NoBlock
           /\ s[p] = "none" => m.ptr[p] = NoBlock
  <1>1. Holds(m, p, s[p]) /\ \A b \in m.heap : b # NoBlock
    BY KeepsHeld
  <1>. QED  BY <1>1 DEF Holds

LEMMA KeepsWeakly ==
    ASSUME NEW m, NEW s, NEW C, NEW t, NEW D, Keeps(m, s, C), C \subseteq D,
           \A p \in Pointers : Holds(m, p, s[p]) => Holds(m, p, t[p])
    PROVE  Keeps(m, t, D)
  BY DEF Keeps

(* What is known may be said less precisely.                               *)
Weakens(a, b) == \/ a = b \/ b = "any"
                 \/ a \in {"none", "live"} /\ b \in {"held", "named"}
                 \/ a \in {"real", "gone"} /\ b = "spent"
                 \/ a = "real" /\ b = "held"
                 \/ a = "none" /\ b \in {"gone", "spent", "index"}
                 \/ a = "static" /\ b = "named"

LEMMA KeepsLess ==
    ASSUME NEW m, NEW s, NEW C, Keeps(m, s, C), NEW t, NEW D, C \subseteq D,
           \A p \in Pointers : Weakens(s[p], t[p])
    PROVE  Keeps(m, t, D)
  <1>1. ASSUME NEW p \in Pointers, Holds(m, p, s[p])
        PROVE  Holds(m, p, t[p])
    <2> DEFINE a == s[p]
               b == t[p]
    <2>1. Weakens(a, b) /\ Holds(m, p, a)
      BY <1>1
    <2> HIDE DEF a, b
    <2>2. m \in Memories
      BY KeepsHeld
    <2>3. Holds(m, p, b)
      <3>1. CASE a \in {"none", "live"} /\ b \in {"held", "named"}
        BY <2>1, <3>1 DEF Holds
      <3>2. CASE a \in {"real", "gone"} /\ b = "spent"
        BY <2>1, <3>2 DEF Holds
      <3>3. CASE a = "none" /\ b \in {"gone", "spent", "index"}
        BY <2>1, <2>2, <3>3, MemoryIs DEF Holds, NoBlock
      <3>4. CASE (a = "real" /\ b = "held") \/ (a = "static" /\ b = "named") \/ b = "any"
        BY <2>1, <3>4 DEF Holds
      <3>. QED  BY <2>1, <3>1, <3>2, <3>3, <3>4 DEF Weakens
    <2>. QED  BY <2>3 DEF b
  <1>. QED  BY <1>1 DEF Keeps

LEMMA AllocKeeps ==
    ASSUME NEW m, NEW s, NEW C, Keeps(m, s, C), NEW p \in Pointers \ {"file_path"},
           NEW n, n = Alloc(m, p), NEW t,
           t[p] = "live" \/ (t[p] = "index" /\ p = "index_real_path"),
           \A q \in Pointers \ {p} : t[q] = s[q],
           s[p] \in Empty \/ (p \notin PathPointers /\ CauseOf(p) \in C),
           p \in PathPointers => \A q \in PathPointers : s[q] \notin {"gone", "spent"}
    PROVE  Keeps(n, t, C)
  <1> DEFINE b == Fresh(m, p)
  <1>1. /\ n \in Memories /\ n.heap = m.heap \union {b} /\ n.bad = m.bad
        /\ \A q \in Pointers : n.ptr[q] = IF q = p THEN b ELSE m.ptr[q]
    BY KeepsHeld, AllocIs
  <1>2. b \in Blocks /\ b \notin m.heap /\ b[1] = p
    BY KeepsHeld, FreshIs
  <1>3. "file_path" \in Pointers /\ PathPointers \subseteq Pointers
    BY DEF Pointers, ResponsePointers, Variables, PathPointers
  <1> HIDE DEF b
  <1>4. NameFits(n.ptr[p], p)
    BY <1>1, <1>2 DEF NameFits
  <1>5. Holds(n, p, t[p])
    BY <1>1, <1>2 DEF Holds
  <1>6. ASSUME NEW q \in Pointers, q # p
        PROVE  Holds(n, q, s[q]) /\ NameFits(n.ptr[q], q)
    <2>1. /\ n.ptr[q] = m.ptr[q] /\ n.ptr["file_path"] = m.ptr["file_path"]
          /\ Holds(m, q, s[q]) /\ NameFits(m.ptr[q], q)
      BY <1>1, <1>3, <1>6, KeepsHeld
    <2>2. s[q] \in {"gone", "spent"} => m.ptr[q] # b
      BY <1>2, <1>6, <2>1 DEF NameFits
    <2>. QED  BY <1>1, <2>1, <2>2 DEF Holds
  <1>7. \A q \in Pointers : Holds(n, q, t[q]) /\ NameFits(n.ptr[q], q)
    BY <1>4, <1>5, <1>6
  <1>8. ASSUME NEW c \in n.heap
        PROVE  CauseOf(c[1]) \in C \/ \E q \in Pointers : n.ptr[q] = c
    <2>1. CASE c = b
      BY <1>1, <2>1
    <2>2. CASE c # b
      <3>1. c \in m.heap /\ c \in Blocks /\ c # NoBlock /\ c # Static
        BY <1>1, <1>8, <2>2, KeepsHeld
      <3>2. CASE CauseOf(c[1]) \in C
        BY <3>2
      <3>3. CASE \E q \in Pointers : m.ptr[q] = c
        <4>1. PICK q \in Pointers : m.ptr[q] = c
          BY <3>3
        <4>2. CASE q # p
          BY <1>1, <4>1, <4>2
        <4>3. CASE q = p
          <5>1. s[p] \notin Empty
            BY <3>1, <4>1, <4>3, KeepsHeld DEF Holds, Empty
          <5>2. c[1] = p
            BY <3>1, <4>1, <4>3, <5>1, KeepsHeld DEF NameFits
          <5>. QED  BY <5>1, <5>2
        <4>. QED  BY <4>2, <4>3
      <3>. QED  BY <3>1, <3>2, <3>3, KeepsHeld
    <2>. QED  BY <2>1, <2>2
  <1>. QED  BY <1>1, <1>7, <1>8, KeepsHeld DEF Keeps

(* All that holds p's block, Q, is gone with it.                           *)
LEMMA FreeKeepsAll ==
    ASSUME NEW m, NEW s, NEW C, Keeps(m, s, C), NEW p \in Pointers, NEW n, n = Free(m, p),
           s[p] \in Freeable, NEW Q, \A q \in Pointers \intersect Q : m.ptr[q] = m.ptr[p],
           \A q \in Pointers \ Q : m.ptr[p] \in m.heap => m.ptr[q] # m.ptr[p],
           NEW t, \A q \in Pointers : t[q] = IF q \in Q THEN "gone" ELSE s[q]
    PROVE  Keeps(n, t, C)
  <1>1. /\ n \in Memories /\ n.heap = m.heap \ {m.ptr[p]} /\ n.ptr = m.ptr
        /\ n.bad = (m.bad \/ m.ptr[p] \notin m.heap \union {NoBlock})
    BY KeepsHeld, FreeIs
  <1>2. ~n.bad
    <2>1. Holds(m, p, s[p]) /\ ~m.bad
      BY KeepsHeld
    <2>2. m.ptr[p] \in m.heap \union {NoBlock}
      BY <2>1 DEF Holds, Freeable
    <2>. QED  BY <1>1, <2>1, <2>2
  <1>3. ASSUME NEW q \in Pointers
        PROVE  Holds(n, q, t[q]) /\ NameFits(n.ptr[q], q)
    <2>1. Holds(m, q, s[q]) /\ NameFits(m.ptr[q], q)
      BY KeepsHeld
    <2>2. CASE q \in Q
      <3>1. t[q] = "gone"
        BY <2>2
      <3>2. n.ptr[q] \notin n.heap
        BY <1>1, <2>2
      <3>. QED  BY <1>1, <2>1, <3>1, <3>2 DEF Holds
    <2>3. CASE q \notin Q
      <3>1. t[q] = s[q] /\ (m.ptr[p] \in m.heap => m.ptr[q] # m.ptr[p])
        BY <2>3
      <3>2. m.ptr[q] \in n.heap <=> m.ptr[q] \in m.heap
        BY <1>1, <3>1
      <3>. QED  BY <1>1, <2>1, <3>1, <3>2 DEF Holds
    <2>. QED  BY <2>2, <2>3
  <1>4. \A b \in n.heap : CauseOf(b[1]) \in C \/ \E q \in Pointers : n.ptr[q] = b
    BY <1>1, KeepsHeld
  <1>. QED  BY <1>1, <1>2, <1>3, <1>4 DEF Keeps

(* No other pointer can hold p's block.                                    *)
Alone(s, p) == p \in PathPointers => \A q \in PathPointers \ {p} : s[q] \in Empty

LEMMA FreeKeeps ==
    ASSUME NEW m, NEW s, NEW C, Keeps(m, s, C), NEW p \in Pointers, NEW n, n = Free(m, p),
           s[p] \in Freeable, Alone(s, p),
           NEW t, t[p] = "gone", \A q \in Pointers \ {p} : t[q] = s[q]
    PROVE  Keeps(n, t, C)
  <1>1. ASSUME NEW q \in Pointers \ {p}, m.ptr[p] \in m.heap
        PROVE  m.ptr[q] # m.ptr[p]
    <2>1. /\ m.ptr[p] \in Blocks /\ m.ptr[p] # NoBlock /\ m.ptr[p] # Static
          /\ NameFits(m.ptr[p], p) /\ NameFits(m.ptr[q], q) /\ Holds(m, q, s[q])
      BY <1>1, KeepsHeld
    <2>2. CASE p \in PathPointers /\ q \in PathPointers
      <3>1. s[q] \in Empty
        BY <2>2 DEF Alone
      <3>. QED  BY <1>1, <2>1, <3>1 DEF Holds, Empty
    <2>3. CASE ~(p \in PathPointers /\ q \in PathPointers)
      BY <2>1, <2>3 DEF NameFits
    <2>. QED  BY <2>2, <2>3
  <1> DEFINE Q == {p}
  <1>2. \A q \in Pointers \intersect Q : m.ptr[q] = m.ptr[p]
    OBVIOUS
  <1>3. \A q \in Pointers : t[q] = IF q \in Q THEN "gone" ELSE s[q]
    OBVIOUS
  <1>4. \A q \in Pointers \ Q : m.ptr[p] \in m.heap => m.ptr[q] # m.ptr[p]
    BY <1>1
  <1> HIDE DEF Q
  <1>. QED  BY <1>2, <1>3, <1>4, FreeKeepsAll

LEMMA LiteralKeeps ==
    ASSUME NEW m, NEW s, NEW C, Keeps(m, s, C), NEW p \in Pointers \ PathPointers,
           NEW n, n = Literal(m, p), s[p] \in Empty \/ CauseOf(p) \in C,
           NEW t, t[p] = "static", \A q \in Pointers \ {p} : t[q] = s[q]
    PROVE  Keeps(n, t, C)
  <1>1. /\ n \in Memories /\ n.heap = m.heap /\ n.bad = m.bad
        /\ \A q \in Pointers : n.ptr[q] = IF q = p THEN Static ELSE m.ptr[q]
    BY KeepsHeld, PointsElsewhere DEF Literal, Points
  <1>2. ASSUME NEW q \in Pointers
        PROVE  Holds(n, q, t[q]) /\ NameFits(n.ptr[q], q)
    <2>1. Holds(m, q, s[q]) /\ NameFits(m.ptr[q], q)
      BY KeepsHeld
    <2>2. n.ptr["file_path"] = m.ptr["file_path"]
      BY <1>1 DEF PathPointers, Pointers, ResponsePointers
    <2>3. CASE q = p
      <3>1. t[q] = "static" /\ n.ptr[q] = Static
        BY <1>1, <2>3
      <3>. QED  BY <3>1, NoBlockIsNone DEF Holds, NameFits
    <2>4. CASE q # p
      <3>1. t[q] = s[q] /\ n.ptr[q] = m.ptr[q]
        BY <1>1, <2>4
      <3>. QED  BY <1>1, <2>1, <2>2, <3>1 DEF Holds
    <2>. QED  BY <2>3, <2>4
  <1>3. ASSUME NEW b \in n.heap
        PROVE  CauseOf(b[1]) \in C \/ \E q \in Pointers : n.ptr[q] = b
    <2>1. /\ b \in m.heap /\ b \in Blocks /\ b # NoBlock /\ b # Static
          /\ CauseOf(b[1]) \in C \/ \E q \in Pointers : m.ptr[q] = b
      BY <1>1, <1>3, KeepsHeld
    <2>2. ASSUME m.ptr[p] = b PROVE CauseOf(b[1]) \in C
      <3>1. s[p] \notin Empty
        BY <2>1, <2>2, KeepsHeld DEF Holds, Empty
      <3>2. b[1] = p
        BY <2>1, <2>2, KeepsHeld DEF NameFits
      <3>. QED  BY <3>1, <3>2
    <2>. QED  BY <1>1, <2>1, <2>2
  <1>. QED  BY <1>1, <1>2, <1>3, KeepsHeld DEF Keeps

LEMMA ForgetKeeps ==
    ASSUME NEW m, NEW s, NEW C, Keeps(m, s, C), NEW P, NEW n, n = Forget(m, P),
           \A p \in Pointers \intersect P :
              \/ s[p] \in Empty
              \/ p \notin PathPointers /\ CauseOf(p) \in C
              \/ s[p] = "spent" /\ "file_path" \notin P,
           "file_path" \in P => \A p \in Pointers \ P : s[p] \notin {"real", "spent"},
           NEW t, \A q \in Pointers : t[q] = IF q \in P THEN "none" ELSE s[q]
    PROVE  Keeps(n, t, C)
  <1>1. /\ n \in Memories /\ n.heap = m.heap /\ n.bad = m.bad
        /\ \A q \in Pointers : n.ptr[q] = IF q \in P THEN NoBlock ELSE m.ptr[q]
    BY KeepsHeld, ForgetIs
  <1>2. "file_path" \in Pointers
    BY DEF Pointers, ResponsePointers
  <1>3. ASSUME NEW q \in Pointers
        PROVE  Holds(n, q, t[q]) /\ NameFits(n.ptr[q], q)
    <2>1. Holds(m, q, s[q]) /\ NameFits(m.ptr[q], q)
      BY KeepsHeld
    <2>2. CASE q \in P
      <3>1. t[q] = "none" /\ n.ptr[q] = NoBlock
        BY <1>1, <2>2
      <3>. QED  BY <3>1, NoBlockIsNone DEF Holds, NameFits
    <2>3. CASE q \notin P
      <3>1. t[q] = s[q] /\ n.ptr[q] = m.ptr[q]
        BY <1>1, <2>3
      <3>2. s[q] \in {"real", "spent"} => n.ptr["file_path"] = m.ptr["file_path"]
        BY <1>1, <1>2, <2>3
      <3>. QED  BY <1>1, <2>1, <3>1, <3>2 DEF Holds
    <2>. QED  BY <2>2, <2>3
  <1>4. ASSUME NEW b \in n.heap
        PROVE  CauseOf(b[1]) \in C \/ \E q \in Pointers : n.ptr[q] = b
    <2>1. /\ b \in m.heap /\ b \in Blocks /\ b # NoBlock /\ b # Static
          /\ CauseOf(b[1]) \in C \/ \E q \in Pointers : m.ptr[q] = b
      BY <1>1, <1>4, KeepsHeld
    <2>2. ASSUME NEW p \in Pointers, m.ptr[p] = b, p \in P
          PROVE  CauseOf(b[1]) \in C \/ \E q \in Pointers : n.ptr[q] = b
      <3>1. s[p] \notin Empty
        BY <2>1, <2>2, KeepsHeld DEF Holds, Empty
      <3>2. CASE p \notin PathPointers /\ CauseOf(p) \in C
        BY <2>1, <2>2, <3>2, KeepsHeld DEF NameFits
      <3>3. CASE s[p] = "spent" /\ "file_path" \notin P
        <4>1. m.ptr["file_path"] = b
          BY <2>1, <2>2, <3>3, KeepsHeld DEF Holds
        <4>. QED  BY <1>1, <1>2, <3>3, <4>1
      <3>. QED  BY <2>2, <3>1, <3>2, <3>3
    <2>. QED  BY <1>1, <2>1, <2>2
  <1>. QED  BY <1>1, <1>3, <1>4, KeepsHeld DEF Keeps

-----------------------------------------------------------------------------
(* What several calls in a row do.                                         *)
(* s, but for the first i pointers of the list. *)
After(s, ps, i, known) ==
    [p \in Pointers |-> IF \E j \in 1 .. i : ps[j] = p THEN known ELSE s[p]]

LEMMA RowExists ==
    ASSUME NEW m \in Memories, NEW ps \in Seq(Pointers),
           NEW g \in [Memories \X Pointers -> Memories]
    PROVE  \E f \in [0 .. Len(ps) -> Memories] :
              f = [i \in 0 .. Len(ps) |-> IF i = 0 THEN m ELSE g[<<f[i - 1], ps[i]>>]]
  <1> DEFINE n == Len(ps)
             S == Memories
             step == [t \in (0 + 1 .. n) \X S |-> g[<<t[2], ps[t[1]]>>]]
  <1>1. n \in Int /\ 0 \in Int /\ 0 <= n /\ m \in S
    OBVIOUS
  <1>2. ASSUME NEW i \in 0 + 1 .. n, NEW x \in S
        PROVE  g[<<x, ps[i]>>] \in S
    <2>1. ps[i] \in Pointers
      OBVIOUS
    <2>. QED  BY <2>1
  <1>3. step \in [(0 + 1 .. n) \X S -> S]
    <2> HIDE DEF S, n
    <2>. QED  BY <1>2
  <1>4. ASSUME NEW i \in 0 + 1 .. n, NEW x \in S
        PROVE  step[<<i, x>>] = g[<<x, ps[i]>>]
    OBVIOUS
  <1> HIDE DEF n, S, step
  <1>5. PICK f : Computes(f, S, 0, n, m, step)
    BY <1>1, <1>3, RecursionExists
  <1>6. \A i \in 0 .. n : f[i] = IF i = 0 THEN m ELSE g[<<f[i - 1], ps[i]>>]
    <2> SUFFICES ASSUME NEW i \in 0 .. n
                 PROVE  f[i] = IF i = 0 THEN m ELSE g[<<f[i - 1], ps[i]>>]
      OBVIOUS
    <2>1. i # 0 => i \in 0 + 1 .. n /\ i - 1 \in 0 .. n
      BY <1>1
    <2>2. i # 0 => f[i] = step[<<i, f[i - 1]>>] /\ f[i - 1] \in S
      BY <1>5, <2>1 DEF Computes
    <2>. QED  BY <1>4, <1>5, <2>1, <2>2 DEF Computes
  <1>7. f \in [0 .. n -> S]
    BY <1>5 DEF Computes
  <1>8. f = [i \in 0 .. n |-> f[i]]
    BY <1>7
  <1>9. f = [i \in 0 .. n |-> IF i = 0 THEN m ELSE g[<<f[i - 1], ps[i]>>]]
    BY <1>6, <1>8
  <1>. QED  BY <1>7, <1>9 DEF n, S

AreAllocs(f, m, ps) ==
    f = [i \in 0 .. Len(ps) |-> IF i = 0 THEN m ELSE Alloc(f[i - 1], ps[i])]
AreFrees(f, m, ps) ==
    f = [i \in 0 .. Len(ps) |-> IF i = 0 THEN m ELSE Free(f[i - 1], ps[i])]

LEMMA AllocsExist ==
    ASSUME NEW m \in Memories, NEW ps \in Seq(Pointers)
    PROVE  \E f : AreAllocs(f, m, ps)
  <1> DEFINE g == [t \in Memories \X Pointers |-> Alloc(t[1], t[2])]
  <1>1. ASSUME NEW x \in Memories, NEW p \in Pointers
        PROVE  Alloc(x, p) \in Memories
    BY AllocIs
  <1>2. g \in [Memories \X Pointers -> Memories]
    BY <1>1
  <1>3. \A x \in Memories, p \in Pointers : g[<<x, p>>] = Alloc(x, p)
    OBVIOUS
  <1> HIDE DEF g
  <1>4. PICK f \in [0 .. Len(ps) -> Memories] :
          f = [i \in 0 .. Len(ps) |-> IF i = 0 THEN m ELSE g[<<f[i - 1], ps[i]>>]]
    BY <1>2, RowExists, ZenonT(30)
  <1>5. ASSUME NEW i \in 0 .. Len(ps)
        PROVE  f[i] = IF i = 0 THEN m ELSE Alloc(f[i - 1], ps[i])
    <2>1. i # 0 => i - 1 \in 0 .. Len(ps) /\ i \in 1 .. Len(ps)
      OBVIOUS
    <2>2. i # 0 => f[i - 1] \in Memories /\ ps[i] \in Pointers
      BY <2>1
    <2>. QED  BY <1>3, <1>4, <2>2
  <1>6. f = [i \in 0 .. Len(ps) |-> f[i]]
    OBVIOUS
  <1>7. f = [i \in 0 .. Len(ps) |-> IF i = 0 THEN m ELSE Alloc(f[i - 1], ps[i])]
    BY <1>5, <1>6
  <1>. QED  BY <1>7 DEF AreAllocs

LEMMA FreesExist ==
    ASSUME NEW m \in Memories, NEW ps \in Seq(Pointers)
    PROVE  \E f : AreFrees(f, m, ps)
  <1> DEFINE g == [t \in Memories \X Pointers |-> Free(t[1], t[2])]
  <1>1. ASSUME NEW x \in Memories, NEW p \in Pointers
        PROVE  Free(x, p) \in Memories
    BY FreeIs
  <1>2. g \in [Memories \X Pointers -> Memories]
    BY <1>1
  <1>3. \A x \in Memories, p \in Pointers : g[<<x, p>>] = Free(x, p)
    OBVIOUS
  <1> HIDE DEF g
  <1>4. PICK f \in [0 .. Len(ps) -> Memories] :
          f = [i \in 0 .. Len(ps) |-> IF i = 0 THEN m ELSE g[<<f[i - 1], ps[i]>>]]
    BY <1>2, RowExists, ZenonT(30)
  <1>5. ASSUME NEW i \in 0 .. Len(ps)
        PROVE  f[i] = IF i = 0 THEN m ELSE Free(f[i - 1], ps[i])
    <2>1. i # 0 => i - 1 \in 0 .. Len(ps) /\ i \in 1 .. Len(ps)
      OBVIOUS
    <2>2. i # 0 => f[i - 1] \in Memories /\ ps[i] \in Pointers
      BY <2>1
    <2>. QED  BY <1>3, <1>4, <2>2
  <1>6. f = [i \in 0 .. Len(ps) |-> f[i]]
    OBVIOUS
  <1>7. f = [i \in 0 .. Len(ps) |-> IF i = 0 THEN m ELSE Free(f[i - 1], ps[i])]
    BY <1>5, <1>6
  <1>. QED  BY <1>7 DEF AreFrees

(* What holds of the memory before a row of calls, and after each of them. *)
LEMMA RowInduction ==
    ASSUME NEW n \in Nat, NEW T, 0 \in T, \A i \in 1 .. n : i - 1 \in T => i \in T
    PROVE  n \in T
  <1> DEFINE Bad == {i \in 0 .. n : i \notin T}
  <1> SUFFICES ASSUME n \notin T
               PROVE  FALSE
    OBVIOUS
  <1>1. n \in Bad /\ Bad \subseteq Nat
    OBVIOUS
  <1>2. PICK i \in Bad : \A j \in Bad : i <= j
    <2> HIDE DEF Bad
    <2>. QED  BY <1>1, LeastNumber
  <1>3. i \in 1 .. n /\ i \notin T /\ i - 1 \in 0 .. n /\ ~(i <= i - 1)
    BY <1>2
  <1>4. i - 1 \notin Bad
    BY <1>2, <1>3
  <1>. QED  BY <1>3, <1>4

(* A pointer may come twice, if what is left behind then has its cause.    *)
LEMMA AllocAllKeeps ==
    ASSUME NEW m, NEW s, NEW C, Keeps(m, s, C), NEW ps \in Seq(Pointers \ PathPointers),
           \A i \in 1 .. Len(ps) :
              \/ s[ps[i]] \in Empty /\ \A j \in 1 .. i - 1 : ps[j] # ps[i]
              \/ CauseOf(ps[i]) \in C,
           NEW n, n = AllocAll(m, ps),
           NEW t, \A p \in Pointers : t[p] = IF \E i \in 1 .. Len(ps) : ps[i] = p
                                              THEN "live" ELSE s[p]
    PROVE  Keeps(n, t, C)
  <1> DEFINE f == CHOOSE g : AreAllocs(g, m, ps)
             Goes(i) == Keeps(f[i], After(s, ps, i, "live"), C)
             T == {i \in 0 .. Len(ps) : Goes(i)}
  <1>1. ps \in Seq(Pointers) /\ Len(ps) \in Nat
    OBVIOUS
  <1>2. n = f[Len(ps)]
    BY Zenon DEF AllocAll, AreAllocs
  <1>3. AreAllocs(f, m, ps)
    BY <1>1, KeepsHeld, AllocsExist
  <1> HIDE DEF f
  <1>4. f[0] = m /\ \A i \in 1 .. Len(ps) : f[i] = Alloc(f[i - 1], ps[i])
    <2>1. f = [i \in 0 .. Len(ps) |-> IF i = 0 THEN m ELSE Alloc(f[i - 1], ps[i])]
      BY <1>3 DEF AreAllocs
    <2>. QED  BY <1>1, <2>1
  <1>5. Goes(0)
    <2>1. \A p \in Pointers : After(s, ps, 0, "live")[p] = s[p]
      BY DEF After
    <2>. QED  BY <1>4, <2>1, KeepsWeakly
  <1>6. ASSUME NEW i \in 1 .. Len(ps), Goes(i - 1)
        PROVE  Goes(i)
    <2> DEFINE u == After(s, ps, i - 1, "live")
    <2>1. ps[i] \in Pointers \ PathPointers
      BY <1>1
    <2>2. ps[i] \in Pointers \ {"file_path"} /\ ps[i] \notin PathPointers
      BY <2>1 DEF PathPointers
    <2>3. u[ps[i]] \in Empty \/ CauseOf(ps[i]) \in C
      <3>1. ASSUME s[ps[i]] \in Empty, \A j \in 1 .. i - 1 : ps[j] # ps[i]
            PROVE  u[ps[i]] \in Empty
        BY <2>1, <3>1 DEF After
      <3>. QED  BY <3>1
    <2>4. Keeps(f[i - 1], u, C) /\ f[i] = Alloc(f[i - 1], ps[i])
      BY <1>4, <1>6
    <2> HIDE DEF u
    <2> DEFINE v == After(s, ps, i, "live")
               q == ps[i]
    <2>5. v[q] = "live" /\ \A p \in Pointers \ {q} : v[p] = u[p]
      BY <1>1, <2>1 DEF After, u
    <2> HIDE DEF v, q
    <2>6. /\ q \in Pointers \ {"file_path"} /\ q \notin PathPointers
          /\ u[q] \in Empty \/ CauseOf(q) \in C
          /\ f[i] = Alloc(f[i - 1], q)
      BY <2>2, <2>3, <2>4 DEF q
    <2>7. Keeps(f[i], v, C)
      BY <2>4, <2>5, <2>6, AllocKeeps
    <2>. QED  BY <2>7 DEF v
  <1> HIDE DEF Goes
  <1>7. 0 \in T /\ \A i \in 1 .. Len(ps) : i - 1 \in T => i \in T
    BY <1>1, <1>5, <1>6
  <1>8. Len(ps) \in T
    <2> HIDE DEF T
    <2>. QED  BY <1>1, <1>7, RowInduction
  <1>9. \A p \in Pointers : After(s, ps, Len(ps), "live")[p] = t[p]
    BY <1>1 DEF After
  <1>10. Keeps(n, After(s, ps, Len(ps), "live"), C)
    BY <1>2, <1>8 DEF Goes
  <1>. QED  BY <1>9, <1>10, KeepsWeakly

LEMMA FreeAllKeeps ==
    ASSUME NEW m, NEW s, NEW C, Keeps(m, s, C), NEW ps \in Seq(Pointers),
           \A i \in 1 .. Len(ps) : /\ s[ps[i]] \in Freeable /\ Alone(s, ps[i])
                                   /\ \A j \in 1 .. i - 1 : ps[j] # ps[i],
           NEW n, n = FreeAll(m, ps),
           NEW t, \A p \in Pointers : t[p] = IF \E i \in 1 .. Len(ps) : ps[i] = p
                                              THEN "gone" ELSE s[p]
    PROVE  Keeps(n, t, C)
  <1> DEFINE f == CHOOSE g : AreFrees(g, m, ps)
             Goes(i) == Keeps(f[i], After(s, ps, i, "gone"), C)
             T == {i \in 0 .. Len(ps) : Goes(i)}
  <1>1. Len(ps) \in Nat
    OBVIOUS
  <1>2. n = f[Len(ps)]
    BY Zenon DEF FreeAll, AreFrees
  <1>3. AreFrees(f, m, ps)
    BY KeepsHeld, FreesExist
  <1> HIDE DEF f
  <1>4. f[0] = m /\ \A i \in 1 .. Len(ps) : f[i] = Free(f[i - 1], ps[i])
    <2>1. f = [i \in 0 .. Len(ps) |-> IF i = 0 THEN m ELSE Free(f[i - 1], ps[i])]
      BY <1>3 DEF AreFrees
    <2>. QED  BY <1>1, <2>1
  <1>5. Goes(0)
    <2>1. \A p \in Pointers : After(s, ps, 0, "gone")[p] = s[p]
      BY DEF After
    <2>. QED  BY <1>4, <2>1, KeepsWeakly
  <1>6. ASSUME NEW i \in 1 .. Len(ps), Goes(i - 1)
        PROVE  Goes(i)
    <2> DEFINE u == After(s, ps, i - 1, "gone")
    <2>1. ps[i] \in Pointers /\ s[ps[i]] \in Freeable /\ Alone(s, ps[i])
      BY <1>1
    <2>2. \A j \in 1 .. i - 1 : ps[j] # ps[i]
      BY <1>1
    <2>3. u[ps[i]] \in Freeable
      BY <2>1, <2>2 DEF After
    <2>4. Alone(u, ps[i])
      <3>1. PathPointers \subseteq Pointers /\ "gone" \in Empty
        BY DEF PathPointers, Pointers, ResponsePointers, Variables, Empty
      <3>. QED  BY <2>1, <3>1 DEF Alone, After
    <2>5. Keeps(f[i - 1], u, C) /\ f[i] = Free(f[i - 1], ps[i])
      BY <1>4, <1>6
    <2> HIDE DEF u
    <2> DEFINE v == After(s, ps, i, "gone")
               q == ps[i]
    <2>6. v[q] = "gone" /\ \A p \in Pointers \ {q} : v[p] = u[p]
      BY <1>1, <2>1 DEF After, u
    <2> HIDE DEF v, q
    <2>7. Keeps(f[i], v, C)
      BY <2>1, <2>3, <2>4, <2>5, <2>6, FreeKeeps DEF q
    <2>. QED  BY <2>7 DEF v
  <1> HIDE DEF Goes
  <1>7. 0 \in T /\ \A i \in 1 .. Len(ps) : i - 1 \in T => i \in T
    BY <1>1, <1>5, <1>6
  <1>8. Len(ps) \in T
    <2> HIDE DEF T
    <2>. QED  BY <1>1, <1>7, RowInduction
  <1>9. \A p \in Pointers : After(s, ps, Len(ps), "gone")[p] = t[p]
    BY <1>1 DEF After
  <1>10. Keeps(n, After(s, ps, Len(ps), "gone"), C)
    BY <1>2, <1>8 DEF Goes
  <1>. QED  BY <1>9, <1>10, KeepsWeakly

-----------------------------------------------------------------------------
(* What is known between the steps of a connection.                        *)
Idle == [p \in Pointers |-> "none"]
Partial == [p \in Pointers |-> IF p \in {"req", "buf", "buf.data"} THEN "live" ELSE "none"]
Asked(C) ==
    [p \in Pointers |->
        IF p \in {"req", "buf", "buf.data"} THEN "live"
        ELSE IF p \in RequestPointers /\ (p = "connection" => p \in C) THEN "held"
        ELSE "none"]
Answered(C) ==
    [p \in Pointers |->
        IF p \in {"res", "head.data"} THEN "live"
        ELSE IF p \in {"file_path", "body.data"} THEN "held"
        ELSE IF p = "file.name" THEN "named"
        ELSE Asked(C)[p]]

LEMMA PointersAre ==
    /\ RequestPointers = {"req", "buf", "buf.data", "method", "path", "version_number",
                          "host", "user_agent", "accept", "connection"}
    /\ Pointers = {"req", "buf", "buf.data", "method", "path", "version_number",
                   "host", "user_agent", "accept", "connection",
                   "res", "head.data", "body.data", "file.name", "file_path",
                   "clean_http_path", "decoded_http_path", "real_path",
                   "index_real_path", "dir", "namelist", "dirent", "full_path",
                   "file_list", "files", "dir_info", "dir_info.name", "entry"}
    /\ PathPointers = {"file_path", "real_path", "index_real_path"}
  BY DEF Pointers, RequestPointers, HeaderFields, ResponsePointers, Variables, PathPointers

LEMMA FilePartsKeeps ==
    ASSUME NEW m, NEW s, NEW C, Keeps(m, s, C), NEW p \in Pointers \ PathPointers,
           NEW n, n = free_file_parts(m, p), s[p] = "named",
           NEW t, t[p] = "gone", \A q \in Pointers \ {p} : t[q] = s[q]
    PROVE  Keeps(n, t, C)
  <1>1. CASE m.ptr[p] = Static
    <2>1. n = m
      BY <1>1 DEF free_file_parts
    <2>2. Holds(m, p, "gone")
      BY <1>1, KeepsHeld DEF Holds
    <2>3. \A q \in Pointers : Holds(m, q, s[q]) => Holds(m, q, t[q])
      BY <2>2
    <2>. QED  BY <2>1, <2>3, KeepsWeakly
  <1>2. CASE m.ptr[p] # Static
    <2> DEFINE u == [q \in Pointers |-> IF q = p THEN "held" ELSE s[q]]
    <2>1. Holds(m, p, "held")
      BY <1>2, KeepsHeld DEF Holds
    <2>2. \A q \in Pointers : Holds(m, q, s[q]) => Holds(m, q, u[q])
      BY <2>1
    <2>3. u[p] \in Freeable /\ t[p] = "gone" /\ \A q \in Pointers \ {p} : t[q] = u[q]
      BY DEF Freeable
    <2>4. Alone(u, p) /\ n = Free(m, p)
      BY <1>2 DEF Alone, free_file_parts
    <2> HIDE DEF u
    <2>5. Keeps(m, u, C)
      BY <2>2, KeepsWeakly
    <2>. QED  BY <2>3, <2>4, <2>5, FreeKeeps
  <1>. QED  BY <1>1, <1>2

LEMMA WithRequestKeeps ==
    ASSUME NEW m, NEW C, Keeps(m, Idle, C) \/ Keeps(m, Partial, C)
    PROVE  Keeps(WithRequest(m), Partial, C)
  <1>1. CASE Keeps(m, Idle, C)
    <2> DEFINE ps == <<"req", "buf", "buf.data">>
    <2>1. m.ptr["req"] = NoBlock
      <3>1. "req" \in Pointers /\ Idle["req"] = "none"
        BY PointersAre DEF Idle
      <3>. QED  BY <1>1, <3>1, HeldOrNot
    <2>2. WithRequest(m) = AllocAll(m, ps)
      BY <2>1 DEF WithRequest
    <2>3. ps \in Seq(Pointers \ PathPointers)
      BY PointersAre
    <2>4. \A i \in 1 .. Len(ps) :
             Idle[ps[i]] \in Empty /\ \A j \in 1 .. i - 1 : ps[j] # ps[i]
      BY PointersAre DEF Idle, Empty
    <2>5. \A p \in Pointers : Partial[p] = IF \E i \in 1 .. Len(ps) : ps[i] = p
                                           THEN "live" ELSE Idle[p]
      BY DEF Idle, Partial
    <2> HIDE DEF ps
    <2>. QED  BY <1>1, <2>2, <2>3, <2>4, <2>5, AllocAllKeeps
  <1>2. CASE Keeps(m, Partial, C)
    <2>1. m.ptr["req"] # NoBlock
      <3>1. "req" \in Pointers /\ Partial["req"] = "live"
        BY PointersAre DEF Partial
      <3>. QED  BY <1>2, <3>1, HeldOrNot
    <2>. QED  BY <1>2, <2>1 DEF WithRequest
  <1>. QED  BY <1>1, <1>2

LEMMA FreeRequestKeeps ==
    ASSUME NEW m, NEW s, NEW C, Keeps(m, s, C), NEW n, n = free_http_request(m),
           \A p \in RequestPointers : s[p] = Asked(C)[p],
           NEW t, \A p \in Pointers : t[p] = IF p \in RequestPointers \ {"connection"}
                                             THEN "gone" ELSE s[p]
    PROVE  Keeps(n, t, C)
  <1> DEFINE ps == <<"method", "path", "version_number", "host", "user_agent",
                     "accept", "buf.data", "buf", "req">>
  <1>1. m.ptr["req"] # NoBlock
    <2>1. "req" \in Pointers /\ s["req"] = "live"
      BY PointersAre DEF Asked
    <2> HIDE DEF ps
    <2>. QED  BY <2>1, HeldOrNot
  <1>2. n = FreeAll(m, ps)
    BY <1>1 DEF free_http_request
  <1>3. ps \in Seq(Pointers)
    BY PointersAre
  <1>4. \A i \in 1 .. Len(ps) : s[ps[i]] \in Freeable /\ Alone(s, ps[i])
    <2>1. \A p \in RequestPointers \ {"connection"} :
             s[p] \in Freeable /\ Alone(s, p)
      BY PointersAre DEF Asked, Freeable, Alone
    <2>2. \A i \in 1 .. Len(ps) : ps[i] \in RequestPointers \ {"connection"}
      BY PointersAre
    <2> HIDE DEF ps
    <2>. QED  BY <2>1, <2>2
  <1>5. \A i \in 1 .. Len(ps) : /\ s[ps[i]] \in Freeable /\ Alone(s, ps[i])
                                /\ \A j \in 1 .. i - 1 : ps[j] # ps[i]
    <2>1. \A i \in 1 .. Len(ps) : \A j \in 1 .. i - 1 : ps[j] # ps[i]
      OBVIOUS
    <2>. QED  BY <1>4, <2>1
  <1>6. \A p \in Pointers : t[p] = IF \E i \in 1 .. Len(ps) : ps[i] = p THEN "gone" ELSE s[p]
    BY PointersAre
  <1> HIDE DEF ps
  <1>. QED  BY <1>2, <1>3, <1>5, <1>6, FreeAllKeeps

LEMMA FreeResponseKeeps ==
    ASSUME NEW m, NEW s, NEW C, Keeps(m, s, C), NEW n, n = free_http_response(m),
           \A p \in ResponsePointers \union PathPointers : s[p] = Answered(C)[p],
           NEW t, \A p \in Pointers : t[p] = IF p \in ResponsePointers THEN "gone" ELSE s[p]
    PROVE  Keeps(n, t, C)
  <1> DEFINE ps == <<"file_path", "head.data", "body.data">>
             m1 == FreeAll(m, ps)
             m2 == free_file_parts(m1, "file.name")
             s1 == [p \in Pointers |->
                      IF p \in {"file_path", "head.data", "body.data"} THEN "gone" ELSE s[p]]
             s2 == [p \in Pointers |-> IF p = "file.name" THEN "gone" ELSE s1[p]]
  <1>1. /\ s["res"] = "live" /\ s["head.data"] = "live" /\ s["file_path"] = "held"
        /\ s["body.data"] = "held" /\ s["file.name"] = "named"
        /\ s["real_path"] = "none" /\ s["index_real_path"] = "none"
    BY PointersAre DEF Answered, Asked, ResponsePointers
  <1>2. n = Free(m2, "res")
    <2>1. m.ptr["res"] # NoBlock
      <3>1. "res" \in Pointers
        BY PointersAre
      <3> HIDE DEF s1, s2, m1, m2, ps
      <3>. QED  BY <1>1, <3>1, HeldOrNot
    <2>. QED  BY <2>1 DEF free_http_response
  <1>3. ps \in Seq(Pointers)
    BY PointersAre
  <1>4. \A i \in 1 .. Len(ps) : /\ s[ps[i]] \in Freeable /\ Alone(s, ps[i])
                                /\ \A j \in 1 .. i - 1 : ps[j] # ps[i]
    BY <1>1, PointersAre DEF Freeable, Alone, Empty
  <1>5. \A p \in Pointers : s1[p] = IF \E i \in 1 .. Len(ps) : ps[i] = p THEN "gone" ELSE s[p]
    OBVIOUS
  <1>6. /\ s1["file.name"] = "named" /\ s2["file.name"] = "gone"
        /\ \A p \in Pointers \ {"file.name"} : s2[p] = s1[p]
        /\ "file.name" \in Pointers \ PathPointers
    BY <1>1, PointersAre
  <1>7. /\ s2["res"] \in Freeable /\ Alone(s2, "res") /\ "res" \in Pointers
        /\ t["res"] = "gone" /\ \A p \in Pointers \ {"res"} : t[p] = s2[p]
    BY <1>1, PointersAre DEF Freeable, Alone, ResponsePointers
  <1> HIDE DEF ps, s1, s2
  <1>8. Keeps(m1, s1, C)
    BY <1>3, <1>4, <1>5, FreeAllKeeps
  <1> HIDE DEF m1
  <1>9. Keeps(m2, s2, C)
    BY <1>6, <1>8, FilePartsKeeps
  <1> HIDE DEF m2
  <1>. QED  BY <1>2, <1>7, <1>9, FreeKeeps

(* A connection that is recycled or closed frees all that it has.          *)
LEMMA FreedKeeps ==
    ASSUME NEW m, NEW C, \E s \in {Idle, Asked(C), Answered(C)} : Keeps(m, s, C)
    PROVE  Keeps(Freed(m), Idle, C)
  <1> DEFINE m1 == free_http_request(m)
             m2 == free_http_response(m1)
  <1>1. Freed(m) = Forget(m2, Pointers)
    BY DEF Freed
  <1>2. PICK s \in {Idle, Asked(C), Answered(C)} : Keeps(m, s, C)
    OBVIOUS
  <1> DEFINE s1 == [p \in Pointers |-> IF s # Idle /\ p \in RequestPointers \ {"connection"}
                                       THEN "gone" ELSE s[p]]
             s2 == [p \in Pointers |-> IF s = Answered(C) /\ p \in ResponsePointers
                                       THEN "gone" ELSE s1[p]]
  <1>3. Keeps(m1, s1, C)
    <2>1. CASE s = Idle
      <3>1. m.ptr["req"] = NoBlock
        <4>1. "req" \in Pointers /\ Idle["req"] = "none"
          BY PointersAre DEF Idle
        <4> HIDE DEF s1, s2, m1, m2
        <4>. QED  BY <1>2, <2>1, <4>1, HeldOrNot
      <3>2. m1 = m
        BY <3>1 DEF free_http_request
      <3>3. \A p \in Pointers : Holds(m, p, s[p]) => Holds(m, p, s1[p])
        BY <2>1
      <3>. QED  BY <1>2, <3>2, <3>3, KeepsWeakly
    <2>2. CASE s # Idle
      <3>1. \A p \in RequestPointers : s[p] = Asked(C)[p]
        BY <1>2, <2>2, PointersAre DEF Answered
      <3>2. \A p \in Pointers : s1[p] = IF p \in RequestPointers \ {"connection"}
                                        THEN "gone" ELSE s[p]
        BY <2>2
      <3> HIDE DEF s1
      <3>. QED  BY <1>2, <3>1, <3>2, FreeRequestKeeps
    <2>. QED  BY <2>1, <2>2
  <1>4. Keeps(m2, s2, C)
    <2>1. CASE s = Answered(C)
      <3>1. \A p \in ResponsePointers \union PathPointers : s1[p] = Answered(C)[p]
        BY <2>1, PointersAre DEF ResponsePointers
      <3>2. \A p \in Pointers : s2[p] = IF p \in ResponsePointers THEN "gone" ELSE s1[p]
        BY <2>1
      <3> HIDE DEF s1, s2, m1
      <3>. QED  BY <1>3, <3>1, <3>2, FreeResponseKeeps
    <2>2. CASE s # Answered(C)
      <3>1. s1["res"] = "none"
        BY <1>2, <2>2, PointersAre DEF Idle, Asked
      <3>2. \A p \in Pointers : Holds(m1, p, s1[p]) => Holds(m1, p, s2[p])
        BY <2>2
      <3> HIDE DEF s1, s2, m1
      <3>3. m1.ptr["res"] = NoBlock
        <4>1. "res" \in Pointers
          BY PointersAre
        <4>. QED  BY <1>3, <3>1, <4>1, HeldOrNot
      <3>4. m2 = m1
        BY <3>3 DEF free_http_response
      <3>. QED  BY <1>3, <3>2, <3>4, KeepsWeakly
    <2>. QED  BY <2>1, <2>2
  <1>5. \A p \in Pointers : s2[p] \in Empty \/ (p = "connection" /\ p \in C)
    BY <1>2, PointersAre DEF Idle, Asked, Answered, ResponsePointers, Empty
  <1>6. CauseOf("connection") = "connection" /\ "connection" \notin PathPointers
    BY PointersAre DEF CauseOf
  <1> HIDE DEF m2, s2
  <1>7. \A p \in Pointers : Idle[p] = IF p \in Pointers THEN "none" ELSE s2[p]
    BY DEF Idle
  <1>8. \A p \in Pointers \intersect Pointers :
           \/ s2[p] \in Empty
           \/ p \notin PathPointers /\ CauseOf(p) \in C
           \/ s2[p] = "spent" /\ "file_path" \notin Pointers
    BY <1>5, <1>6
  <1>9. "file_path" \in Pointers => \A p \in Pointers \ Pointers : s2[p] \notin {"real", "spent"}
    OBVIOUS
  <1>. QED  BY <1>1, <1>4, <1>7, <1>8, <1>9, ForgetKeeps

(* A request that is not whole is freed like one that is.                  *)
LEMMA UnfinishedIsAsked ==
    ASSUME NEW m, NEW C, NEW s, Keeps(m, s, C),
           \A p \in Pointers : \/ s[p] = Partial[p]
                               \/ p \in {"method", "path", "version_number"} /\ s[p] = "live"
    PROVE  Keeps(m, Asked(C), C)
  <1>1. \A p \in Pointers : \/ s[p] = Asked(C)[p]
                            \/ s[p] \in {"none", "live"} /\ Asked(C)[p] = "held"
    BY PointersAre DEF Partial, Asked
  <1>2. \A p \in Pointers : Holds(m, p, s[p]) => Holds(m, p, Asked(C)[p])
    BY <1>1 DEF Holds
  <1>. QED  BY <1>2, KeepsWeakly

(* A header that is given twice has a cause of its own.                    *)
LEMMA TwiceIsACause ==
    ASSUME NEW headers \in Seq(HeaderFields), NEW i \in 1 .. Len(headers),
           NEW j \in 1 .. i - 1, headers[j] = headers[i]
    PROVE  headers[i] \in HeaderCauses(headers)
  <1> DEFINE h == headers[i]
             Places == {k \in DOMAIN headers : headers[k] = h}
  <1>1. DOMAIN headers = 1 .. Len(headers) /\ Len(headers) \in Nat
    OBVIOUS
  <1>2. IsFiniteSet(Places) /\ Cardinality(Places) \in Nat
    <2>1. IsFiniteSet(1 .. Len(headers)) /\ Places \subseteq 1 .. Len(headers)
      BY <1>1, FS_Interval
    <2> HIDE DEF Places
    <2>. QED  BY <2>1, FS_Subset, FS_CardinalityType
  <1>3. i \in Places /\ j \in Places /\ i # j
    BY <1>1
  <1>4. Cardinality({i, j}) = 2
    <2>1. IsFiniteSet({i}) /\ Cardinality({i}) = 1 /\ j \notin {i}
      BY <1>3, FS_Singleton
    <2> DEFINE S == {i}
    <2>2. {i, j} = S \union {j}
      OBVIOUS
    <2>3. IsFiniteSet(S) /\ Cardinality(S) = 1 /\ j \notin S
      BY <2>1
    <2> HIDE DEF S
    <2>4. Cardinality(S \union {j}) = Cardinality(S) + 1
      BY <2>3, FS_AddElement
    <2>5. Cardinality(S) + 1 = 2
      BY <2>3
    <2>. QED  BY Zenon, <2>2, <2>4, <2>5
  <1>5. Cardinality({i, j}) <= Cardinality(Places)
    <2>1. {i, j} \subseteq Places
      BY <1>3
    <2> HIDE DEF Places
    <2>. QED  BY <1>2, <2>1, FS_Subset
  <1>6. Cardinality(Places) > 1
    BY <1>2, <1>4, <1>5
  <1>7. h \in Range(headers)
    BY <1>1 DEF Range
  <1>. QED  BY <1>6, <1>7 DEF HeaderCauses

LEMMA ParsedKeeps ==
    ASSUME NEW m, NEW C, Keeps(m, Idle, C) \/ Keeps(m, Partial, C),
           NEW headers \in Seq(HeaderFields), NEW D, D = C \union HeaderCauses(headers)
    PROVE  Keeps(Parsed(m, headers), Asked(D), D)
  <1> DEFINE parts == <<"method", "path", "version_number">>
             ps == parts \o headers
             t == [p \in Pointers |-> IF \E i \in 1 .. Len(ps) : ps[i] = p
                                      THEN "live" ELSE Partial[p]]
  <1>1. /\ HeaderFields \subseteq Pointers \ PathPointers
        /\ \A h \in HeaderFields : Partial[h] = "none" /\ CauseOf(h) = h
    BY PointersAre DEF HeaderFields, Partial, CauseOf
  <1>2. /\ Len(ps) = 3 + Len(headers) /\ Len(headers) \in Nat
        /\ ps[1] = "method" /\ ps[2] = "path" /\ ps[3] = "version_number"
        /\ \A i \in 4 .. 3 + Len(headers) : ps[i] = headers[i - 3] /\ ps[i] \in HeaderFields
    OBVIOUS
  <1>3. ps \in Seq(Pointers \ PathPointers)
    <2>1. parts \in Seq(Pointers \ PathPointers)
      BY PointersAre
    <2>2. headers \in Seq(Pointers \ PathPointers)
      BY <1>1
    <2> HIDE DEF parts
    <2>. QED  BY <2>1, <2>2, ConcatProperties
  <1>4. Keeps(WithRequest(m), Partial, D)
    <2>1. Keeps(WithRequest(m), Partial, C) /\ C \subseteq D
      BY WithRequestKeeps
    <2>. QED  BY <2>1, KeepsWeakly
  <1>5. Parsed(m, headers) = AllocAll(WithRequest(m), ps)
    BY DEF Parsed
  <1>6. ASSUME NEW i \in 1 .. Len(ps)
        PROVE  \/ Partial[ps[i]] \in Empty /\ \A j \in 1 .. i - 1 : ps[j] # ps[i]
               \/ CauseOf(ps[i]) \in D
    <2>1. CASE i \in 1 .. 3
      <3>1. Partial[ps[i]] \in Empty
        BY <1>2, <2>1, PointersAre DEF Partial, Empty
      <3>2. \A j \in 1 .. i - 1 : ps[j] # ps[i]
        BY <1>2, <2>1
      <3>. QED  BY <3>1, <3>2
    <2>2. CASE i \in 4 .. 3 + Len(headers)
      <3>1. ps[i] = headers[i - 3] /\ ps[i] \in HeaderFields /\ i - 3 \in 1 .. Len(headers)
        BY <1>2, <2>2
      <3>2. Partial[ps[i]] \in Empty
        BY <1>1, <3>1 DEF Empty
      <3>3. ASSUME NEW j \in 1 .. i - 1, ps[j] = ps[i]
            PROVE  CauseOf(ps[i]) \in D
        <4>1. j \in 4 .. i - 1
          <5>1. ps[i] \notin {"method", "path", "version_number"}
            BY <3>1 DEF HeaderFields
          <5>2. j \notin 1 .. 3
            BY <1>2, <3>3, <5>1
          <5>. QED  BY <2>2, <5>2
        <4>2. j - 3 \in 1 .. (i - 3) - 1 /\ headers[j - 3] = headers[i - 3]
          BY <1>2, <2>2, <3>1, <3>3, <4>1
        <4>3. headers[i - 3] \in HeaderCauses(headers)
          BY <3>1, <4>2, TwiceIsACause
        <4>. QED  BY <1>1, <3>1, <4>3
      <3>. QED  BY <3>2, <3>3
    <2>3. i \in 1 .. 3 \/ i \in 4 .. 3 + Len(headers)
      BY <1>2
    <2>. QED  BY <2>1, <2>2, <2>3
  <1>7. \A p \in Pointers : t[p] = IF \E i \in 1 .. Len(ps) : ps[i] = p
                                   THEN "live" ELSE Partial[p]
    OBVIOUS
  <1>8. ASSUME NEW p \in Pointers
        PROVE  t[p] = Asked(D)[p] \/ (t[p] \in {"none", "live"} /\ Asked(D)[p] = "held")
    <2>1. CASE p \in {"req", "buf", "buf.data"}
      <3>1. \A i \in 1 .. Len(ps) : ps[i] # p
        BY <1>2, <2>1 DEF HeaderFields
      <3>2. t[p] = Partial[p] /\ Partial[p] = "live" /\ Asked(D)[p] = "live"
        BY <2>1, <3>1 DEF Partial, Asked
      <3>. QED  BY <3>2
    <2>2. CASE p \in RequestPointers \ {"req", "buf", "buf.data", "connection"}
      <3>1. Asked(D)[p] = "held" /\ Partial[p] = "none"
        BY <2>2, PointersAre DEF Partial, Asked
      <3>. QED  BY <3>1
    <2>3. CASE p = "connection"
      <3>1. Partial[p] = "none" /\ Asked(D)[p] = IF p \in D THEN "held" ELSE "none"
        BY <2>3, PointersAre DEF Partial, Asked
      <3>2. ASSUME NEW i \in 1 .. Len(ps), ps[i] = p
            PROVE  p \in D
        <4>1. i \in 4 .. 3 + Len(headers)
          BY <1>2, <2>3, <3>2
        <4>2. i - 3 \in DOMAIN headers /\ headers[i - 3] = p
          BY <1>2, <3>2, <4>1
        <4>3. p \in Range(headers)
          BY <4>2 DEF Range
        <4>. QED  BY <2>3, <4>3 DEF HeaderCauses
      <3>. QED  BY <3>1, <3>2
    <2>4. CASE p \notin RequestPointers
      <3>1. \A i \in 1 .. Len(ps) : ps[i] # p
        BY <1>2, <2>4, PointersAre DEF HeaderFields
      <3>2. t[p] = Partial[p] /\ Partial[p] = "none" /\ Asked(D)[p] = "none"
        BY <2>4, <3>1, PointersAre DEF Partial, Asked
      <3>. QED  BY <3>2
    <2>. QED  BY <2>1, <2>2, <2>3, <2>4
  <1> HIDE DEF ps, t
  <1>9. Keeps(Parsed(m, headers), t, D)
    BY <1>3, <1>4, <1>5, <1>6, <1>7, AllocAllKeeps
  <1>10. \A p \in Pointers : Weakens(t[p], Asked(D)[p])
    BY <1>8 DEF Weakens
  <1>. QED  BY <1>9, <1>10, KeepsLess

-----------------------------------------------------------------------------
(* What is known while make_http_response runs: once the path is resolved, *)
(* and once an index file was looked for.                                  *)
Start(C) ==
    [p \in Pointers |->
        IF p \in {"res", "head.data", "decoded_http_path", "file.name"} THEN "live"
        ELSE IF p = "clean_http_path" THEN "gone"
        ELSE IF p \in {"file_path", "real_path"} THEN "real"
        ELSE Asked(C)[p]]
Looked(C) ==
    [p \in Pointers |-> IF p = "index_real_path" THEN "index"
                        ELSE IF p = "file.name" THEN "named" ELSE Start(C)[p]]

(* The path is handed over: res->file_path is what real_path points to.    *)
LEMMA PathKeeps ==
    ASSUME NEW m, NEW s, NEW C, Keeps(m, s, C),
           \A p \in PathPointers : s[p] = "none",
           \A p \in Pointers : s[p] \notin {"real", "spent"},
           NEW n, n = Assign(Alloc(m, "real_path"), "file_path", "real_path"),
           NEW t, \A p \in Pointers : t[p] = IF p \in {"file_path", "real_path"}
                                             THEN "real" ELSE s[p]
    PROVE  Keeps(n, t, C)
  <1> DEFINE b == Fresh(m, "real_path")
             m1 == Alloc(m, "real_path")
  <1>1. /\ m1 \in Memories /\ m1.heap = m.heap \union {b} /\ m1.bad = m.bad
        /\ \A q \in Pointers : m1.ptr[q] = IF q = "real_path" THEN b ELSE m.ptr[q]
    <2>1. m \in Memories /\ "real_path" \in Pointers /\ m1 = Alloc(m, "real_path")
      BY PointersAre, KeepsHeld
    <2> HIDE DEF m1
    <2>. QED  BY <2>1, AllocIs
  <1>2. b \in Blocks /\ b \notin m.heap /\ b[1] = "real_path"
    BY PointersAre, KeepsHeld, FreshIs
  <1>3. n = Points(m1, "file_path", b)
    BY <1>1, PointersAre DEF Assign, Points
  <1> HIDE DEF b, m1
  <1>4. /\ n \in Memories /\ n.heap = m.heap \union {b} /\ n.bad = m.bad
        /\ \A q \in Pointers : n.ptr[q] = IF q \in {"file_path", "real_path"} THEN b
                                          ELSE m.ptr[q]
    <2>1. /\ n \in Memories /\ n.heap = m1.heap /\ n.bad = m1.bad
          /\ \A q \in Pointers : n.ptr[q] = IF q = "file_path" THEN b ELSE m1.ptr[q]
      <3>1. "file_path" \in Pointers /\ b \in Blocks \union {NoBlock, Static}
        BY <1>2, PointersAre
      <3>. QED  BY <1>1, <1>3, <3>1, PointsElsewhere
    <2>. QED  BY <1>1, <2>1
  <1>5. ASSUME NEW q \in Pointers
        PROVE  Holds(n, q, t[q]) /\ NameFits(n.ptr[q], q)
    <2>1. CASE q \in {"file_path", "real_path"}
      <3>1. n.ptr[q] = b /\ n.ptr["file_path"] = b /\ t[q] = "real" /\ q \in PathPointers
        BY <1>4, <2>1, PointersAre
      <3>2. NameFits(b, q)
        BY <1>2, <3>1, PointersAre DEF NameFits
      <3>. QED  BY <1>2, <1>4, <3>1, <3>2 DEF Holds
    <2>2. CASE q \notin {"file_path", "real_path"}
      <3>1. /\ n.ptr[q] = m.ptr[q] /\ t[q] = s[q] /\ s[q] \notin {"real", "spent"}
            /\ Holds(m, q, s[q]) /\ NameFits(m.ptr[q], q)
        BY <1>4, <2>2, KeepsHeld
      <3>2. m.ptr[q] # b
        <4>1. CASE q \in PathPointers
          BY <1>2, <3>1, <4>1, KeepsHeld, NoBlockIsNone DEF Holds
        <4>2. CASE q \notin PathPointers
          BY <1>2, <3>1, <4>2, PointersAre DEF NameFits
        <4>. QED  BY <4>1, <4>2
      <3>. QED  BY <1>4, <3>1, <3>2 DEF Holds
    <2>. QED  BY <2>1, <2>2
  <1>6. ASSUME NEW c \in n.heap
        PROVE  CauseOf(c[1]) \in C \/ \E q \in Pointers : n.ptr[q] = c
    <2>1. CASE c = b
      BY <1>4, <2>1, PointersAre
    <2>2. CASE c # b
      <3>1. /\ c \in m.heap /\ c # NoBlock
            /\ CauseOf(c[1]) \in C \/ \E q \in Pointers : m.ptr[q] = c
        BY <1>4, <1>6, <2>2, KeepsHeld
      <3>2. ASSUME NEW q \in Pointers, m.ptr[q] = c
            PROVE  n.ptr[q] = c
        <4>1. q \notin PathPointers
          BY <3>1, <3>2, KeepsHeld DEF Holds
        <4>. QED  BY <1>4, <3>2, <4>1, PointersAre
      <3>. QED  BY <3>1, <3>2
    <2>. QED  BY <2>1, <2>2
  <1>. QED  BY <1>4, <1>5, <1>6, KeepsHeld DEF Keeps

LEMMA ResolvedKeeps ==
    ASSUME NEW m, NEW C, Keeps(m, Asked(C), C)
    PROVE  Keeps(Resolved(m), Start(C), C)
  <1> DEFINE ps == <<"res", "head.data", "clean_http_path", "decoded_http_path">>
             s == Asked(C)
             s1 == [p \in Pointers |-> IF p \in {"res", "head.data", "clean_http_path",
                                                 "decoded_http_path"} THEN "live" ELSE s[p]]
             s2 == [p \in Pointers |-> IF p = "clean_http_path" THEN "gone" ELSE s1[p]]
             s3 == [p \in Pointers |-> IF p \in {"file_path", "real_path"} THEN "real"
                                       ELSE s2[p]]
             m1 == AllocAll(m, ps)
             m2 == Free(m1, "clean_http_path")
             m3 == Assign(Alloc(m2, "real_path"), "file_path", "real_path")
  <1>1. Resolved(m) = Alloc(m3, "file.name")
    BY DEF Resolved
  <1>2. ps \in Seq(Pointers \ PathPointers)
    BY PointersAre
  <1>3. \A i \in 1 .. Len(ps) : s[ps[i]] \in Empty /\ \A j \in 1 .. i - 1 : ps[j] # ps[i]
    BY PointersAre DEF Asked, Empty
  <1>4. \A p \in Pointers : s1[p] = IF \E i \in 1 .. Len(ps) : ps[i] = p THEN "live" ELSE s[p]
    OBVIOUS
  <1>5. /\ s1["clean_http_path"] \in Freeable /\ Alone(s1, "clean_http_path")
        /\ "clean_http_path" \in Pointers /\ s2["clean_http_path"] = "gone"
        /\ \A p \in Pointers \ {"clean_http_path"} : s2[p] = s1[p]
    BY PointersAre DEF Freeable, Alone
  <1>6. /\ \A p \in PathPointers : s2[p] = "none"
        /\ \A p \in Pointers : s2[p] \notin {"real", "spent"}
    BY PointersAre DEF Asked
  <1>7. \A p \in Pointers : s3[p] = IF p \in {"file_path", "real_path"} THEN "real" ELSE s2[p]
    OBVIOUS
  <1>8. /\ "file.name" \in Pointers \ {"file_path"} /\ "file.name" \notin PathPointers
        /\ s3["file.name"] \in Empty /\ Start(C)["file.name"] = "live"
        /\ \A p \in Pointers \ {"file.name"} : Start(C)[p] = s3[p]
    BY PointersAre DEF Asked, Start, Empty
  <1> HIDE DEF ps, s, s1, s2, s3
  <1>9. Keeps(m1, s1, C)
    BY <1>2, <1>3, <1>4, AllocAllKeeps DEF s
  <1> HIDE DEF m1
  <1>10. Keeps(m2, s2, C)
    BY <1>5, <1>9, FreeKeeps
  <1> HIDE DEF m2
  <1>11. Keeps(m3, s3, C)
    BY <1>6, <1>7, <1>10, PathKeeps
  <1> HIDE DEF m3
  <1>. QED  BY <1>1, <1>8, <1>11, AllocKeeps

LEMMA ReadInfoKeeps ==
    ASSUME NEW m, NEW s, NEW C, Keeps(m, s, C), NEW p \in Pointers \ PathPointers,
           NEW there \in BOOLEAN, NEW n, n = read_file_info(m, p, there),
           s[p] \in {"live", "named"}, there \/ CauseOf(p) \in C,
           NEW t, t[p] = "named", \A q \in Pointers \ {p} : t[q] = s[q]
    PROVE  Keeps(n, t, C)
  <1>1. CASE there
    <2>1. n = m
      BY <1>1 DEF read_file_info
    <2>2. Holds(m, p, t[p])
      BY KeepsHeld DEF Holds
    <2>3. \A q \in Pointers : Holds(m, q, s[q]) => Holds(m, q, t[q])
      BY <2>2
    <2>. QED  BY <2>1, <2>3, KeepsWeakly
  <1>2. CASE ~there
    <2> DEFINE u == [q \in Pointers |-> IF q = p THEN "static" ELSE s[q]]
    <2>1. n = Literal(m, p) /\ CauseOf(p) \in C
      BY <1>2 DEF read_file_info
    <2>2. u[p] = "static" /\ \A q \in Pointers \ {p} : u[q] = s[q]
      OBVIOUS
    <2> HIDE DEF u
    <2>3. Keeps(n, u, C)
      BY <2>1, <2>2, LiteralKeeps
    <2>4. \A q \in Pointers : Holds(n, q, u[q]) => Holds(n, q, t[q])
      BY <2>2 DEF Holds
    <2>. QED  BY <2>3, <2>4, KeepsWeakly
  <1>. QED  BY <1>1, <1>2

(* The directory's name is freed, and the index file's takes its place.    *)
LEMMA WithIndexKeeps ==
    ASSUME NEW m, NEW C, Keeps(m, Start(C), C)
    PROVE  Keeps(WithIndex(m), Looked(C), C)
  <1> DEFINE m1 == Alloc(m, "index_real_path")
             m2 == Free(m1, "file.name")
             ps == <<"file.name">>
             s == Start(C)
             s1 == [p \in Pointers |-> IF p = "index_real_path" THEN "index" ELSE s[p]]
             s2 == [p \in Pointers |-> IF p = "file.name" THEN "gone" ELSE s1[p]]
             s3 == [p \in Pointers |-> IF p = "file.name" THEN "live" ELSE s1[p]]
  <1>1. WithIndex(m) = AllocAll(m2, ps)
    BY DEF WithIndex
  <1>2. /\ "index_real_path" \in Pointers \ {"file_path"} /\ s["index_real_path"] \in Empty
        /\ \A p \in PathPointers : s[p] \notin {"gone", "spent"}
        /\ s1["index_real_path"] = "index"
        /\ \A p \in Pointers \ {"index_real_path"} : s1[p] = s[p]
    BY PointersAre DEF Start, Asked, Empty
  <1>3. /\ "file.name" \in Pointers /\ s1["file.name"] \in Freeable /\ Alone(s1, "file.name")
        /\ s2["file.name"] = "gone" /\ \A p \in Pointers \ {"file.name"} : s2[p] = s1[p]
    BY PointersAre DEF Start, Freeable, Alone
  <1>4. ps \in Seq(Pointers \ PathPointers)
    BY PointersAre
  <1>5. \A i \in 1 .. Len(ps) : s2[ps[i]] \in Empty /\ \A j \in 1 .. i - 1 : ps[j] # ps[i]
    BY PointersAre DEF Empty
  <1>6. \A p \in Pointers : s3[p] = IF \E i \in 1 .. Len(ps) : ps[i] = p THEN "live" ELSE s2[p]
    OBVIOUS
  <1>7. \A p \in Pointers : Weakens(s3[p], Looked(C)[p])
    BY PointersAre DEF Looked, Weakens
  <1> HIDE DEF s, s1, s2, s3, ps
  <1>8. Keeps(m1, s1, C)
    BY <1>2, AllocKeeps DEF s
  <1> HIDE DEF m1
  <1>9. Keeps(m2, s2, C)
    BY <1>3, <1>8, FreeKeeps
  <1> HIDE DEF m2
  <1>10. Keeps(WithIndex(m), s3, C)
    BY <1>1, <1>4, <1>5, <1>6, <1>9, AllocAllKeeps
  <1>. QED  BY <1>7, <1>10, KeepsLess

LEMMA StartIsLooked ==
    ASSUME NEW m, NEW C, Keeps(m, Start(C), C)
    PROVE  Keeps(m, Looked(C), C)
  <1>1. \A p \in Pointers : Weakens(Start(C)[p], Looked(C)[p])
    BY PointersAre DEF Start, Looked, Asked, Weakens
  <1>. QED  BY <1>1, KeepsLess

LEMMA NoIndexKeeps ==
    ASSUME NEW m, NEW C, "no_file" \in C, Keeps(m, Looked(C), C),
           NEW n, n = read_file_info(m, "file.name", FALSE)
    PROVE  Keeps(n, Looked(C), C)
  <1> DEFINE s == Looked(C)
             p == "file.name"
  <1>1. /\ p \in Pointers \ PathPointers /\ s[p] \in {"live", "named"} /\ s[p] = "named"
        /\ CauseOf(p) \in C /\ FALSE \in BOOLEAN
    BY PointersAre DEF Looked, CauseOf
  <1> HIDE DEF s
  <1>2. Keeps(n, s, C)
    BY <1>1, ReadInfoKeeps DEF s
  <1>. QED  BY <1>2 DEF s

LEMMA WithoutIndexKeeps ==
    ASSUME NEW m, NEW C, Keeps(m, Start(C), C),
           NEW o \in WithoutIndex(m), o.causes \subseteq C
    PROVE  Keeps(o.mem, Looked(C), C)
  <1> DEFINE w == WithIndex(m)
  <1>1. Keeps(w, Looked(C), C)
    BY WithIndexKeeps
  <1> HIDE DEF w
  <1>2. \/ o = Outcome(m, {})
        \/ o = Outcome(w, {})
        \/ o = Outcome(read_file_info(w, "file.name", FALSE), {"no_file"})
    BY DEF WithoutIndex, w
  <1>3. CASE o = Outcome(m, {})
    BY <1>3, StartIsLooked DEF Outcome
  <1>4. CASE o = Outcome(w, {})
    BY <1>1, <1>4 DEF Outcome
  <1>5. CASE o = Outcome(read_file_info(w, "file.name", FALSE), {"no_file"})
    <2>1. o.mem = read_file_info(w, "file.name", FALSE) /\ "no_file" \in C
      BY <1>5 DEF Outcome
    <2>. QED  BY <1>1, <2>1, NoIndexKeeps
  <1>. QED  BY <1>2, <1>3, <1>4, <1>5

-----------------------------------------------------------------------------
(* What is known when the response is made.                                *)
Served(C) ==
    [p \in Pointers |->
        IF p = "decoded_http_path" THEN "live"
        ELSE IF p \in {"real_path", "index_real_path"} THEN "spent"
        ELSE IF p \in {"dir", "dir_info.name"} /\ "listing" \in C THEN "any"
        ELSE IF p \in Variables THEN "gone"
        ELSE Answered(C)[p]]

LEMMA StartIsServed ==
    ASSUME NEW m, NEW C, Keeps(m, Start(C), C)
    PROVE  Keeps(m, Served(C), C)
  <1>1. ASSUME NEW p \in Pointers
        PROVE  Weakens(Start(C)[p], Served(C)[p])
    <2>1. CASE p \in RequestPointers
      <3>1. Start(C)[p] = Asked(C)[p] /\ Served(C)[p] = Asked(C)[p]
        BY <2>1, PointersAre DEF Start, Served, Answered, Variables
      <3>. QED  BY <3>1 DEF Weakens
    <2>2. CASE p \notin RequestPointers
      BY <2>2, PointersAre, ZenonT(30)
         DEF Weakens, Start, Served, Answered, Asked, Variables
    <2>. QED  BY <2>1, <2>2
  <1>. QED  BY <1>1, KeepsLess

(* The index file's path takes the place of the directory's, which is      *)
(* freed, in both pointers that held it.                                   *)
LEMMA IndexFoundKeeps ==
    ASSUME NEW m, NEW C, Keeps(m, Looked(C), C)
    PROVE  Keeps(IndexFound(m), Served(C), C)
  <1> DEFINE s == Looked(C)
             Q == {"real_path", "file_path"}
             s1 == [p \in Pointers |-> IF p \in Q THEN "gone" ELSE s[p]]
             m1 == Free(m, "real_path")
             m2 == Assign(m1, "real_path", "index_real_path")
             n == IndexFound(m)
             b == m1.ptr["index_real_path"]
  <1>1. /\ s["real_path"] = "real" /\ s["file_path"] = "real"
        /\ s["index_real_path"] = "index"
    BY PointersAre DEF Looked, Start
  <1>2. m1 \in Memories /\ Keeps(m1, s1, C)
    <2>1. ASSUME NEW q \in Pointers
          PROVE  Holds(m, q, s[q]) /\ NameFits(m.ptr[q], q)
      BY KeepsHeld
    <2>2. /\ m.ptr["real_path"] \in m.heap /\ m.ptr["real_path"] \in Blocks
          /\ m.ptr["real_path"][1] = "real_path"
          /\ m.ptr["file_path"] = m.ptr["real_path"]
      BY <1>1, <2>1, PointersAre, KeepsHeld DEF Holds
    <2>3. ASSUME NEW q \in Pointers \ Q
          PROVE  m.ptr[q] # m.ptr["real_path"]
      <3>1. CASE q = "index_real_path"
        BY <1>1, <2>1, <2>2, <3>1 DEF Holds
      <3>2. CASE q # "index_real_path"
        BY <2>1, <2>2, <2>3, <3>2, PointersAre DEF NameFits
      <3>. QED  BY <3>1, <3>2
    <2>4. \A q \in Pointers \intersect Q : m.ptr[q] = m.ptr["real_path"]
      BY <2>2
    <2>5. \A q \in Pointers : s1[q] = IF q \in Q THEN "gone" ELSE s[q]
      OBVIOUS
    <2>6. "real_path" \in Pointers /\ s["real_path"] \in Freeable /\ Keeps(m, s, C)
      BY <1>1, PointersAre DEF Freeable
    <2> HIDE DEF Q, s, s1
    <2>7. Keeps(m1, s1, C)
      BY <2>3, <2>4, <2>5, <2>6, FreeKeepsAll
    <2>. QED  BY <2>7, KeepsHeld
  <1>3. b \in m1.heap \union {NoBlock} /\ b \in Blocks \union {NoBlock, Static}
        /\ NameFits(b, "index_real_path")
    <2>1. s1["index_real_path"] = "index"
      BY <1>1, PointersAre
    <2> HIDE DEF s1, m1
    <2>. QED  BY <1>2, <2>1, PointersAre, KeepsHeld DEF Holds
  <1>4. /\ n \in Memories /\ n.heap = m1.heap /\ n.bad = m1.bad
        /\ \A q \in Pointers : n.ptr[q] = IF q \in Q THEN b ELSE m1.ptr[q]
    <2>1. m2 = Points(m1, "real_path", b)
      BY DEF Assign, Points
    <2>2. "real_path" \in Pointers /\ "file_path" \in Pointers /\ "index_real_path" \in Pointers
      BY PointersAre
    <2>3. n = Assign(m2, "file_path", "index_real_path")
      BY DEF IndexFound
    <2> HIDE DEF m1, m2, b, n
    <2>4. /\ m2 \in Memories /\ m2.heap = m1.heap /\ m2.bad = m1.bad
          /\ \A q \in Pointers : m2.ptr[q] = IF q = "real_path" THEN b ELSE m1.ptr[q]
      <3>1. /\ m1 \in Memories /\ b \in Blocks \union {NoBlock, Static}
            /\ "real_path" \in Pointers
        BY <1>2, <1>3, <2>2
      <3>. QED  BY <2>1, <3>1, PointsElsewhere
    <2>5. n = Points(m2, "file_path", b)
      BY <2>2, <2>3, <2>4 DEF Assign, Points, b
    <2>6. /\ n \in Memories /\ n.heap = m2.heap /\ n.bad = m2.bad
          /\ \A q \in Pointers : n.ptr[q] = IF q = "file_path" THEN b ELSE m2.ptr[q]
      BY <1>3, <2>2, <2>4, <2>5, PointsElsewhere
    <2>. QED  BY <2>4, <2>6
  <1> HIDE DEF m1, m2, n
  <1>5. b = m1.ptr["index_real_path"] /\ n.ptr["index_real_path"] = b
        /\ n.ptr["file_path"] = b /\ n.ptr["real_path"] = b
    BY <1>4, PointersAre
  <1> HIDE DEF b
  <1> DEFINE t == [p \in Pointers |-> IF p = "file_path" THEN "held"
                                      ELSE IF p \in PathPointers THEN "spent" ELSE s[p]]
  <1>6. ASSUME NEW q \in Pointers
        PROVE  Holds(n, q, t[q]) /\ NameFits(n.ptr[q], q)
    <2>1. CASE q \in PathPointers
      <3>1. n.ptr[q] = b /\ NameFits(b, q)
        BY <1>3, <1>5, <2>1, PointersAre DEF NameFits
      <3>2. t[q] = "held" \/ t[q] = "spent"
        BY <2>1
      <3>. QED  BY <1>3, <1>4, <1>5, <3>1, <3>2 DEF Holds
    <2>2. CASE q \notin PathPointers
      <3>1. /\ s1[q] = s[q] /\ t[q] = s[q] /\ n.ptr[q] = m1.ptr[q]
            /\ s[q] \notin {"real", "spent"}
        BY <1>4, <2>2, PointersAre DEF Looked, Start, Asked
      <3> HIDE DEF s1, s, t
      <3>2. Holds(m1, q, s[q]) /\ NameFits(m1.ptr[q], q)
        BY <1>2, <3>1, KeepsHeld
      <3>. QED  BY <1>4, <3>1, <3>2 DEF Holds
    <2>. QED  BY <2>1, <2>2
  <1>7. ASSUME NEW c \in n.heap
        PROVE  CauseOf(c[1]) \in C \/ \E q \in Pointers : n.ptr[q] = c
    <2>1. c \in m1.heap /\ (CauseOf(c[1]) \in C \/ \E q \in Pointers : m1.ptr[q] = c)
      BY <1>2, <1>4, <1>7, KeepsHeld
    <2>2. ASSUME NEW q \in Pointers, m1.ptr[q] = c
          PROVE  n.ptr[q] = c
      <3>1. q \in Q => s1[q] = "gone"
        OBVIOUS
      <3> HIDE DEF s1
      <3>2. q \notin Q
        BY <1>2, <2>1, <2>2, <3>1, KeepsHeld DEF Holds
      <3>. QED  BY <1>4, <2>2, <3>2
    <2>. QED  BY <2>1, <2>2
  <1>8. ~n.bad
    BY <1>2, <1>4, KeepsHeld
  <1>9. Keeps(n, t, C)
    <2> HIDE DEF t
    <2>. QED  BY <1>4, <1>6, <1>7, <1>8 DEF Keeps
  <1>10. ASSUME NEW p \in Pointers
         PROVE  Weakens(t[p], Served(C)[p])
    <2>1. CASE p \in RequestPointers
      <3>1. t[p] = Asked(C)[p] /\ Served(C)[p] = Asked(C)[p]
        BY <2>1, PointersAre DEF Looked, Start, Served, Answered, Variables
      <3>. QED  BY <3>1 DEF Weakens
    <2>2. CASE p \notin RequestPointers
      BY <2>2, PointersAre, ZenonT(30)
         DEF Weakens, Looked, Start, Served, Answered, Asked, Variables
    <2>. QED  BY <2>1, <2>2
  <1> HIDE DEF t
  <1>. QED  BY <1>9, <1>10, KeepsLess DEF n

-----------------------------------------------------------------------------
(* ls and free_file_list. *)
LsVariables == {"dir", "namelist", "dirent", "full_path", "file_list", "files",
                "dir_info", "dir_info.name", "entry"}

LEMMA LsKeeps ==
    ASSUME NEW m, NEW s, NEW C, Keeps(m, s, C), "listing" \in C,
           NEW entry_there \in BOOLEAN, entry_there \/ "vanished" \in C,
           NEW dir_there \in BOOLEAN,
           NEW n, n = ls(m, entry_there, dir_there),
           \A p \in LsVariables : s[p] = "none",
           NEW t, \A p \in Pointers :
                     t[p] = IF p \in {"dirent", "namelist", "full_path"} THEN "gone"
                            ELSE IF p \in {"dir_info.name", "entry"} THEN "named"
                            ELSE IF p \in LsVariables THEN "live" ELSE s[p]
    PROVE  Keeps(n, t, C)
  <1> DEFINE ps == <<"dir", "dirent", "namelist", "file_list", "files",
                     "dir_info", "dir_info.name">>
             qs == <<"full_path", "entry">>
             rs == <<"dirent", "namelist", "full_path">>
             s1 == [p \in Pointers |-> IF p \in LsVariables \ {"full_path", "entry"}
                                       THEN "live" ELSE s[p]]
             s2 == [p \in Pointers |-> IF p = "dir_info.name" THEN "named" ELSE s1[p]]
             s3 == [p \in Pointers |-> IF p \in {"full_path", "entry"} THEN "live" ELSE s2[p]]
             s4 == [p \in Pointers |-> IF p = "entry" THEN "named" ELSE s3[p]]
             m1 == AllocAll(m, ps)
             m2 == read_file_info(m1, "dir_info.name", dir_there)
             m3 == AllocAll(m2, qs)
             m4 == read_file_info(m3, "entry", entry_there)
  <1>1. n = FreeAll(m4, rs)
    BY DEF ls
  <1>2. LsVariables \subseteq Pointers \ PathPointers
    BY PointersAre DEF LsVariables
  <1>3. /\ ps \in Seq(Pointers \ PathPointers) /\ qs \in Seq(Pointers \ PathPointers)
        /\ rs \in Seq(Pointers)
    BY <1>2 DEF LsVariables
  <1>4. \A i \in 1 .. Len(ps) : s[ps[i]] \in Empty /\ \A j \in 1 .. i - 1 : ps[j] # ps[i]
    BY DEF LsVariables, Empty
  <1>5. \A p \in Pointers : s1[p] = IF \E i \in 1 .. Len(ps) : ps[i] = p THEN "live" ELSE s[p]
    BY DEF LsVariables
  <1>6. /\ "dir_info.name" \in Pointers \ PathPointers /\ s1["dir_info.name"] = "live"
        /\ s1["dir_info.name"] \in {"live", "named"} /\ CauseOf("dir_info.name") \in C
        /\ s2["dir_info.name"] = "named"
        /\ \A p \in Pointers \ {"dir_info.name"} : s2[p] = s1[p]
    BY <1>2 DEF LsVariables, CauseOf
  <1>7. \A i \in 1 .. Len(qs) : s2[qs[i]] \in Empty /\ \A j \in 1 .. i - 1 : qs[j] # qs[i]
    BY <1>2 DEF LsVariables, Empty
  <1>8. \A p \in Pointers : s3[p] = IF \E i \in 1 .. Len(qs) : qs[i] = p THEN "live" ELSE s2[p]
    OBVIOUS
  <1>9. /\ "entry" \in Pointers \ PathPointers /\ s3["entry"] = "live"
        /\ s3["entry"] \in {"live", "named"} /\ (entry_there \/ CauseOf("entry") \in C)
        /\ s4["entry"] = "named" /\ \A p \in Pointers \ {"entry"} : s4[p] = s3[p]
    BY <1>2 DEF LsVariables, CauseOf
  <1>10. \A i \in 1 .. Len(rs) : /\ s4[rs[i]] \in Freeable /\ Alone(s4, rs[i])
                                 /\ \A j \in 1 .. i - 1 : rs[j] # rs[i]
    <2>1. \A p \in {"dirent", "namelist", "full_path"} :
             p \in Pointers \ PathPointers /\ s4[p] = "live"
      BY PointersAre DEF LsVariables
    <2>2. \A p \in {"dirent", "namelist", "full_path"} :
             s4[p] \in Freeable /\ Alone(s4, p)
      BY <2>1 DEF Freeable, Alone
    <2> HIDE DEF s4
    <2>3. \A i \in 1 .. Len(rs) : rs[i] \in {"dirent", "namelist", "full_path"}
      OBVIOUS
    <2>4. \A i \in 1 .. Len(rs) : \A j \in 1 .. i - 1 : rs[j] # rs[i]
      OBVIOUS
    <2> HIDE DEF rs
    <2>. QED  BY <2>2, <2>3, <2>4
  <1>11. \A p \in Pointers : t[p] = IF \E i \in 1 .. Len(rs) : rs[i] = p THEN "gone" ELSE s4[p]
    BY DEF LsVariables
  <1> HIDE DEF ps, qs, rs, s1, s2, s3, s4
  <1>12. Keeps(m1, s1, C)
    BY <1>3, <1>4, <1>5, AllocAllKeeps
  <1> HIDE DEF m1
  <1>13. Keeps(m2, s2, C)
    BY <1>6, <1>12, ReadInfoKeeps
  <1> HIDE DEF m2
  <1>14. Keeps(m3, s3, C)
    BY <1>3, <1>7, <1>8, <1>13, AllocAllKeeps
  <1> HIDE DEF m3
  <1>15. Keeps(m4, s4, C)
    BY <1>9, <1>14, ReadInfoKeeps
  <1> HIDE DEF m4
  <1>. QED  BY <1>1, <1>3, <1>10, <1>11, <1>15, FreeAllKeeps

LEMMA FreeListKeeps ==
    ASSUME NEW m, NEW s, NEW C, Keeps(m, s, C), NEW n, n = free_file_list(m),
           s["entry"] = "named",
           \A p \in {"files", "dir_info", "file_list"} : s[p] = "live",
           NEW t, \A p \in Pointers :
                     t[p] = IF p \in {"entry", "files", "dir_info", "file_list"}
                            THEN "gone" ELSE s[p]
    PROVE  Keeps(n, t, C)
  <1> DEFINE ps == <<"files", "dir_info", "file_list">>
             m1 == free_file_parts(m, "entry")
             s1 == [p \in Pointers |-> IF p = "entry" THEN "gone" ELSE s[p]]
  <1>1. n = FreeAll(m1, ps)
    BY DEF free_file_list
  <1>2. "entry" \in Pointers \ PathPointers /\ ps \in Seq(Pointers)
    BY PointersAre
  <1>3. s1["entry"] = "gone" /\ \A p \in Pointers \ {"entry"} : s1[p] = s[p]
    BY <1>2
  <1>4. \A i \in 1 .. Len(ps) : /\ s1[ps[i]] \in Freeable /\ Alone(s1, ps[i])
                                /\ \A j \in 1 .. i - 1 : ps[j] # ps[i]
    BY PointersAre DEF Freeable, Alone
  <1>5. \A p \in Pointers : t[p] = IF \E i \in 1 .. Len(ps) : ps[i] = p THEN "gone" ELSE s1[p]
    OBVIOUS
  <1> HIDE DEF ps, s1
  <1>6. Keeps(m1, s1, C)
    BY <1>2, <1>3, FilePartsKeeps
  <1> HIDE DEF m1
  <1>. QED  BY <1>1, <1>2, <1>4, <1>5, <1>6, FreeAllKeeps

(* The path that was tried for an index is freed, and no other with it.    *)
LEMMA FreeIndexKeeps ==
    ASSUME NEW m, NEW s, NEW C, Keeps(m, s, C), NEW n, n = Free(m, "index_real_path"),
           s["index_real_path"] = "index", s["real_path"] = "real", s["file_path"] = "real",
           NEW t, \A p \in Pointers : t[p] = IF p = "index_real_path" THEN "gone" ELSE s[p]
    PROVE  Keeps(n, t, C)
  <1> DEFINE Q == {"index_real_path"}
             x == m.ptr["index_real_path"]
  <1>1. "index_real_path" \in Pointers /\ s["index_real_path"] \in Freeable
    BY PointersAre DEF Freeable
  <1>2. ASSUME NEW q \in Pointers \ Q, x \in m.heap
        PROVE  m.ptr[q] # x
    <2>1. /\ Holds(m, q, s[q]) /\ NameFits(m.ptr[q], q)
          /\ Holds(m, "index_real_path", s["index_real_path"])
          /\ NameFits(x, "index_real_path") /\ x \in Blocks
      BY <1>1, <1>2, KeepsHeld
    <2>2. CASE q \in PathPointers
      <3>1. s[q] = "real"
        BY <1>2, <2>2, PointersAre
      <3>. QED  BY <2>1, <3>1 DEF Holds
    <2>3. CASE q \notin PathPointers
      BY <2>1, <2>3, PointersAre DEF NameFits
    <2>. QED  BY <2>2, <2>3
  <1>3. \A q \in Pointers \intersect Q : m.ptr[q] = x
    OBVIOUS
  <1>4. \A q \in Pointers : t[q] = IF q \in Q THEN "gone" ELSE s[q]
    OBVIOUS
  <1> HIDE DEF Q
  <1>. QED  BY <1>1, <1>2, <1>3, <1>4, FreeKeepsAll

LEMMA ListedKeeps ==
    ASSUME NEW m, NEW C, Keeps(m, Looked(C), C), "listing" \in C,
           NEW entry_there \in BOOLEAN, entry_there \/ "vanished" \in C,
           NEW dir_there \in BOOLEAN,
           NEW n, n = Listed(m, entry_there, dir_there)
    PROVE  Keeps(n, Served(C), C)
  <1> DEFINE s == Looked(C)
             s1 == [p \in Pointers |-> IF p = "body.data" THEN "live" ELSE s[p]]
             s2 == [p \in Pointers |->
                      IF p \in {"dirent", "namelist", "full_path"} THEN "gone"
                      ELSE IF p \in {"dir_info.name", "entry"} THEN "named"
                      ELSE IF p \in LsVariables THEN "live" ELSE s1[p]]
             s3 == [p \in Pointers |-> IF p \in {"entry", "files", "dir_info", "file_list"}
                                       THEN "gone" ELSE s2[p]]
             s4 == [p \in Pointers |-> IF p = "index_real_path" THEN "gone" ELSE s3[p]]
             m1 == Alloc(m, "body.data")
             m2 == ls(m1, entry_there, dir_there)
             m3 == free_file_list(m2)
  <1>1. n = Free(m3, "index_real_path")
    BY DEF Listed
  <1>2. /\ "body.data" \in Pointers \ {"file_path"} /\ "body.data" \notin PathPointers
        /\ s["body.data"] \in Empty /\ s1["body.data"] = "live"
        /\ \A p \in Pointers \ {"body.data"} : s1[p] = s[p]
    BY PointersAre DEF Looked, Start, Asked, Empty
  <1>3. \A p \in LsVariables : s1[p] = "none"
    BY PointersAre DEF LsVariables, Looked, Start, Asked
  <1>4. s2["entry"] = "named" /\ \A p \in {"files", "dir_info", "file_list"} : s2[p] = "live"
    BY PointersAre DEF LsVariables
  <1>5. /\ s3["index_real_path"] = "index" /\ s3["real_path"] = "real"
        /\ s3["file_path"] = "real"
    BY PointersAre DEF LsVariables, Looked, Start
  <1>6. ASSUME NEW p \in Pointers
        PROVE  Weakens(s4[p], Served(C)[p])
    <2>1. CASE p \in RequestPointers
      <3>1. s4[p] = Asked(C)[p] /\ Served(C)[p] = Asked(C)[p]
        BY <2>1, PointersAre DEF Looked, Start, Served, Answered, Variables, LsVariables
      <3>. QED  BY <3>1 DEF Weakens
    <2>2. CASE p \notin RequestPointers
      BY <2>2, PointersAre, ZenonT(30)
         DEF Weakens, Looked, Start, Served, Answered, Asked, Variables, LsVariables
    <2>. QED  BY <2>1, <2>2
  <1>7. /\ \A p \in Pointers :
              s2[p] = IF p \in {"dirent", "namelist", "full_path"} THEN "gone"
                      ELSE IF p \in {"dir_info.name", "entry"} THEN "named"
                      ELSE IF p \in LsVariables THEN "live" ELSE s1[p]
        /\ \A p \in Pointers : s3[p] = IF p \in {"entry", "files", "dir_info", "file_list"}
                                       THEN "gone" ELSE s2[p]
        /\ \A p \in Pointers : s4[p] = IF p = "index_real_path" THEN "gone" ELSE s3[p]
    OBVIOUS
  <1> HIDE DEF s, s1, s2, s3, s4
  <1>8. Keeps(m1, s1, C)
    BY <1>2, AllocKeeps DEF s
  <1> HIDE DEF m1
  <1>9. Keeps(m2, s2, C)
    BY <1>3, <1>7, <1>8, LsKeeps
  <1> HIDE DEF m2
  <1>10. Keeps(m3, s3, C)
    BY <1>4, <1>7, <1>9, FreeListKeeps
  <1> HIDE DEF m3
  <1>11. Keeps(n, s4, C)
    BY <1>1, <1>5, <1>7, <1>10, FreeIndexKeeps
  <1>. QED  BY <1>6, <1>11, KeepsLess

LEMMA ListedNothingKeeps ==
    ASSUME NEW m, NEW C, Keeps(m, Looked(C), C), "listing" \in C,
           NEW n, n = ListedNothing(m)
    PROVE  Keeps(n, Served(C), C)
  <1> DEFINE ps == <<"body.data", "dir">>
             s == Looked(C)
             s1 == [p \in Pointers |-> IF p \in {"body.data", "dir"} THEN "live" ELSE s[p]]
             s2 == [p \in Pointers |-> IF p = "index_real_path" THEN "gone" ELSE s1[p]]
             m1 == AllocAll(m, ps)
  <1>1. n = Free(m1, "index_real_path")
    BY DEF ListedNothing
  <1>2. ps \in Seq(Pointers \ PathPointers)
    BY PointersAre
  <1>3. \A i \in 1 .. Len(ps) : s[ps[i]] \in Empty /\ \A j \in 1 .. i - 1 : ps[j] # ps[i]
    BY PointersAre DEF Looked, Start, Asked, Empty
  <1>4. \A p \in Pointers : s1[p] = IF \E i \in 1 .. Len(ps) : ps[i] = p THEN "live" ELSE s[p]
    OBVIOUS
  <1>5. /\ s1["index_real_path"] = "index" /\ s1["real_path"] = "real"
        /\ s1["file_path"] = "real"
        /\ \A p \in Pointers : s2[p] = IF p = "index_real_path" THEN "gone" ELSE s1[p]
    BY PointersAre DEF Looked, Start
  <1>6. ASSUME NEW p \in Pointers
        PROVE  Weakens(s2[p], Served(C)[p])
    <2>1. CASE p \in RequestPointers
      <3>1. s2[p] = Asked(C)[p] /\ Served(C)[p] = Asked(C)[p]
        BY <2>1, PointersAre DEF Looked, Start, Served, Answered, Variables
      <3>. QED  BY <3>1 DEF Weakens
    <2>2. CASE p \notin RequestPointers
      BY <2>2, PointersAre, ZenonT(30)
         DEF Weakens, Looked, Start, Served, Answered, Asked, Variables
    <2>. QED  BY <2>1, <2>2
  <1> HIDE DEF ps, s, s1, s2
  <1>7. Keeps(m1, s1, C)
    BY <1>2, <1>3, <1>4, AllocAllKeeps DEF s
  <1> HIDE DEF m1
  <1>8. Keeps(n, s2, C)
    BY <1>1, <1>5, <1>7, FreeIndexKeeps
  <1>. QED  BY <1>6, <1>8, KeepsLess

-----------------------------------------------------------------------------
LEMMA FailedKeeps ==
    ASSUME NEW m, NEW C, Keeps(m, Start(C), C), "no_file" \in C,
           NEW n, n = read_file_info(m, "file.name", FALSE)
    PROVE  Keeps(n, Served(C), C) /\ Keeps(Alloc(n, "body.data"), Served(C), C)
  <1> DEFINE s == Start(C)
             s1 == [p \in Pointers |-> IF p = "file.name" THEN "named" ELSE s[p]]
             s2 == [p \in Pointers |-> IF p = "body.data" THEN "live" ELSE s1[p]]
             m2 == Alloc(n, "body.data")
  <1>1. /\ "file.name" \in Pointers \ PathPointers /\ s["file.name"] \in {"live", "named"}
        /\ CauseOf("file.name") \in C /\ FALSE \in BOOLEAN
        /\ s1["file.name"] = "named"
        /\ \A p \in Pointers \ {"file.name"} : s1[p] = s[p]
    BY PointersAre DEF Start, CauseOf
  <1>2. /\ "body.data" \in Pointers \ {"file_path"} /\ "body.data" \notin PathPointers
        /\ s1["body.data"] \in Empty /\ s2["body.data"] = "live"
        /\ \A p \in Pointers \ {"body.data"} : s2[p] = s1[p]
    BY PointersAre DEF Start, Asked, Empty
  <1>3. ASSUME NEW p \in Pointers
        PROVE  Weakens(s1[p], Served(C)[p]) /\ Weakens(s2[p], Served(C)[p])
    <2>1. CASE p \in RequestPointers
      <3>1. s1[p] = Asked(C)[p] /\ s2[p] = Asked(C)[p] /\ Served(C)[p] = Asked(C)[p]
        BY <2>1, PointersAre DEF Start, Served, Answered, Variables
      <3>. QED  BY <3>1 DEF Weakens
    <2>2. CASE p \notin RequestPointers
      BY <2>2, PointersAre, ZenonT(30)
         DEF Weakens, Start, Served, Answered, Asked, Variables
    <2>. QED  BY <2>1, <2>2
  <1> HIDE DEF s, s1, s2
  <1>4. Keeps(n, s1, C)
    BY <1>1, ReadInfoKeeps DEF s
  <1>5. Keeps(m2, s2, C)
    <2>1. m2 = Alloc(n, "body.data")
      OBVIOUS
    <2> HIDE DEF m2
    <2>. QED  BY <1>2, <1>4, <2>1, AllocKeeps
  <1> HIDE DEF m2
  <1>6. Keeps(n, Served(C), C)
    BY <1>3, <1>4, KeepsLess
  <1>7. Keeps(m2, Served(C), C)
    BY <1>3, <1>5, KeepsLess
  <1>. QED  BY <1>6, <1>7 DEF m2

LEMMA OutcomesKeep ==
    ASSUME NEW m, NEW C, Keeps(m, Asked(C), C), NEW r, r.target \in TargetKinds,
           NEW o \in Outcomes(m, r), NEW D, D = C \union o.causes
    PROVE  Keeps(o.mem, Served(D), D)
  <1> DEFINE start == Resolved(m)
  <1>1. Keeps(start, Start(D), D)
    <2>1. \A p \in Pointers : Weakens(Asked(C)[p], Asked(D)[p])
      BY PointersAre DEF Asked, Weakens
    <2>2. C \subseteq D
      OBVIOUS
    <2>3. Keeps(m, Asked(D), D)
      BY <2>1, <2>2, KeepsLess
    <2>. QED  BY <2>3, ResolvedKeeps
  <1> HIDE DEF start
  <1>2. CASE r.target \in {"missing", "unreadable"}
    <2> DEFINE failed == read_file_info(start, "file.name", FALSE)
               last == IF r.target = "missing" /\ r.method # "HEAD"
                       THEN Alloc(failed, "body.data") ELSE failed
    <2>1. Outcomes(m, r) = {Outcome(last, {"no_file"})}
      <3>1. CASE r.target = "missing" /\ r.method # "HEAD"
        <4>1. Outcomes(m, r) = {Outcome(Alloc(failed, "body.data"), {"no_file"})}
          BY <3>1 DEF Outcomes, start
        <4>. QED  BY <3>1, <4>1
      <3>2. CASE r.target = "missing" /\ r.method = "HEAD"
        <4>1. Outcomes(m, r) = {Outcome(failed, {"no_file"})}
          BY <3>2 DEF Outcomes, start
        <4>. QED  BY <3>2, <4>1
      <3>3. CASE r.target = "unreadable"
        <4>1. Outcomes(m, r) = {Outcome(failed, {"no_file"})}
          BY <3>3 DEF Outcomes, start
        <4>. QED  BY <3>3, <4>1
      <3>. QED  BY <1>2, <3>1, <3>2, <3>3
    <2>2. "no_file" \in D /\ o.mem = last
      <3> HIDE DEF last
      <3>. QED  BY <2>1 DEF Outcome
    <2>3. failed = read_file_info(start, "file.name", FALSE)
      OBVIOUS
    <2> HIDE DEF failed
    <2>4. Keeps(failed, Served(D), D) /\ Keeps(Alloc(failed, "body.data"), Served(D), D)
      BY <1>1, <2>2, <2>3, FailedKeeps
    <2>. QED  BY <2>2, <2>4 DEF last
  <1>3. CASE r.target = "dir_bare"
    <2>1. o = Outcome(start, {})
      BY <1>3 DEF Outcomes, start
    <2>2. o.mem = start
      BY <2>1 DEF Outcome
    <2>. QED  BY <1>1, <2>2, StartIsServed
  <1>4. CASE r.target = "file"
    <2>1. o \in {Outcome(start, {}), Outcome(IndexFound(WithIndex(start)), {})}
      BY <1>4 DEF Outcomes, start
    <2>2. o.mem = start \/ o.mem = IndexFound(WithIndex(start))
      BY <2>1 DEF Outcome
    <2>3. Keeps(start, Served(D), D)
      BY <1>1, StartIsServed
    <2>4. Keeps(IndexFound(WithIndex(start)), Served(D), D)
      BY <1>1, WithIndexKeeps, IndexFoundKeeps
    <2>. QED  BY <2>2, <2>3, <2>4
  <1>5. CASE r.target = "dir"
    <2>1. PICK w \in WithoutIndex(start), entry \in BOOLEAN, dir \in BOOLEAN :
            o = Outcome(Listed(w.mem, entry, dir),
                        w.causes \union {"listing"} \union If(~entry, "vanished"))
      BY <1>5 DEF Outcomes, start
    <2>2. /\ o.mem = Listed(w.mem, entry, dir)
          /\ o.causes = w.causes \union {"listing"} \union If(~entry, "vanished")
      BY <2>1 DEF Outcome
    <2>3. w.causes \subseteq D /\ "listing" \in D /\ (entry \/ "vanished" \in D)
      BY <2>2 DEF If
    <2>4. Keeps(w.mem, Looked(D), D)
      BY <1>1, <2>3, WithoutIndexKeeps
    <2>. QED  BY <2>2, <2>3, <2>4, ListedKeeps
  <1>6. CASE r.target = "dir_gone"
    <2>1. PICK w \in WithoutIndex(start) :
            o = Outcome(ListedNothing(w.mem), w.causes \union {"listing"})
      BY <1>6 DEF Outcomes, start
    <2>2. o.mem = ListedNothing(w.mem) /\ w.causes \subseteq D /\ "listing" \in D
      BY <2>1 DEF Outcome
    <2>3. Keeps(w.mem, Looked(D), D)
      BY <1>1, <2>2, WithoutIndexKeeps
    <2>. QED  BY <2>2, <2>3, ListedNothingKeeps
  <1>. QED  BY <1>2, <1>3, <1>4, <1>5, <1>6 DEF TargetKinds

LEMMA ReturnedKeeps ==
    ASSUME NEW m, NEW C, Keeps(m, Served(C), C)
    PROVE  Keeps(Returned(m), Answered(C), C)
  <1> DEFINE m1 == Free(m, "decoded_http_path")
             s == Served(C)
             s1 == [p \in Pointers |-> IF p = "decoded_http_path" THEN "gone" ELSE s[p]]
             t == Answered(C)
  <1>1. Returned(m) = Forget(m1, Variables)
    BY DEF Returned
  <1>2. /\ "decoded_http_path" \in Pointers /\ s["decoded_http_path"] \in Freeable
        /\ Alone(s, "decoded_http_path") /\ s1["decoded_http_path"] = "gone"
        /\ \A p \in Pointers \ {"decoded_http_path"} : s1[p] = s[p]
    BY PointersAre DEF Served, Freeable, Alone
  <1>3. \A p \in Pointers \intersect Variables :
           \/ s1[p] \in Empty
           \/ p \notin PathPointers /\ CauseOf(p) \in C
           \/ s1[p] = "spent" /\ "file_path" \notin Variables
    BY PointersAre DEF Served, Variables, CauseOf, Empty
  <1>4. "file_path" \notin Variables
    BY DEF Variables
  <1>5. \A p \in Pointers : t[p] = IF p \in Variables THEN "none" ELSE s1[p]
    BY PointersAre DEF Served, Answered, Asked, Variables
  <1> HIDE DEF s, s1, t
  <1>6. Keeps(m1, s1, C)
    BY <1>2, FreeKeeps DEF s
  <1> HIDE DEF m1
  <1>7. Keeps(Returned(m), t, C)
    BY <1>1, <1>3, <1>4, <1>5, <1>6, ForgetKeeps
  <1>. QED  BY <1>7 DEF t

-----------------------------------------------------------------------------
(* A response that was made is never the one that was not.                 *)
Answer(r) == /\ r = [status |-> r.status, ended |-> r.ended, length |-> r.length,
                     body |-> r.body, file |-> r.file, range_start |-> r.range_start,
                     range_end |-> r.range_end, head_nbytes_sent |-> r.head_nbytes_sent,
                     body_nbytes_sent |-> r.body_nbytes_sent]
             /\ r.status # 0

LEMMA AnswerIsNotNull == ASSUME NEW r, Answer(r) PROVE r # NULL
  BY DEF Answer, NULL, Response

LEMMA ResponsesAreAnswers ==
    ASSUME req \in Requests, NEW r \in make_http_response(req)
    PROVE  Answer(r)
  <1>1. req.target \in TargetKinds
    BY ExchangeAssumption DEF Requests
  <1>2. CASE req.target = "missing"
    <2>1. r \in NotFound(req)
      BY <1>2 DEF make_http_response
    <2>2. PICK j \in Junk :
            r = Response(404, TRUE, NotFoundLen,
                         IF req.method = "HEAD" THEN NotGiven ELSE NotFoundLen, "null", j[1], j[2])
      BY <2>1 DEF NotFound
    <2>. QED  BY <2>2 DEF Answer, Response
  <1>3. CASE req.target = "unreadable"
    <2>1. r \in FatalError(req)
      BY <1>3 DEF make_http_response
    <2>2. PICK j \in Junk :
            r = Response(500, TRUE, NotGiven, NotGiven, "null", j[1], j[2])
      BY <2>1 DEF FatalError
    <2>. QED  BY <2>2 DEF Answer, Response
  <1>4. CASE req.target = "dir_bare"
    <2>1. r \in Redirect(req)
      BY <1>4 DEF make_http_response
    <2>2. PICK j \in Junk :
            r = Response(301, FALSE, NotGiven, NotGiven, "dir", j[1], j[2])
      BY <2>1 DEF Redirect
    <2>. QED  BY <2>2 DEF Answer, Response
  <1>5. CASE req.target = "dir"
    <2>1. r = Response(200, TRUE, ListLen, ListLen, "dir",
                      Given(req.start, 0), Given(req.end, ListLen - 1))
      BY <1>5 DEF make_http_response, Listing
    <2>. QED  BY <2>1 DEF Answer, Response
  <1>6. CASE req.target = "dir_gone"
    <2>1. r = Response(500, FALSE, NotGiven, 0, "dir",
                      Given(req.start, 0), Given(req.end, -1))
      BY <1>6 DEF make_http_response, ListingFails
    <2>. QED  BY <2>1 DEF Answer, Response
  <1>7. CASE req.target = "file"
    <2>1. \/ r = Response(206, TRUE, FileSize, NotGiven, "file",
                          Given(req.start, 0), Given(req.end, FileSize - 1))
          \/ r = Response(200, TRUE, FileSize, NotGiven, "file",
                          Given(req.start, 0), Given(req.end, FileSize - 1))
      <3>1. r \in WholeFile(req)
        BY <1>7 DEF make_http_response
      <3>2. CASE RangeIsGiven(req)
        BY <3>1, <3>2 DEF WholeFile
      <3>3. CASE ~RangeIsGiven(req)
        BY <3>1, <3>3 DEF WholeFile
      <3>. QED  BY <3>2, <3>3
    <2>. QED  BY <2>1 DEF Answer, Response
  <1>. QED  BY <1>1, <1>2, <1>3, <1>4, <1>5, <1>6, <1>7 DEF TargetKinds

LEMMA CountsAreAnswers ==
    ASSUME NEW r, Answer(r), NEW k, NEW q,
           \/ q = [r EXCEPT !.head_nbytes_sent = @ + k]
           \/ q = [r EXCEPT !.body_nbytes_sent = @ + k]
    PROVE  Answer(q)
  BY DEF Answer

LEMMA BodyStepAnswers ==
    ASSUME NEW r, Answer(r), BodyStep(r)
    PROVE  Answer(res') /\ state' \in {"WRITING_BODY", "READING", "CLOSING"}
  <1>1. CASE write_body(r)
    <2>1. PICK s \in send_buf(BodyLeft(r)) :
            \/ res' = r /\ Ends("CLOSING")
            \/ /\ res' = [r EXCEPT !.body_nbytes_sent = @ + s.ret]
               /\ Retries("WRITING_BODY") \/ Finishes
      BY <1>1 DEF write_body
    <2>2. Answer(res')
      BY <2>1, CountsAreAnswers
    <2>. QED  BY <2>1, <2>2, FinishesOrNot DEF Ends
  <1>2. CASE WriteFileDone(r) /\ res' = r
    BY <1>2, FinishesOrNot DEF WriteFileDone
  <1>3. CASE Ends("CLOSING") /\ res' = r
    BY <1>3 DEF Ends
  <1>. QED  BY <1>1, <1>2, <1>3 DEF BodyStep

LEMMA WriteHeadersAnswers ==
    ASSUME req \in Requests, res = NULL \/ Answer(res), WriteHeaders
    PROVE  Answer(res') /\ state' \in {"WRITING_HEADERS", "WRITING_BODY", "READING", "CLOSING"}
  <1>1. PICK made \in Responded, s \in send_buf(HeadLen - res.head_nbytes_sent) :
          LET r == [made EXCEPT !.head_nbytes_sent = @ + s.ret]
          IN  \/ Ends("CLOSING") /\ res' = made
              \/ Retries("WRITING_HEADERS") /\ res' = r
              \/ Finishes /\ res' = r
              \/ BodyStep(r)
    BY DEF WriteHeaders
  <1> DEFINE r == [made EXCEPT !.head_nbytes_sent = @ + s.ret]
  <1>2. Answer(made)
    BY <1>1, ResponsesAreAnswers DEF Responded
  <1>3. Answer(r)
    BY <1>2, CountsAreAnswers
  <1>4. \/ Ends("CLOSING") /\ res' = made
        \/ Retries("WRITING_HEADERS") /\ res' = r
        \/ Finishes /\ res' = r
        \/ BodyStep(r)
    BY <1>1
  <1> HIDE DEF r
  <1>. QED  BY <1>2, <1>3, <1>4, BodyStepAnswers, FinishesOrNot DEF Ends

(* Between requests a connection has nothing, or the part of one that came *)
(* already; while a response is written it has the request, and what was   *)
(* made of it.                                                             *)
MemInv ==
    /\ req \in Requests
    /\ state \in {"WRITING_HEADERS", "WRITING_BODY", "READING", "CLOSING"}
    /\ res = NULL \/ Answer(res)
    /\ state = "READING" => Keeps(mem, Idle, causes) \/ Keeps(mem, Partial, causes)
    /\ state = "CLOSING" => Keeps(mem, Idle, causes)
    /\ state \in {"WRITING_HEADERS", "WRITING_BODY"} =>
          Keeps(mem, IF res = NULL THEN Asked(causes) ELSE Answered(causes), causes)
    /\ state = "WRITING_BODY" => res # NULL

(* Whatever a connection is doing, it can be freed. *)
LEMMA AnyIsFreed ==
    ASSUME MemInv
    PROVE  Keeps(Freed(mem), Idle, causes)
  <1>1. \E s \in {Idle, Asked(causes), Answered(causes)} : Keeps(mem, s, causes)
    <2>1. CASE Keeps(mem, Idle, causes) \/ Keeps(mem, Asked(causes), causes)
                  \/ Keeps(mem, Answered(causes), causes)
      BY <2>1
    <2>2. CASE Keeps(mem, Partial, causes)
      <3>1. Keeps(mem, Asked(causes), causes)
        BY <2>2, UnfinishedIsAsked
      <3>. QED  BY <3>1
    <2>. QED  BY <2>1, <2>2 DEF MemInv
  <1>. QED  BY <1>1, FreedKeeps

LEMMA NothingIsIdle == ASSUME NEW C PROVE Keeps(NoMemory, Idle, C)
  <1>1. NoMemory \in Memories
    <2>1. IsFiniteSet({})
      BY FS_EmptySet
    <2>. QED  BY <2>1 DEF NoMemory, Memories
  <1>2. ASSUME NEW p \in Pointers
        PROVE  Holds(NoMemory, p, Idle[p]) /\ NameFits(NoMemory.ptr[p], p)
    <2>1. Idle[p] = "none" /\ NoMemory.ptr[p] = NoBlock
      BY DEF Idle, NoMemory
    <2>. QED  BY <2>1, NoBlockIsNone DEF Holds, NameFits
  <1>3. ~NoMemory.bad /\ NoMemory.heap = {}
    BY DEF NoMemory
  <1>. QED  BY <1>1, <1>2, <1>3 DEF Keeps

LEMMA MemInit == OwnInit => MemInv
  <1> SUFFICES ASSUME OwnInit
               PROVE  MemInv
    OBVIOUS
  <1>1. PICK headers \in HeaderLists :
          mem = Parsed(NoMemory, headers) /\ causes = HeaderCauses(headers)
    BY DEF OwnInit
  <1>2. headers \in Seq(HeaderFields) /\ causes = {} \union HeaderCauses(headers)
    BY <1>1, OwnershipAssumption
  <1>3. Keeps(mem, Asked(causes), causes)
    BY <1>1, <1>2, NothingIsIdle, ParsedKeeps
  <1>. QED  BY <1>3 DEF OwnInit, Init, MemInv

LEMMA ReceivePartKeepsMem == ASSUME MemInv, OwnReceivePart PROVE MemInv'
  <1>1. Keeps(mem', Partial, causes')
    BY WithRequestKeeps DEF MemInv, OwnReceivePart
  <1>. QED  BY <1>1 DEF MemInv, OwnReceivePart, vars

LEMMA ReceiveKeepsMem == ASSUME MemInv, OwnReceive PROVE MemInv'
  <1>1. PICK headers \in HeaderLists :
          mem' = Parsed(mem, headers) /\ causes' = causes \union HeaderCauses(headers)
    BY DEF OwnReceive, Asks
  <1>2. state = "READING" /\ headers \in Seq(HeaderFields)
    BY <1>1, OwnershipAssumption DEF OwnReceive, Receive
  <1>3. Keeps(mem', Asked(causes'), causes')
    BY <1>1, <1>2, ParsedKeeps DEF MemInv
  <1>. QED  BY <1>3 DEF MemInv, OwnReceive, Receive

LEMMA LineKeeps ==
    ASSUME NEW m, NEW C, Keeps(m, Partial, C), NEW parts \in LineParts
    PROVE  Keeps(AllocAll(m, parts), Asked(C), C)
  <1> DEFINE s == [p \in Pointers |-> IF \E i \in 1 .. Len(parts) : parts[i] = p
                                      THEN "live" ELSE Partial[p]]
  <1>1. /\ parts \in Seq(Pointers \ PathPointers)
        /\ \A i \in 1 .. Len(parts) :
              /\ parts[i] \in {"method", "path", "version_number"}
              /\ \A j \in 1 .. i - 1 : parts[j] # parts[i]
    <2>1. CASE parts = <<>>
      BY <2>1
    <2>2. CASE parts = <<"method">>
      BY <2>2, PointersAre
    <2>3. CASE parts = <<"method", "path">>
      BY <2>3, PointersAre
    <2>4. CASE parts = <<"method", "path", "version_number">>
      BY <2>4, PointersAre
    <2>. QED  BY <2>1, <2>2, <2>3, <2>4 DEF LineParts
  <1>2. \A i \in 1 .. Len(parts) :
           Partial[parts[i]] \in Empty /\ \A j \in 1 .. i - 1 : parts[j] # parts[i]
    BY <1>1, PointersAre DEF Partial, Empty
  <1>3. \A p \in Pointers : s[p] = IF \E i \in 1 .. Len(parts) : parts[i] = p
                                   THEN "live" ELSE Partial[p]
    OBVIOUS
  <1>4. \A p \in Pointers : \/ s[p] = Partial[p]
                            \/ p \in {"method", "path", "version_number"} /\ s[p] = "live"
    BY <1>1
  <1> HIDE DEF s
  <1>5. Keeps(AllocAll(m, parts), s, C)
    BY <1>1, <1>2, <1>3, AllocAllKeeps
  <1>. QED  BY <1>4, <1>5, UnfinishedIsAsked

LEMMA RefuseKeepsMem == ASSUME MemInv, OwnRefuse PROVE MemInv'
  <1>1. PICK out \in Unparsed(mem) :
          mem' = Freed(out.mem) /\ causes' = causes \union out.causes
    BY DEF OwnRefuse
  <1>2. Keeps(mem, Idle, causes) \/ Keeps(mem, Partial, causes)
    BY DEF MemInv, OwnRefuse
  <1>3. Keeps(out.mem, Asked(causes'), causes')
    <2>1. CASE \E parts \in LineParts :
                  out = Outcome(AllocAll(WithRequest(mem), parts), {})
      <3>1. PICK parts \in LineParts : out = Outcome(AllocAll(WithRequest(mem), parts), {})
        BY <2>1
      <3>2. out.mem = AllocAll(WithRequest(mem), parts) /\ causes' = causes
        BY <1>1, <3>1 DEF Outcome
      <3>3. Keeps(WithRequest(mem), Partial, causes)
        BY <1>2, WithRequestKeeps
      <3>. QED  BY <3>2, <3>3, LineKeeps
    <2>2. CASE \E headers \in HeaderLists :
                  out = Outcome(Parsed(mem, headers), HeaderCauses(headers))
      <3>1. PICK headers \in HeaderLists :
                out = Outcome(Parsed(mem, headers), HeaderCauses(headers))
        BY <2>2
      <3>2. out.mem = Parsed(mem, headers) /\ causes' = causes \union HeaderCauses(headers)
        BY <1>1, <3>1 DEF Outcome
      <3>3. headers \in Seq(HeaderFields)
        BY OwnershipAssumption
      <3>. QED  BY <1>2, <3>2, <3>3, ParsedKeeps
    <2>. QED  BY <1>1, <2>1, <2>2 DEF Unparsed
  <1>4. Keeps(mem', Idle, causes')
    BY <1>1, <1>3, FreedKeeps
  <1>. QED  BY <1>4 DEF MemInv, OwnRefuse, Ends

LEMMA TimeOutKeepsMem == ASSUME MemInv, OwnTimeOut PROVE MemInv'
  <1>1. Keeps(mem', Idle, causes')
    BY AnyIsFreed DEF OwnTimeOut
  <1>. QED  BY <1>1 DEF MemInv, OwnTimeOut, Ends

LEMMA WriteHeadersKeepsMem == ASSUME MemInv, OwnWriteHeaders PROVE MemInv'
  <1>1. /\ Answer(res') /\ req' = req /\ req \in Requests
        /\ state' \in {"WRITING_HEADERS", "WRITING_BODY", "READING", "CLOSING"}
    BY WriteHeadersAnswers DEF MemInv, OwnWriteHeaders, WriteHeaders
  <1>2. res' # NULL
    BY <1>1, AnswerIsNotNull
  <1>3. state = "WRITING_HEADERS"
    BY DEF OwnWriteHeaders, WriteHeaders
  <1>4. PICK m : mem' = Kept(m) /\ Keeps(m, Answered(causes'), causes')
    <2>1. CASE res = NULL
      <3>1. PICK out \in Outcomes(mem, req) :
              mem' = Kept(Returned(out.mem)) /\ causes' = causes \union out.causes
        BY <2>1 DEF OwnWriteHeaders
      <3>2. Keeps(mem, Asked(causes), causes)
        BY <1>3, <2>1 DEF MemInv
      <3>3. req.target \in TargetKinds
        BY <1>1, ExchangeAssumption DEF Requests
      <3>4. Keeps(out.mem, Served(causes'), causes')
        BY <3>1, <3>2, <3>3, OutcomesKeep
      <3>5. Keeps(Returned(out.mem), Answered(causes'), causes')
        BY <3>4, ReturnedKeeps
      <3>. QED  BY <3>1, <3>5
    <2>2. CASE res # NULL
      <3>1. mem' = Kept(mem) /\ causes' = causes
        BY <2>2 DEF OwnWriteHeaders
      <3>2. Keeps(mem, Answered(causes), causes)
        BY <1>3, <2>2 DEF MemInv
      <3>. QED  BY <3>1, <3>2
    <2>. QED  BY <2>1, <2>2
  <1>5. CASE state' \in {"READING", "CLOSING"}
    <2>1. mem' = Freed(m)
      BY <1>4, <1>5 DEF Kept
    <2>2. Keeps(mem', Idle, causes')
      BY <1>4, <2>1, FreedKeeps
    <2>. QED  BY <1>1, <1>5, <2>2 DEF MemInv
  <1>6. CASE state' \in {"WRITING_HEADERS", "WRITING_BODY"}
    <2>1. mem' = m
      BY <1>4, <1>6 DEF Kept
    <2>. QED  BY <1>1, <1>2, <1>4, <1>6, <2>1 DEF MemInv
  <1>. QED  BY <1>1, <1>5, <1>6

LEMMA WriteBodyKeepsMem == ASSUME MemInv, OwnWriteBody PROVE MemInv'
  <1>1. /\ state = "WRITING_BODY" /\ req' = req /\ req \in Requests
        /\ mem' = Kept(mem) /\ causes' = causes /\ BodyStep(res)
        /\ Answer(res) /\ Keeps(mem, Answered(causes), causes)
    BY DEF MemInv, OwnWriteBody, WriteBody
  <1>2. Answer(res') /\ state' \in {"WRITING_BODY", "READING", "CLOSING"}
    BY <1>1, BodyStepAnswers
  <1>3. res' # NULL
    BY <1>2, AnswerIsNotNull
  <1>4. CASE state' \in {"READING", "CLOSING"}
    <2>1. Keeps(mem', Idle, causes')
      BY <1>1, <1>4, AnyIsFreed DEF Kept
    <2>. QED  BY <1>1, <1>2, <1>4, <2>1 DEF MemInv
  <1>5. CASE state' = "WRITING_BODY"
    <2>1. mem' = mem
      BY <1>1, <1>5 DEF Kept
    <2>. QED  BY <1>1, <1>2, <1>3, <1>5, <2>1 DEF MemInv
  <1>. QED  BY <1>2, <1>4, <1>5

LEMMA MemStep == MemInv /\ [OwnNext]_allVars => MemInv'
  <1> SUFFICES ASSUME MemInv, [OwnNext]_allVars
               PROVE  MemInv'
    OBVIOUS
  <1>1. CASE OwnReceivePart
    BY <1>1, ReceivePartKeepsMem
  <1>2. CASE OwnReceive
    BY <1>2, ReceiveKeepsMem
  <1>3. CASE OwnRefuse
    BY <1>3, RefuseKeepsMem
  <1>4. CASE OwnTimeOut
    BY <1>4, TimeOutKeepsMem
  <1>5. CASE OwnWriteHeaders
    BY <1>5, WriteHeadersKeepsMem
  <1>6. CASE OwnWriteBody
    BY <1>6, WriteBodyKeepsMem
  <1>7. CASE UNCHANGED allVars
    BY <1>7 DEF MemInv, allVars, vars
  <1>. QED  BY <1>1, <1>2, <1>3, <1>4, <1>5, <1>6, <1>7 DEF OwnNext, OwnDone

LEMMA MemInvHolds == OwnSpec => []MemInv
  BY MemInit, MemStep, PTL DEF OwnSpec

(* In each of these memories every pointer is alive.                       *)
LEMMA KeptIsSound ==
    ASSUME NEW m, NEW C, \E s \in {Idle, Partial, Asked(C), Answered(C)} : Keeps(m, s, C)
    PROVE  Sound(m) /\ {CauseOf(block) : block \in Leaked(m)} \subseteq C
  <1>1. PICK s \in {Idle, Partial, Asked(C), Answered(C)} : Keeps(m, s, C)
    OBVIOUS
  <1>2. \A p \in Pointers : s[p] \in {"none", "live", "held", "named"}
    BY <1>1, PointersAre DEF Idle, Partial, Asked, Answered
  <1>3. \A p \in Pointers : m.ptr[p] \in m.heap \union {NoBlock, Static}
    BY <1>1, <1>2, KeepsHeld DEF Holds
  <1>4. DOMAIN m.ptr = Pointers /\ ~m.bad
    BY <1>1, KeepsHeld, MemoryIs
  <1>5. Sound(m)
    BY <1>3, <1>4 DEF Sound, Range
  <1>6. ASSUME NEW b \in m.heap, b \notin Range(m.ptr)
        PROVE  CauseOf(b[1]) \in C
    <2>1. \A p \in Pointers : m.ptr[p] # b
      BY <1>4, <1>6 DEF Range
    <2>. QED  BY <1>1, <2>1, KeepsHeld
  <1>. QED  BY <1>5, <1>6 DEF Leaked

LEMMA MemInvIsSound == MemInv => PointersAreAlive /\ LeaksHaveCauses
  <1> SUFFICES ASSUME MemInv
               PROVE  PointersAreAlive /\ LeaksHaveCauses
    OBVIOUS
  <1>1. \E s \in {Idle, Partial, Asked(causes), Answered(causes)} : Keeps(mem, s, causes)
    BY DEF MemInv
  <1>. QED  BY <1>1, KeptIsSound DEF PointersAreAlive, LeaksHaveCauses

(* However a connection ends, at any point of any of its requests,         *)
(* free_http_request and free_http_response (http.c) free no block twice,  *)
(* and no pointer is used that was freed: neither res->file_path, that     *)
(* make_http_response hands from one path to another, nor a file's name.   *)
THEOREM NothingFreedTwice == OwnSpec => []PointersAreAlive
  <1>1. MemInv => PointersAreAlive
    BY MemInvIsSound
  <1>. QED  BY <1>1, MemInvHolds, PTL

(* What a connection leaves behind is what the known causes account for,   *)
(* for any headers in any order and any number of requests: a header's     *)
(* value, a missing file's name, what ls (dir.c) keeps of each listing.    *)
THEOREM LeaksAreAccounted == OwnSpec => []LeaksHaveCauses
  <1>1. MemInv => LeaksHaveCauses
    BY MemInvIsSound
  <1>. QED  BY <1>1, MemInvHolds, PTL
=============================================================================
