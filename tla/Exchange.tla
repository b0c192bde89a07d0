------------------------------ MODULE Exchange ------------------------------
(***************************************************************************)
(* Requests on one connection and their responses, byte by byte:           *)
(* make_http_response (http.c:467), write_headers and write_body           *)
(* (mimino.c:311), from each parsed request to the next one or the end of  *)
(* the connection.  The question is whether a client that reads the        *)
(* response on a connection that is kept alive finds where it ends.        *)
(*                                                                         *)
(* A byte is its place in the head or in the body.  What write_file sends, *)
(* FileTransfer shows in detail; here it is one step.                      *)
(***************************************************************************)
EXTENDS SendBuf, SequencesExt

CONSTANTS FileSize,    \* the length of the file that is served
          ListLen,     \* the length of a directory's listing
          NotFoundLen, \* the length of the text sent with a 404
          HeadLen,     \* the length of a head
          MaxTries,    \* write_tries_left at first: 5
          Targets,     \* what the requests' paths lead to: see TargetKinds
          RangeBounds  \* what the requests' ranges start and end with

NotGiven == -1
TargetKinds == {"missing",    \* read_file_info returns -1
                "unreadable", \* read_file_info returns -2
                "file",       \* a file, or a directory with an index file
                "dir",        \* a directory that is listed
                "dir_gone",   \* one that ls() fails on
                "dir_bare"}   \* one requested without the slash at the end

ASSUME ExchangeAssumption ==
    /\ {HeadLen, MaxTries, ListLen, NotFoundLen} \subseteq Nat \ {0}
    /\ FileSize \in Nat
    /\ Targets \subseteq TargetKinds
    /\ RangeBounds \subseteq Nat \union {NotGiven}

VARIABLES req,              \* the parsed request, and what its path leads to
          res,              \* the response, NULL until the socket can be written to
          state,            \* conn->state
          write_tries_left,
          head_wire,        \* the bytes that were sent of this response's head
          body_wire         \* and those of the body or file

vars == <<req, res, state, write_tries_left, head_wire, body_wire>>

-----------------------------------------------------------------------------
(* make_http_response. `status` is the code; `ended` is whether the head   *)
(* has its last empty line; `length` is Content-Length, `body` the body's  *)
(* length and `file` what file_path names, each -1 or "null" if there is   *)
(* none.                                                                   *)
Response(status, ended, length, body, file, start, end) ==
    [status |-> status, ended |-> ended, length |-> length, body |-> body,
     file |-> file, range_start |-> start, range_end |-> end,
     head_nbytes_sent |-> 0, body_nbytes_sent |-> 0]

NULL == Response(0, FALSE, NotGiven, NotGiven, "null", 0, 0)

(* A range that is never assigned holds what malloc() left there. *)
Junk == (0 .. 1) \X (0 .. 1)

Given(bound, default) == IF bound = NotGiven THEN default ELSE bound

NotFound(r) ==
    {Response(404, TRUE, NotFoundLen,
              IF r.method = "HEAD" THEN NotGiven ELSE NotFoundLen, "null", j[1], j[2]) :
        j \in Junk}
FatalError(r) ==
    {Response(500, TRUE, NotGiven, NotGiven, "null", j[1], j[2]) : j \in Junk}
Redirect(r) == {Response(301, FALSE, NotGiven, NotGiven, "dir", j[1], j[2]) : j \in Junk}

(* The listing is made into the body, whose length is announced; when     *)
(* ls() fails the head is a line and the body is empty.                   *)
Listing(r) == {Response(200, TRUE, ListLen, ListLen, "dir",
                        Given(r.start, 0), Given(r.end, ListLen - 1))}
ListingFails(r) == {Response(500, FALSE, NotGiven, 0, "dir",
                             Given(r.start, 0), Given(r.end, -1))}

RangeIsGiven(r) == r.start # NotGiven \/ r.end # NotGiven
WholeFile(r) ==
    {Response(IF RangeIsGiven(r) THEN 206 ELSE 200, TRUE, FileSize, NotGiven, "file",
              Given(r.start, 0), Given(r.end, FileSize - 1))}

make_http_response(r) ==
    CASE r.target = "missing"    -> NotFound(r)
      [] r.target = "unreadable" -> FatalError(r)
      [] r.target = "dir_bare"   -> Redirect(r)
      [] r.target = "dir"        -> Listing(r)
      [] r.target = "dir_gone"   -> ListingFails(r)
      [] r.target = "file"       -> WholeFile(r)

Requests == [method : {"GET", "HEAD"}, target : Targets, start : RangeBounds,
             end : RangeBounds, keep_alive : BOOLEAN]

Init == /\ req \in Requests
        /\ res = NULL
        /\ state = "WRITING_HEADERS"
        /\ write_tries_left = MaxTries
        /\ head_wire = <<>>
        /\ body_wire = <<>>

-----------------------------------------------------------------------------
(* What n bytes sent from a buffer's place `from` on put on the wire. *)
Shifted(wire, from) == [i \in DOMAIN wire |-> from + wire[i]]

Ends(next) == state' = next /\ UNCHANGED write_tries_left

(* CONN_STATE_WRITING_FINISHED. *)
Finishes == Ends(IF req.keep_alive THEN "READING" ELSE "CLOSING")

(* A partial write costs a try; without any left the connection is closed. *)
Retries(same) ==
    \/ write_tries_left = 0 /\ Ends("CLOSING")
    \/ /\ write_tries_left > 0
       /\ write_tries_left' = write_tries_left - 1
       /\ state' = same

(* Mutants of the next two definitions: a byte is counted for a null, and *)
(* the start of the range is forgotten.                                   *)
BodyLeftWithNull(r) == LET len == r.range_end + 2 - r.body_nbytes_sent
                       IN  IF len < 0 THEN 0 ELSE len
BodyFromZero(r) == r.body_nbytes_sent

(* write_body. The length is range_end + 1 less what was sent, wherever    *)
(* the range starts.                                                      *)
BodyLeft(r) == LET len == r.range_end + 1 - r.body_nbytes_sent
               IN  IF len < 0 THEN 0 ELSE len

BodyFrom(r) == r.range_start + r.body_nbytes_sent

write_body(r) ==
    \E s \in send_buf(BodyLeft(r)) :
        IF s.ret = -1
        THEN /\ Ends("CLOSING")
             /\ res' = r
             /\ body_wire' = body_wire \o Shifted(s.wire, BodyFrom(r))
        ELSE /\ res' = [r EXCEPT !.body_nbytes_sent = @ + s.ret]
             /\ body_wire' = body_wire \o Shifted(s.wire, BodyFrom(r))
             /\ IF r.range_start + res'.body_nbytes_sent < r.range_end + 1
                THEN Retries("WRITING_BODY")
                ELSE Finishes

(* write_file, when it says it is complete: every byte from the start of   *)
(* the range to the end of the file is sent; or, if a call starts exactly *)
(* at range_end, those before it. (FileTransfer has this in detail, and    *)
(* what is lost of a file when a send() takes a part.) A directory can be  *)
(* opened, and not read; a response without a file is never complete.      *)
WriteFileDone(r) ==
    LET from == IF r.file = "dir" THEN 0 ELSE r.range_start
    IN  /\ r.file # "null"
        /\ \E stop \in (IF r.file = "file" THEN {FileSize, r.range_end}
                        ELSE {r.range_end}) :
              /\ r.file = "dir" => stop = from
              /\ stop = r.range_end => from <= stop /\ stop <= FileSize
              /\ Finishes
              /\ body_wire' = body_wire \o [i \in 1 .. stop - from |-> from + i - 1]

(* CONN_STATE_WRITING_BODY, for the response r. *)
BodyStep(r) ==
    \/ r.body # NotGiven /\ write_body(r)
    \/ r.body = NotGiven /\ WriteFileDone(r) /\ res' = r
    \/ r.body = NotGiven /\ Ends("CLOSING") /\ res' = r /\ UNCHANGED body_wire

WriteBody == state = "WRITING_BODY" /\ BodyStep(res) /\ UNCHANGED <<req, head_wire>>

(* Mutant of the next definition: a head that is sent in part is taken for *)
(* sent.                                                                   *)
HeadIsBegun(r) == r.head_nbytes_sent >= 0

HeadIsSent(r) == r.head_nbytes_sent >= HeadLen
HasBody(r) == r.method # "HEAD"

(* CONN_STATE_WRITING_HEADERS: the response is made the first time; then   *)
(* write_headers, and as soon as the head is sent the first part of the    *)
(* body, which a HEAD request does not get.                                *)
Responded == IF res = NULL THEN make_http_response(req) ELSE {res}

WriteHeaders ==
    /\ state = "WRITING_HEADERS"
    /\ \E made \in Responded, s \in send_buf(HeadLen - res.head_nbytes_sent) :
          LET r == [made EXCEPT !.head_nbytes_sent = @ + s.ret]
          IN  /\ head_wire' = head_wire \o Shifted(s.wire, made.head_nbytes_sent)
              /\ \/ /\ s.ret = -1
                    /\ Ends("CLOSING")
                    /\ res' = made
                    /\ UNCHANGED body_wire
                 \/ /\ s.ret # -1 /\ ~HeadIsSent(r)
                    /\ Retries("WRITING_HEADERS")
                    /\ res' = r
                    /\ UNCHANGED body_wire
                 \/ /\ s.ret # -1 /\ HeadIsSent(r) /\ ~HasBody(req)
                    /\ Finishes
                    /\ res' = r
                    /\ UNCHANGED body_wire
                 \/ /\ s.ret # -1 /\ HeadIsSent(r) /\ HasBody(req)
                    /\ BodyStep(r)
    /\ UNCHANGED req

(* The next request is there, on a connection that recycle_connection has *)
(* reset.  (Until then the last response is kept, for what is said of it.) *)
Receive == /\ state = "READING"
           /\ req' \in Requests
           /\ res' = NULL
           /\ state' = "WRITING_HEADERS"
           /\ write_tries_left' = MaxTries
           /\ head_wire' = <<>>
           /\ body_wire' = <<>>

Closed == state = "CLOSING" /\ UNCHANGED vars

Next == WriteHeaders \/ WriteBody \/ Receive \/ Closed

Spec == Init /\ [][Next]_vars

-----------------------------------------------------------------------------
(* The head is sent whole and once, in as many parts as the socket takes   *)
(* it, and before anything else: no byte of the body goes out, and no      *)
(* further request is read, until the client has all of it.                *)
HeadComesFirst ==
    body_wire # <<>> \/ state = "READING" => head_wire = FirstBytes(HeadLen)

(* What is sent of a body in memory is consecutive, from the start of the  *)
(* range, over as many partial writes as it takes; "HEAD requests"         *)
(* (readme.md:6) get none of any body.                                     *)
BodyInOrder ==
    /\ res.body # NotGiven =>
          \A i \in DOMAIN body_wire : body_wire[i] = res.range_start + i - 1
    /\ req.method = "HEAD" => body_wire = <<>>

(* The connection is ready for another request, and the client can tell   *)
(* where this response ended: its head did, by an empty line, and as many *)
(* bytes followed as Content-Length says.                                 *)
EndIsClear == /\ res.ended
              /\ req.method # "HEAD" => Len(body_wire) = res.length

(* A listing is as long as its head says on a connection that goes on.    *)
ListingIsFramed ==
    state = "READING" /\ req.target = "dir" /\ ~RangeIsGiven(req) => EndIsClear

(* "Range/partial requests", "Connection keep-alive and timeouts"         *)
(* (readme.md:7): any response on a connection that goes on is as long as *)
(* its head says.                                                         *)
WellFramed == state = "READING" => EndIsClear
=============================================================================
