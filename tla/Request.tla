------------------------------ MODULE Request ------------------------------
(***************************************************************************)
(* A request that arrives in parts, in CONN_STATE_READING (mimino.c:554):  *)
(* read_request receives a part each time, and the request is parsed when  *)
(* is_http_end finds its end or the client closes its side, which it may   *)
(* do early.  Then it is answered, or the connection closed.               *)
(***************************************************************************)
EXTENDS RequestParser

CONSTANTS Requests, \* what clients mean to ask: see RequestText
          BufSize   \* MAX_REQUEST_SIZE

(* The number that digits stand for. *)
Number(digits) ==
    LET upto[i \in 0 .. Len(digits)] ==
            IF i = 0 THEN 0 ELSE 10 * upto[i - 1] + DigitValue(digits[i])
    IN  IF digits = <<>> THEN NotGiven ELSE upto[Len(digits)]

(* A request is a method, a path and its headers, no two of one name, each *)
(* with its value, which is the rest of a line, and the digits of the      *)
(* range's start and end that it stands for, numbers that a long long has  *)
(* room for, with any number of zeros before them.                         *)
InLine == STRING \ {"CR", "LF", "NUL"}
Header == [name : Seq(NameChar), value : Seq(InLine), start : Seq(Digit), end : Seq(Digit)]
StandsForRange(h) ==
    \/ h.value = <<"bytes=">> \o h.start \o <<"-">> \o h.end
    \/ /\ h.start = <<>> /\ h.end = <<>>
       /\ \/ h.value = <<>>
          \/ Head(h.value) # "bytes="
          \/ Tail(h.value) \in Seq(Digit)
ASSUME RequestAssumption ==
    /\ BufSize \in Nat \ {0}
    /\ \A r \in Requests :
           /\ r.method \in Seq(Upper) \ {<<>>}
           /\ r.path \in Seq(PathChar) \ {<<>>}
           /\ r.headers \in Seq(Header)
           /\ \A i, j \in DOMAIN r.headers :
                 r.headers[i].name = r.headers[j].name => i = j
           /\ \A i \in DOMAIN r.headers :
                 r.headers[i].name = <<"Range">> =>
                     /\ StandsForRange(r.headers[i])
                     /\ Number(r.headers[i].start) <= LLONG_MAX
                     /\ Number(r.headers[i].end) <= LLONG_MAX

Line(header) == header.name \o <<":", " ">> \o header.value \o <<"CR", "LF">>
RequestLine(r) ==
    r.method \o <<" ">> \o r.path \o <<" ", "HTTP", "/", "1", ".", "1", "CR", "LF">>
RequestText(r) ==
    RequestLine(r) \o FlattenSeq([i \in DOMAIN r.headers |-> Line(r.headers[i])])
                   \o <<"CR", "LF">>

VARIABLES meant, \* what the client means to ask
          buf,   \* req->buf
          req,   \* the fields that were parsed
          state, \* conn->state
          keep_alive

requestVars == <<meant, buf, req, state, keep_alive>>

RequestInit == /\ meant \in Requests
               /\ buf = <<>>
               /\ req = NoRequest
               /\ state = "READING"
               /\ keep_alive = TRUE

(* What has not arrived yet *)
Rest == SubSeq(RequestText(meant), Len(buf) + 1, Len(RequestText(meant)))

-----------------------------------------------------------------------------
(* With an error, the essential fields have to be there all the same. *)
Answered(r) == ~r.error \/ (\A f \in {"method", "path", "host"} : r[f] # Null)

(* R_COMPLETE_READ. The place behind the text is of the buffer's memory,  *)
(* and was not written.                                                   *)
Complete == \E junk \in {"LF", "word"} :
    LET r == parse_http_request(buf', junk)
    IN  /\ req' = r
        /\ state' = IF Answered(r) THEN "WRITING_HEADERS" ELSE "CLOSING"
        /\ keep_alive' = IF Answered(r) THEN r.connection # <<"close">> ELSE keep_alive
        /\ UNCHANGED meant

Receive(part) ==
    /\ state = "READING"
    /\ Len(buf) + Len(part) <= BufSize
    /\ buf' = buf \o part
    /\ \/ is_http_end(buf') /\ Complete
       \/ /\ ~is_http_end(buf')
          /\ state' = IF Len(buf') = BufSize THEN "CLOSING" ELSE state
          /\ UNCHANGED <<meant, req, keep_alive>>

(* The client closes its side: recv() returns 0. *)
Eof == /\ state = "READING"
       /\ UNCHANGED buf
       /\ \/ /\ buf = <<>>
             /\ state' = "CLOSING"
             /\ UNCHANGED <<meant, req, keep_alive>>
          \/ buf # <<>> /\ Complete

RequestNext ==
    \/ LET rest == Rest
       IN  \E n \in 1 .. Len(rest) : Receive(SubSeq(rest, 1, n))
    \/ Eof
    \/ state # "READING" /\ UNCHANGED requestVars

RequestSpec == RequestInit /\ [][RequestNext]_requestVars

-----------------------------------------------------------------------------
(* The fields that the first n of a request's headers give: what is meant, *)
(* and not its text.                                                       *)
ValueOf(r, n, name, field, none) ==
    IF \E i \in 1 .. n : r.headers[i].name = name
    THEN r.headers[CHOOSE i \in 1 .. n : r.headers[i].name = name][field]
    ELSE none
FieldsOf(r, n) ==
    [method      |-> r.method,
     path        |-> r.path,
     host        |-> ValueOf(r, n, <<"Host">>, "value", Null),
     connection  |-> ValueOf(r, n, <<"Connection">>, "value", Null),
     range_start |-> Number(ValueOf(r, n, <<"Range">>, "start", <<>>)),
     range_end   |-> Number(ValueOf(r, n, <<"Range">>, "end", <<>>)),
     error       |-> FALSE]
Fields == FieldsOf(meant, Len(meant.headers))

(* However a request comes in parts, it is parsed once all of it is there  *)
(* and taken for complete only then, and its fields are then the ones that *)
(* were meant, whatever the order of its headers.                          *)
PartsDontMatter == is_http_end(buf) \/ buf = RequestText(meant) =>
                       state # "READING" /\ req = Fields

(* A request is parsed before its end has arrived only if its client has  *)
(* closed its side: no part that happens to arrive alone looks complete.  *)
NotBeforeTheEnd ==
    [][state = "READING" /\ state' = "WRITING_HEADERS" /\ buf' # buf
          => buf' = RequestText(meant)]_requestVars

(* What was parsed of a request that is cut off is not cut off itself:    *)
(* each field is as it was meant or not given, never half of a path or of *)
(* a range's end.                                                         *)
NothingHalf == \A field \in DOMAIN NoRequest \ {"error"} :
                   req[field] \in {Fields[field], NoRequest[field]}
=============================================================================
