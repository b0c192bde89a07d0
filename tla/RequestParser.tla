--------------------------- MODULE RequestParser ---------------------------
(***************************************************************************)
(* What http.c:39-319 makes of a request: is_http_end finds its end, and   *)
(* parse_http_request its fields.                                          *)
(*                                                                         *)
(* A text is a sequence of symbols: a symbol is a byte, or a word that is  *)
(* only ever compared as a whole.  An operator gives the place where the   *)
(* code's pointer `r` comes to; a place behind the text means that         *)
(* SAFE_ADVANCE has returned, since it never moves a pointer there.        *)
(***************************************************************************)
EXTENDS Integers, Sequences, SequencesExt

CONSTANT LLONG_MAX \* the largest long long: 2^63 - 1

ASSUME LongLongAssumption == LLONG_MAX \in Nat \ {0}

(* is_digit, is_upper_ascii and the others, as the sets of what they accept *)
Digit == {"0", "1", "2", "9"}
Upper == {"GET", "HEAD", "HTTP"}
Alpha == Upper \union {"Host", "Connection", "Range", "Other", "close", "word"}
NameChar == Alpha \union {"-"}
PathChar == Alpha \union Digit \union {"/", ":", ".", "-"}
(* is_valid_http_path_char: strchr finds the null at a string's end, too.  *)
AcceptedInPath == PathChar \union {"NUL"}

(* The first place from i on whose symbol is not of a kind. *)
After(text, kind, i) ==
    IF i > Len(text) THEN i
    ELSE CHOOSE j \in i .. Len(text) + 1 : /\ j > Len(text) \/ text[j] \notin kind
                                           /\ \A k \in i .. j - 1 : text[k] \in kind

(* Mutant of the next definition: the end of any line ends the request. *)
EndsInLine(buf) == Len(buf) >= 4 /\ SubSeq(buf, Len(buf) - 1, Len(buf)) = <<"CR", "LF">>

(* A blank line at the very end, a null after it not counted. *)
is_http_end(buf) ==
    LET size == IF Len(buf) >= 5 /\ Last(buf) = "NUL" THEN Len(buf) - 1 ELSE Len(buf)
    IN  size >= 4 /\ SubSeq(buf, size - 3, size) = <<"CR", "LF", "CR", "LF">>

-----------------------------------------------------------------------------
(* What is not given is NULL, which an empty text is not, or no number.    *)
(* user_agent and accept, which nothing uses, are left out.               *)
Null == <<"null">>
NotGiven == -1
NoRequest == [method |-> Null, path |-> Null, host |-> Null, connection |-> Null,
              range_start |-> NotGiven, range_end |-> NotGiven, error |-> FALSE]

DigitValue(d) == CASE d = "0" -> 0 [] d = "1" -> 1 [] d = "2" -> 2 [] d = "9" -> 9

(* What a result that is too large is made of: C leaves it open, and the   *)
(* machine keeps the low bits.                                             *)
LL_VALUES == 2 * (LLONG_MAX + 1)
ToLongLong(n) == LET low == n % LL_VALUES
                 IN  IF low > LLONG_MAX THEN low - LL_VALUES ELSE low

ll_power(a, b) ==
    LET power[n \in 0 .. b] == IF n = 0 THEN 1 ELSE ToLongLong(a * power[n - 1])
    IN  power[b]

(* Mutant of the next definition: the powers are in the wrong order. *)
ConsumedFromLeft(text, i, j) ==
    LET num[n \in 0 .. j - i] ==
            IF n = 0 THEN 0
            ELSE ToLongLong(num[n - 1] +
                    ToLongLong(DigitValue(text[i + n - 1]) * ll_power(10, n - 1)))
    IN  num[j - i]

(* The number whose digits are at the places from i to before j. *)
consume_next_num(text, i, j) ==
    LET num[n \in 0 .. j - i] ==
            IF n = 0 THEN 0
            ELSE ToLongLong(num[n - 1] +
                    ToLongLong(DigitValue(text[i + n - 1]) * ll_power(10, (j - i) - n)))
    IN  num[j - i]

(* parse_range_header, for the value of one header.  Without a dash after *)
(* it a start is not given; a value that ends at the dash is enough.      *)
WithRange(req, value) ==
    LET dash == After(value, Digit, 2)
        hasDash == dash <= Len(value) /\ value[dash] = "-"
        stop == After(value, Digit, dash + 1)
    IN  IF Len(value) < 2 \/ value[1] # "bytes=" THEN req
        ELSE IF ~hasDash THEN [req EXCEPT !.range_start = NotGiven]
        ELSE [req EXCEPT
                !.range_start = IF dash = 2 THEN @ ELSE consume_next_num(value, 2, dash),
                !.range_end = IF stop <= dash + 1 THEN @
                              ELSE consume_next_num(value, dash + 1, stop)]

WithHeader(req, header) ==
    CASE header.name = <<"Host">>       -> [req EXCEPT !.host = header.value]
      [] header.name = <<"Connection">> -> [req EXCEPT !.connection = header.value]
      [] header.name = <<"Range">>      -> WithRange(req, header.value)
      [] OTHER                          -> req

-----------------------------------------------------------------------------
(* The request line, part by part. *)
MethodEnd(text) == After(text, Upper, 1)
HasMethod(text) == MethodEnd(text) \in 2 .. Len(text)

PathStart(text) == MethodEnd(text) + 1
PathEnd(text) == After(text, AcceptedInPath, PathStart(text))
(* xstrndup copies up to a null. *)
Path(text) == SubSeq(text, PathStart(text), After(text, PathChar, PathStart(text)) - 1)

(* Mutant of the next definition: a path may end where the text does. *)
HasPathStart(text) == /\ HasMethod(text)
                      /\ text[MethodEnd(text)] = " "
                      /\ PathEnd(text) > PathStart(text)

HasPath(text) == /\ HasMethod(text)
                 /\ text[MethodEnd(text)] = " "
                 /\ PathEnd(text) \in PathStart(text) + 1 .. Len(text)

can_handle_http_ver(ver) == ver \in {<<"0", ".", "9">>, <<"1", ".", "0">>, <<"1", ".", "1">>}

VersionStart(text) == PathEnd(text) + 3
VersionEnd(text) == After(text, Digit, After(text, Digit, VersionStart(text)) + 1)
HeadersStart(text) == VersionEnd(text) + 2
HasRequestLine(text) ==
    /\ HasPath(text)
    /\ HeadersStart(text) <= Len(text)
    /\ SubSeq(text, PathEnd(text), VersionStart(text) - 1) = <<" ", "HTTP", "/">>
    /\ can_handle_http_ver(SubSeq(text, VersionStart(text), VersionEnd(text) - 1))
    /\ SubSeq(text, VersionEnd(text), HeadersStart(text) - 1) = <<"CR", "LF">>

(* A header's name ends at its colon, its value at the end of the line. A  *)
(* symbol read behind the text is whatever the buffer holds there.        *)
IsLineEnd(text, junk, i) ==
    text[i] = "CR" /\ (IF i = Len(text) THEN junk ELSE text[i + 1]) = "LF"
NameEnd(text, i) == After(text, NameChar, i)
ValueStart(text, i) == NameEnd(text, i) + 2
StopsValue(text, junk, i) ==
    i > Len(text) \/ text[i] = "NUL" \/ IsLineEnd(text, junk, i)
ValueEnd(text, junk, i) ==
    LET start == ValueStart(text, i)
    IN  IF start > Len(text) THEN start
        ELSE CHOOSE j \in start .. Len(text) + 1 :
                /\ StopsValue(text, junk, j)
                /\ \A k \in start .. j - 1 : ~StopsValue(text, junk, k)

HasHeader(text, junk, i) ==
    /\ ValueStart(text, i) <= Len(text)
    /\ SubSeq(text, NameEnd(text, i), ValueStart(text, i) - 1) = <<":", " ">>
    /\ ValueEnd(text, junk, i) + 2 <= Len(text)
    /\ text[ValueEnd(text, junk, i)] = "CR"

HeaderAt(text, junk, i) ==
    [name  |-> SubSeq(text, i, NameEnd(text, i) - 1),
     value |-> SubSeq(text, ValueStart(text, i), ValueEnd(text, junk, i) - 1)]

(* A turn of the loop over the headers, which a blank line ends, or an     *)
(* error. At r is the pointer.                                             *)
Turn(text, junk, now) ==
    IF now.done THEN now
    ELSE IF IsLineEnd(text, junk, now.r) THEN [now EXCEPT !.done = TRUE]
    ELSE IF ~HasHeader(text, junk, now.r)
         THEN [now EXCEPT !.done = TRUE, !.req.error = TRUE]
    ELSE [now EXCEPT !.r = ValueEnd(text, junk, @) + 2,
                     !.req = WithHeader(@, HeaderAt(text, junk, now.r))]

(* The fields of the request line, of which some may be missing. *)
WithLine(text) ==
    [NoRequest EXCEPT
       !.method = IF HasMethod(text) THEN SubSeq(text, 1, MethodEnd(text) - 1) ELSE @,
       !.path = IF HasPath(text) THEN Path(text) ELSE @,
       !.error = ~HasRequestLine(text)]

parse_http_request(text, junk) ==
    LET turn[n \in 0 .. Len(text)] ==
            IF n = 0 THEN [r |-> HeadersStart(text), req |-> WithLine(text), done |-> FALSE]
            ELSE Turn(text, junk, turn[n - 1])
    IN  IF HasRequestLine(text) THEN turn[Len(text)].req ELSE WithLine(text)
=============================================================================
