------------------------------ MODULE UrlPaths ------------------------------
(***************************************************************************)
(* From a file's name to a link, and from a request's path to a file:      *)
(* buf_encode_url and decode_url (http.c:735), cleanup_path and            *)
(* resolve_path (dir.c:27).  A string is the sequence of its bytes,        *)
(* without the null at its end.                                            *)
(***************************************************************************)
EXTENDS Integers, Sequences, SequencesExt

SLASH == 47
PERCENT == 37
DOT == 46

is_digit(c) == c \in 48 .. 57
is_alpha(c) == c \in (65 .. 90) \union (97 .. 122)
is_hex(c) == is_digit(c) \/ c \in (65 .. 70) \union (97 .. 102)

(* Letters, digits and "-._~" are all that a link holds as they are. *)
needs_encoding(c) == ~(is_alpha(c) \/ is_digit(c) \/ c \in {45, 46, 95, 126})

(* Letters, digits, "!$?&'()*+,;=%-._~:@/" and the null that strchr() finds *)
(* at the end of these.                                                   *)
is_valid_http_path_char(c) ==
    \/ is_alpha(c)
    \/ is_digit(c)
    \/ c \in (36 .. 47) \union {0, 33, 58, 59, 61, 63, 64, 95, 126}

-----------------------------------------------------------------------------
HexDigit(d) == IF d < 10 THEN 48 + d ELSE 55 + d

(* Mutant of the next definition: a name's '%' is left as it is. *)
EncodedButPercent(c) ==
    IF needs_encoding(c) /\ c # PERCENT
    THEN <<PERCENT, HexDigit(c \div 16), HexDigit(c % 16)>>
    ELSE <<c>>

Encoded(c) == IF needs_encoding(c)
              THEN <<PERCENT, HexDigit(c \div 16), HexDigit(c % 16)>>
              ELSE <<c>>

buf_encode_url(url) == FlattenSeq([i \in DOMAIN url |-> Encoded(url[i])])

HexValue(c) == CASE c \in 65 .. 70  -> 10 + c - 65
                 [] c \in 97 .. 102 -> 10 + c - 97
                 [] is_digit(c)     -> c - 48

IsNull(c) == c = 0

(* "%%" stands for '%', "%" and two hex digits for a byte, any other '%'   *)
(* for itself.                                                            *)
Unescaped(url) ==
    LET percent(i) == url[i] = PERCENT /\ i < Len(url) /\ url[i + 1] = PERCENT
        hex(i) == /\ url[i] = PERCENT
                  /\ i + 2 <= Len(url)
                  /\ is_hex(url[i + 1])
                  /\ is_hex(url[i + 2])
        byte(i) == 16 * HexValue(url[i + 1]) + HexValue(url[i + 2])
        from[i \in 1 .. Len(url) + 1] ==
            IF i > Len(url)    THEN <<>>
            ELSE IF percent(i) THEN <<PERCENT>> \o from[i + 2]
            ELSE IF hex(i)     THEN <<byte(i)>> \o from[i + 3]
            ELSE <<url[i]>> \o from[i + 1]
    IN  from[1]

(* A null among the bytes ends the string. *)
UntilNull(bytes) == LET null == SelectInSeq(bytes, IsNull)
                    IN  IF null = 0 THEN bytes ELSE SubSeq(bytes, 1, null - 1)

decode_url(url) == UntilNull(Unescaped(url))

-----------------------------------------------------------------------------
(* A slash after a slash is not copied. *)
cleanup_path(path) ==
    FlattenSeq([i \in DOMAIN path |->
        IF i > 1 /\ path[i] = SLASH /\ path[i - 1] = SLASH THEN <<>>
        ELSE <<path[i]>>])

EndsInSlash(path) == path # <<>> /\ Last(path) = SLASH
StartsWithSlash(path) == path # <<>> /\ Head(path) = SLASH

NotSlash(c) == c # SLASH
AfterSlashes(path) == LET i == SelectInSeq(path, NotSlash)
                      IN  IF i = 0 THEN <<>> ELSE SubSeq(path, i, Len(path))

(* ".", "/", "./", "/." and "./." as the second path: the first one itself *)
StaysAt == {<<DOT>>, <<SLASH>>, <<DOT, SLASH>>, <<SLASH, DOT>>, <<DOT, SLASH, DOT>>}

(* What is left between the bytes of p1 and of p2 when p1 has slashes      *)
(* after slashes: they are skipped, and the place to go on at is not       *)
(* moved. malloc() left bytes there; that they are no byte that is tested  *)
(* holds for the paths that callers here use, which have no such slashes. *)
Gap(p1) == [i \in 1 .. Len(p1) - Len(cleanup_path(p1)) |-> -1]

(* Mutant of the next definition: where p1 and p2 meet, no slash is added. *)
JoinedBare(p1, p2) ==
    cleanup_path(p1) \o Gap(p1) \o cleanup_path(IF EndsInSlash(p1) THEN AfterSlashes(p2) ELSE p2)

Joined(p1, p2) ==
    LET first == cleanup_path(p1) \o Gap(p1)
        second == IF EndsInSlash(first) THEN AfterSlashes(p2) ELSE p2
        between == IF EndsInSlash(first) \/ StartsWithSlash(second)
                   THEN <<>> ELSE <<SLASH>>
    IN  first \o between \o cleanup_path(second)

resolve_path(p1, p2) == IF p2 \in StaysAt THEN p1 ELSE Joined(p1, p2)

(* Mutant of the next definition: no room for the null at the end. *)
AllocatedForBytes(p1, p2) ==
    IF p2 \in StaysAt THEN Len(p1) + 1 ELSE Len(p1) + Len(p2)

(* The bytes that resolve_path allocates for its result. *)
Allocated(p1, p2) ==
    IF p2 \in StaysAt THEN Len(p1) + 1 ELSE Len(p1) + Len(p2) + 1
=============================================================================
