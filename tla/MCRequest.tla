----------------------------- MODULE MCRequest -----------------------------
(***************************************************************************)
(* Request for TLC: up to three headers in any order, of which one is a    *)
(* range in any of its forms, numbers of two digits and malformed ranges   *)
(* included, and one has no value and is not looked for.  A long long has  *)
(* room for these numbers, and none for the power of ten that a zero       *)
(* before one is multiplied with.  The longest of the requests do not fit  *)
(* into the buffer.                                                        *)
(***************************************************************************)
EXTENDS Request

WithRangeOf(name, value, start, end) ==
    [name |-> <<name>>, value |-> value, start |-> start, end |-> end]
Plain(name, value) == WithRangeOf(name, value, <<>>, <<>>)
RangeHeader(start, end) ==
    WithRangeOf("Range", <<"bytes=">> \o start \o <<"-">> \o end, start, end)

AllHeaders ==
    {Plain("Host", <<"word", ":", "9">>),
     Plain("Connection", <<"close">>),
     Plain("Other", <<>>),
     RangeHeader(<<"2">>, <<>>),
     RangeHeader(<<>>, <<"9">>),
     RangeHeader(<<"0", "1", "0">>, <<"2", "9">>),
     RangeHeader(<<>>, <<>>),
     Plain("Range", <<"bytes=", "2">>),
     Plain("Range", <<"bytes=">>)}

HeaderLists ==
    UNION {{hs \in [1 .. n -> AllHeaders] :
               \A i, j \in 1 .. n : hs[i].name = hs[j].name => i = j} : n \in 0 .. 3}

AnyRequest ==
    [method : {<<"HEAD">>}, path : {<<"/", "word">>}, headers : HeaderLists]
=============================================================================
