------------------------------ MODULE MCBrowse ------------------------------
(***************************************************************************)
(* Browse for TLC.  The names have every kind of byte that the conversions *)
(* tell apart: hex digits of either kind, which need no encoding, '%', and *)
(* one that is not ASCII; among them are names that look like encoded      *)
(* bytes, "%2A", "%%" and, after another byte, a null.  The serve paths    *)
(* end in a slash or do not.                                               *)
(***************************************************************************)
EXTENDS Browse

A == 65
TwoDigit == 50
ZeroDigit == 48
Eacute == 233

NameBytes == {A, TwoDigit, PERCENT, Eacute}
ShortNames == UNION {[1 .. n -> NameBytes] : n \in 1 .. 2}
                 \union {<<PERCENT, TwoDigit, A>>, <<PERCENT, PERCENT, PERCENT>>,
                         <<A, PERCENT, ZeroDigit, ZeroDigit>>}
IndexName == <<A>>

HomeDot == <<DOT, SLASH>>           \* "./", the default
HomeDeep == <<SLASH, A, SLASH, A>>  \* "/A/A"
Homes == {HomeDot, HomeDeep, <<SLASH>>}
=============================================================================
