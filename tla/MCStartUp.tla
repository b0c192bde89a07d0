----------------------------- MODULE MCStartUp -----------------------------
(***************************************************************************)
(* StartUp for TLC: up to three arguments, of each form that parse_args    *)
(* tells apart, up to two addresses, and limits at both ends.              *)
(***************************************************************************)
EXTENDS StartUp

TheTexts == {<<>>, <<"-", "-">>, <<"w">>, <<"-", "-", "unsafe">>, <<"-", "u", "p">>,
             <<"-", "u", "?", "p", "u">>, <<"-", "-", "unsafe", "=", "0">>,
             <<"-", "-", "port">>, <<"-", "-", "port", "=">>,
             <<"-", "-", "index", "=", "w">>, <<"-", "r">>, <<"-", "v", "i">>,
             <<"-", "-", "chroot", "=", "w">>}
TheLimits == {4, 6, Unlimited}
TheFamilies == {<<"IPv4", "IPv6">>, <<"IPv6", "IPv4">>, <<"IPv6">>,
                <<"IPv4", "IPv4">>, <<"unknown">>}
=============================================================================
