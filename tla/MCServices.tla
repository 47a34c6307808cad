----------------------------- MODULE MCServices -----------------------------
(* A small instance of each part for TLC. *)
EXTENDS Services, MCHealthChecker, MCRuleEngine

CONSTANTS c1, r1, r2, l1, b1, b2
-----------------------------------------------------------------------------
(* The AdBlock filter: a file that stays as it is and a list by URL, one of *)
(* whose names comes and goes                                               *)

BothLists == <<"file", "url">>
TwoEditions == {<< {<<"b">>}, {<<"a">>, <<"c">>} >>, << {<<"b">>}, {<<"c">>} >>}
Page == {<<"forbidden">>}
AskedNames == {<<"a", "b">>, <<"b", "a">>, <<"c">>}
=============================================================================
