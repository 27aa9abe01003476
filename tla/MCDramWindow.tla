---------------------------- MODULE MCDramWindow ----------------------------
(* Three frames for four pages, one hard pin, one soft pin, one fill;      *)
(* promoting reads of one page, or, in a run of its own, of two.           *)
EXTENDS DramWindowRoom

MCPages == 0..3
MCPromote == {<<0, 0>>, <<1, 1>>}
MCCopy == {<<0, 1>>}
MCWhole == {TRUE}
MCSpan == {<<0, 1>>}
=============================================================================
