------------------------------ MODULE MCLogRing ------------------------------
(***************************************************************************)
(* An instance of LogRing for TLC: a ring that wraps every second or third *)
(* message, and messages of one, two and three bytes, of one or two lines. *)
(***************************************************************************)
EXTENDS LogRing

MCText == {<<"char">>, <<"char", "eol">>, <<"char", "eol", "char">>}
=============================================================================
