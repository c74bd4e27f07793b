------------------------------- MODULE MCEngine -------------------------------
(***************************************************************************)
(* Model-checking instance of Engine: two requests, asked any number of    *)
(* times.                                                                  *)
(***************************************************************************)
EXTENDS Engine

CONSTANTS q1, q2

TwoRequests == {q1, q2}
=============================================================================
