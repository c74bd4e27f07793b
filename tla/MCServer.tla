------------------------------- MODULE MCServer -------------------------------
(***************************************************************************)
(* Model-checking instance of Server: three requests.                      *)
(***************************************************************************)
EXTENDS Server

CONSTANTS r1, r2, r3

ThreeRequests == {r1, r2, r3}
=============================================================================
