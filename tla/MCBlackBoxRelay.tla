--------------------------- MODULE MCBlackBoxRelay ---------------------------
(***************************************************************************)
(* An instance of BlackBoxRelay for TLC.                                   *)
(***************************************************************************)
EXTENDS BlackBoxRelay

CONSTANTS e1, e2, done, poll, drain
=============================================================================
