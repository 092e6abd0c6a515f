---------------------------- MODULE MCQuizSession ----------------------------
(***************************************************************************)
(* Instances of QuizSession for TLC: one letter is right, one is wrong.    *)
(***************************************************************************)
EXTENDS QuizSession, TLC

CONSTANTS q1, q2, q3, t1, a, b

(* The questions are interchangeable; used where no leads-to is checked.   *)
Symmetric == Permutations(Questions)
=============================================================================
