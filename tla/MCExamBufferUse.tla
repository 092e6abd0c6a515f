--------------------------- MODULE MCExamBufferUse ---------------------------
(***************************************************************************)
(* Instances of ExamBufferUse for TLC.                                     *)
(***************************************************************************)
EXTENDS ExamBufferUse, TLC

CONSTANTS q1, q2, a, b

Symmetric == Permutations(Questions) \cup Permutations(Letters)
=============================================================================
