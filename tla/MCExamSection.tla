---------------------------- MODULE MCExamSection ----------------------------
(***************************************************************************)
(* Instances of ExamSection for TLC.                                       *)
(***************************************************************************)
EXTENDS ExamSection

CONSTANTS q1, q2, a, b
=============================================================================
