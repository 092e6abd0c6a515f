---------------------------- MODULE MCExamRunRepo ----------------------------
(***************************************************************************)
(* Instances of ExamRunRepo for TLC: one or two sections, all of them      *)
(* composite, over one question.                                           *)
(***************************************************************************)
EXTENDS ExamRunRepo, TLC

CONSTANTS english, math, q1, a, b, d1, d2

MCKey == [q \in Questions |-> a]

(* A table with a row for every raw score.                                 *)
MCScale == [raw \in 0..Cardinality(Questions) |-> 10 + 5 * raw]

(* The callers are interchangeable; no liveness property is checked.       *)
Symmetric == Permutations(Devices)
=============================================================================
