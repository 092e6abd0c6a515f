------------------------------- MODULE ExamRows -------------------------------
(***************************************************************************)
(* The item rows of an exam section (wire type ExamRunItem) and the merge  *)
(* rule that the browser's write buffer and the engine database share.     *)
(*                                                                         *)
(* A row keeps what the other modules tell apart:                          *)
(*   letter      chosen_letter, Blank for null                             *)
(*   dwell       dwell_ms; visits and answer_changes merge the same way    *)
(*               and are left out                                          *)
(*   first       first_answered_at and dwell_at_first_answer_ms, the two   *)
(*               keep-first fields, Never for null                         *)
(*   stamp       updated_at                                                *)
(*   correct     correct: "right", "wrong", or "ungraded" for null         *)
(*   bookmarked  bookmarked                                                *)
(* flagged_in_section merges as letter does (incoming wins) and is left    *)
(* out, and so is ordinal, which never changes.                            *)
(***************************************************************************)
EXTENDS Integers, FiniteSets

CONSTANTS
    Questions,  \* the question ids of one section
    Letters,    \* the answer letters
    Blank,      \* chosen_letter = null
    NoRow       \* the store, queue or mirror holds no row for the question

ASSUME RowAssumption ==
    /\ Questions # {} /\ IsFiniteSet(Questions)
    /\ Blank \notin Letters

Never == -1

ChosenLetters == Letters \cup {Blank}

Rows == [letter : ChosenLetters, dwell : Nat, first : Nat \cup {Never},
         stamp : Nat, correct : {"right", "wrong", "ungraded"},
         bookmarked : BOOLEAN]

ASSUME NoRowAssumption == NoRow \notin Rows

(* One slot per question: a row or nothing.                                *)
Sheets == [Questions -> Rows \cup {NoRow}]
EmptySheet == [q \in Questions |-> NoRow]

(* The questions a sheet holds a row for (a Map's keys).                   *)
Held(sheet) == {q \in Questions : sheet[q] # NoRow}

Larger(m, n) == IF m >= n THEN m ELSE n

(* Mutant of MergeExamDwell: the incoming counter wins, as the letter does.*)
MergeIncomingDwell(stored, incoming) ==
    [incoming EXCEPT
        !.first = IF stored.first # Never THEN stored.first ELSE incoming.first]

(***************************************************************************)
(* mergeExamDwell: the dwell takes the maximum, first-answer fields keep the *)
(* first value, everything else comes from the incoming row, whichever of  *)
(* the two is the newer.                                                   *)
(***************************************************************************)
MergeExamDwell(stored, incoming) ==
    [incoming EXCEPT
        !.dwell = Larger(stored.dwell, incoming.dwell),
        !.first = IF stored.first # Never THEN stored.first ELSE incoming.first]

(* The merge as an upsert uses it: with no stored row the incoming row is  *)
(* taken as it is.                                                         *)
Upserted(stored, incoming) ==
    IF stored = NoRow THEN incoming ELSE MergeExamDwell(stored, incoming)

(* A sheet after upserting every row another sheet holds.                  *)
UpsertSheet(sheet, incoming) ==
    [q \in Questions |->
        IF incoming[q] = NoRow THEN sheet[q]
                               ELSE Upserted(sheet[q], incoming[q])]

(* buildItems gives a question that has no row yet a blank one.            *)
FreshRow(now) == [letter |-> Blank, dwell |-> 0, first |-> Never,
                  stamp |-> now, correct |-> "ungraded", bookmarked |-> FALSE]
=============================================================================
