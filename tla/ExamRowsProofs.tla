---------------------------- MODULE ExamRowsProofs ----------------------------
(***************************************************************************)
(* What the merge rule of item rows (mergeExamDwell and the upserts built  *)
(* on it) promises, for any rows and sheets.  The proofs about the stored  *)
(* rows and about the write buffer both rest on it.                        *)
(***************************************************************************)
EXTENDS ExamRows, TLAPS

(* Merging two rows gives a row.                                           *)
LEMMA MergeIsRow ==
    ASSUME NEW old \in Rows, NEW incoming \in Rows
    PROVE  MergeExamDwell(old, incoming) \in Rows
  BY DEF MergeExamDwell, Rows, Larger, Never, ChosenLetters

(* The merge keeps what the rows' owners rely on: the counter does not go  *)
(* down and a first answer stays.                                          *)
LEMMA MergeKeeps ==
    ASSUME NEW old \in Rows, NEW incoming \in Rows
    PROVE  /\ MergeExamDwell(old, incoming).dwell >= old.dwell
           /\ old.first # Never
                => MergeExamDwell(old, incoming).first = old.first
  BY DEF MergeExamDwell, Rows, Larger, Never, ChosenLetters

(* Upserting a sheet into a sheet gives a sheet.                           *)
LEMMA UpsertIsSheet ==
    ASSUME NEW sheet \in Sheets, NEW incoming \in Sheets
    PROVE  UpsertSheet(sheet, incoming) \in Sheets
  <1>1. ASSUME NEW q \in Questions, incoming[q] # NoRow
        PROVE  Upserted(sheet[q], incoming[q]) \in Rows \cup {NoRow}
    <2>1. incoming[q] \in Rows /\ sheet[q] \in Rows \cup {NoRow}
      BY <1>1 DEF Sheets
    <2> QED  BY <2>1, MergeIsRow DEF Upserted
  <1> QED  BY <1>1 DEF UpsertSheet, Sheets

(* FR-39, replay: an upsert that is sent again, because its reply was lost *)
(* or because the queue was restored from the mirror, changes nothing.     *)
THEOREM ReplayChangesNothing ==
    ASSUME NEW sheet \in Sheets, NEW incoming \in Sheets
    PROVE  UpsertSheet(UpsertSheet(sheet, incoming), incoming)
             = UpsertSheet(sheet, incoming)
  <1> DEFINE once == UpsertSheet(sheet, incoming)
  <1>1. ASSUME NEW q \in Questions, incoming[q] # NoRow
        PROVE  Upserted(once[q], incoming[q]) = once[q]
    <2>1. incoming[q] \in Rows  BY <1>1 DEF Sheets
    <2>2. once[q] = Upserted(sheet[q], incoming[q])
      BY <1>1 DEF UpsertSheet
    <2>3. CASE sheet[q] = NoRow
      <3>1. once[q] = incoming[q]  BY <2>2, <2>3 DEF Upserted
      <3>2. MergeExamDwell(incoming[q], incoming[q]) = incoming[q]
        BY <2>1 DEF MergeExamDwell, Rows, Larger
      <3> QED  BY <2>1, <3>1, <3>2, NoRowAssumption DEF Upserted
    <2>4. CASE sheet[q] # NoRow
      <3>1. sheet[q] \in Rows  BY <2>4 DEF Sheets
      <3>2. once[q] = MergeExamDwell(sheet[q], incoming[q])
        BY <2>2, <2>4 DEF Upserted
      <3>3. once[q] \in Rows  BY <2>1, <3>1, <3>2, MergeIsRow
      <3>4. MergeExamDwell(MergeExamDwell(sheet[q], incoming[q]), incoming[q])
              = MergeExamDwell(sheet[q], incoming[q])
        BY <2>1, <3>1 DEF MergeExamDwell, Rows, Larger, Never
      <3> QED  BY <3>2, <3>3, <3>4, NoRowAssumption DEF Upserted
    <2> QED  BY <2>3, <2>4
  <1>2. \A q \in Questions : UpsertSheet(once, incoming)[q] = once[q]
    BY <1>1 DEF UpsertSheet
  <1>3. DOMAIN once = Questions /\ DOMAIN UpsertSheet(once, incoming) = Questions
    BY DEF UpsertSheet
  <1>4. once \in Sheets /\ UpsertSheet(once, incoming) \in Sheets
    BY UpsertIsSheet
  <1> QED  BY <1>2, <1>4 DEF Sheets
=============================================================================
