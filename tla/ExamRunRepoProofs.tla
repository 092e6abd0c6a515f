-------------------------- MODULE ExamRunRepoProofs --------------------------
(***************************************************************************)
(* Theorems about ExamRunRepo, for any number of callers, sections and     *)
(* questions, any scale table and any bounds.                              *)
(*                                                                         *)
(* Every request of a caller changes the store by at most one of the       *)
(* transactions of ExamStore.  The proofs therefore go in two stages: what *)
(* a transaction does to the store (StoreStep), and what a caller's step   *)
(* does to the caller.                                                     *)
(***************************************************************************)
EXTENDS ExamRunRepo, ExamRowsProofs, FiniteSetTheorems, TLAPS

-----------------------------------------------------------------------------
(***************************************************************************)
(* Grading and scores.                                                     *)
(***************************************************************************)

(* Grading a sheet gives a sheet.                                          *)
LEMMA GradedIsSheet ==
    ASSUME NEW sheet \in Sheets
    PROVE  GradedSheet(sheet) \in Sheets
  <1>1. ASSUME NEW q \in Questions, sheet[q] # NoRow
        PROVE  [sheet[q] EXCEPT !.correct = Grade(q, sheet[q])] \in Rows
    <2>1. sheet[q] \in Rows  BY <1>1 DEF Sheets
    <2>2. Grade(q, sheet[q]) \in {"right", "wrong", "ungraded"}  BY DEF Grade
    <2> QED  BY <2>1, <2>2 DEF Rows
  <1> QED  BY <1>1 DEF GradedSheet, Sheets

(* A raw score is an index of the scale table.                             *)
LEMMA RawInTable ==
    ASSUME NEW sheet
    PROVE  /\ RawCorrect(sheet) \in Scores
           /\ Scale[RawCorrect(sheet)] \in Scores
  <1> DEFINE Right == {q \in Scored \cap Held(sheet) : sheet[q].letter = Key[q]}
  <1>1. Right \in SUBSET Questions  BY StoreAssumption
  <1>2. /\ IsFiniteSet(Right)
        /\ Cardinality(Right) <= Cardinality(Questions)
    BY <1>1, RowAssumption, FS_Subset
  <1>3. Cardinality(Right) \in Nat /\ Cardinality(Questions) \in Nat
    BY <1>2, RowAssumption, FS_CardinalityType
  <1>4. RawCorrect(sheet) \in 0..Cardinality(Questions)
    BY <1>2, <1>3 DEF RawCorrect
  <1> QED  BY <1>4, StoreAssumption DEF Scores

-----------------------------------------------------------------------------
(***************************************************************************)
(* The store, one transaction at a time.                                   *)
(***************************************************************************)
StoreStep ==
    \/ \E s \in Sections, deadline \in Nat : BeginExamSection(s, deadline)
    \/ \E s \in Sections, sheet \in Sheets : UpsertExamRunItems(s, sheet)
    \/ \E s \in Sections, status \in FinishedStatuses,
          raw \in Scores, scale \in Scores :
              FinishExamSection(s, status, raw, scale)
    \/ \E value : SetExamRunComposite(value)
    \/ \E s \in Sections, q \in Questions, b \in BOOLEAN :
              SetExamBookmark(s, q, b)
    \/ UNCHANGED storeVars

(* Every transaction keeps the types of the tables.                        *)
LEMMA StoreTyped ==
    StoreTypeOK /\ StoreStep => StoreTypeOK'
  <1> SUFFICES ASSUME StoreTypeOK, StoreStep PROVE StoreTypeOK'
    OBVIOUS
  <1> USE DEF StoreTypeOK
  <1>1. ASSUME NEW s \in Sections, NEW deadline \in Nat,
               BeginExamSection(s, deadline)
        PROVE  StoreTypeOK'
    BY <1>1 DEF BeginExamSection, Attempts, Statuses
  <1>2. ASSUME NEW s \in Sections, NEW sheet \in Sheets,
               UpsertExamRunItems(s, sheet)
        PROVE  StoreTypeOK'
    <2>1. UpsertSheet(item[s], sheet) \in Sheets  BY UpsertIsSheet
    <2> QED  BY <1>2, <2>1 DEF UpsertExamRunItems
  <1>3. ASSUME NEW s \in Sections, NEW status \in FinishedStatuses,
               NEW raw \in Scores, NEW scale \in Scores,
               FinishExamSection(s, status, raw, scale)
        PROVE  StoreTypeOK'
    BY <1>3, ZenonT(60) DEF FinishExamSection, Attempts, Statuses
  <1>4. ASSUME NEW value, SetExamRunComposite(value)
        PROVE  StoreTypeOK'
    BY <1>4 DEF SetExamRunComposite
  <1>5. ASSUME NEW s \in Sections, NEW q \in Questions, NEW b \in BOOLEAN,
               SetExamBookmark(s, q, b)
        PROVE  StoreTypeOK'
    <2>1. item[s][q] \in Rows  BY <1>5 DEF SetExamBookmark, Sheets
    <2>2. [item[s][q] EXCEPT !.bookmarked = b] \in Rows  BY <2>1 DEF Rows
    <2>3. [item[s] EXCEPT ![q].bookmarked = b] \in Sheets  BY <2>2 DEF Sheets
    <2> QED  BY <1>5, <2>3 DEF SetExamBookmark
  <1>6. CASE UNCHANGED storeVars
    BY <1>6 DEF storeVars
  <1> QED  BY <1>1, <1>2, <1>3, <1>4, <1>5, <1>6 DEF StoreStep

(* The life of an attempt: it stays, begins once, or is finished once with *)
(* the deadline it had.                                                    *)
LEMMA AttemptMoves ==
    ASSUME StoreTypeOK, StoreStep, NEW s \in Sections
    PROVE  \/ attempt'[s] = attempt[s]
           \/ /\ attempt[s].status = "not_started"
              /\ attempt'[s].status = "in_progress"
           \/ /\ attempt[s].status = "in_progress"
              /\ attempt'[s].status \in FinishedStatuses
              /\ attempt'[s].deadline = attempt[s].deadline
  <1> DEFINE Moved ==
        \/ attempt'[s] = attempt[s]
        \/ /\ attempt[s].status = "not_started"
           /\ attempt'[s].status = "in_progress"
        \/ /\ attempt[s].status = "in_progress"
           /\ attempt'[s].status \in FinishedStatuses
           /\ attempt'[s].deadline = attempt[s].deadline
  <1>1. ASSUME NEW u \in Sections, NEW deadline \in Nat,
               BeginExamSection(u, deadline)
        PROVE  Moved
    BY <1>1 DEF BeginExamSection, MayBegin, StoreTypeOK, Attempts
  <1>2. ASSUME NEW u \in Sections, NEW status \in FinishedStatuses,
               NEW raw \in Scores, NEW scale \in Scores,
               FinishExamSection(u, status, raw, scale)
        PROVE  Moved
    BY <1>2 DEF FinishExamSection, InProgress, StoreTypeOK, Attempts
  <1>3. CASE UNCHANGED attempt
    BY <1>3
  <1> QED  BY <1>1, <1>2, <1>3 DEF StoreStep, UpsertExamRunItems,
              SetExamRunComposite, SetExamBookmark, storeVars

(* A section begins only while no other runs, and nothing else makes a     *)
(* section run.                                                            *)
LEMMA StoreOneSection ==
    StoreTypeOK /\ OneSectionRuns /\ StoreStep => OneSectionRuns'
  <1> SUFFICES ASSUME StoreTypeOK, OneSectionRuns, StoreStep,
                      NEW s \in Sections, NEW t \in Sections,
                      InProgress(s)', InProgress(t)'
               PROVE  s = t
    BY DEF OneSectionRuns
  <1>1. ASSUME NEW u \in Sections, NEW deadline \in Nat,
               BeginExamSection(u, deadline)
        PROVE  s = t
    <2>1. \A v \in Sections : v # u => ~InProgress(v)'
      BY <1>1 DEF BeginExamSection, MayBegin, InProgress, StoreTypeOK
    <2> QED  BY <2>1
  <1>2. CASE \A v \in Sections : InProgress(v)' => InProgress(v)
    BY <1>2 DEF OneSectionRuns
  <1>3. ASSUME NEW u \in Sections, NEW status \in FinishedStatuses,
               NEW raw \in Scores, NEW scale \in Scores,
               FinishExamSection(u, status, raw, scale)
        PROVE  \A v \in Sections : InProgress(v)' => InProgress(v)
    BY <1>3 DEF FinishExamSection, FinishedStatuses, InProgress, StoreTypeOK
  <1>4. ASSUME UNCHANGED attempt
        PROVE  \A v \in Sections : InProgress(v)' => InProgress(v)
    BY <1>4 DEF InProgress
  <1> QED  BY <1>1, <1>2, <1>3, <1>4 DEF StoreStep, UpsertExamRunItems,
              SetExamRunComposite, SetExamBookmark, storeVars

(* A finished section's rows change in their bookmarks only.               *)
LEMMA RowsFrozen ==
    ASSUME StoreTypeOK, StoreStep, NEW s \in Sections, Finished(s)
    PROVE  Unbookmarked(item'[s]) = Unbookmarked(item[s])
  <1>1. ASSUME NEW u \in Sections, NEW sheet \in Sheets,
               UpsertExamRunItems(u, sheet)
        PROVE  item'[s] = item[s]
    <2>1. s # u
      BY <1>1 DEF UpsertExamRunItems, InProgress, Finished, FinishedStatuses
    <2> QED  BY <1>1, <2>1 DEF UpsertExamRunItems, StoreTypeOK
  <1>2. ASSUME NEW u \in Sections, NEW q \in Questions, NEW b \in BOOLEAN,
               SetExamBookmark(u, q, b)
        PROVE  Unbookmarked(item'[s]) = Unbookmarked(item[s])
    <2>1. CASE s # u
      BY <1>2, <2>1 DEF SetExamBookmark, StoreTypeOK
    <2>2. CASE s = u
      <3> DEFINE old == item[s]
                 new == item'[s]
      <3>1. old[q] \in Rows /\ new = [old EXCEPT ![q].bookmarked = b]
        BY <1>2, <2>2 DEF SetExamBookmark, StoreTypeOK, Sheets
      <3>2. new[q] = [old[q] EXCEPT !.bookmarked = b] /\ new[q] \in Rows
        <4>1. DOMAIN old = Questions  BY DEF StoreTypeOK, Sheets
        <4> QED  BY <3>1, <4>1 DEF Rows
      <3>3. [new[q] EXCEPT !.bookmarked = FALSE]
              = [old[q] EXCEPT !.bookmarked = FALSE]
        BY <3>1, <3>2 DEF Rows
      <3>4. \A p \in Questions : p # q => new[p] = old[p]
        BY <3>1 DEF StoreTypeOK, Sheets
      <3>5. new[q] # NoRow /\ old[q] # NoRow
        BY <3>1, <3>2, NoRowAssumption
      <3> HIDE DEF old, new
      <3>6. Unbookmarked(new) = Unbookmarked(old)
        BY <3>3, <3>4, <3>5 DEF Unbookmarked
      <3> QED  BY <3>6 DEF old, new
    <2> QED  BY <2>1, <2>2
  <1>3. CASE UNCHANGED item
    BY <1>3
  <1> QED  BY <1>1, <1>2, <1>3 DEF StoreStep, BeginExamSection,
              FinishExamSection, SetExamRunComposite, storeVars

(* A row that replaces another one keeps what DwellMonotone asks for.      *)
Keeps(new, old) ==
    /\ new # NoRow
    /\ new.dwell >= old.dwell
    /\ old.first # Never => new.first = old.first

LEMMA KeepsItself ==
    ASSUME NEW row \in Rows PROVE Keeps(row, row)
  BY NoRowAssumption DEF Keeps, Rows

(* A stored row is kept, its dwell does not go down and its first answer   *)
(* stays.                                                                  *)
LEMMA RowsMonotone ==
    ASSUME StoreTypeOK, StoreStep, NEW s \in Sections, NEW q \in Held(item[s])
    PROVE  Keeps(item'[s][q], item[s][q])
  <1>1. q \in Questions /\ item[s][q] \in Rows
    BY DEF Held, StoreTypeOK, Sheets
  <1>2. ASSUME NEW u \in Sections, NEW sheet \in Sheets,
               UpsertExamRunItems(u, sheet), item'[s][q] # item[s][q]
        PROVE  Keeps(item'[s][q], item[s][q])
    <2>1. item'[s][q] = UpsertSheet(item[s], sheet)[q]
      BY <1>2 DEF UpsertExamRunItems, StoreTypeOK
    <2>2. sheet[q] \in Rows
      BY <1>1, <1>2, <2>1 DEF UpsertSheet, Sheets
    <2>3. item'[s][q] = MergeExamDwell(item[s][q], sheet[q])
      BY <1>1, <2>1, <2>2, NoRowAssumption DEF UpsertSheet, Upserted
    <2>4. item'[s][q] # NoRow
      BY <1>1, <2>2, <2>3, MergeIsRow, NoRowAssumption
    <2>5. /\ item'[s][q].dwell >= item[s][q].dwell
          /\ item[s][q].first # Never => item'[s][q].first = item[s][q].first
      BY <1>1, <2>2, <2>3, MergeKeeps
    <2> QED  BY <2>4, <2>5 DEF Keeps
  <1>3. ASSUME NEW u \in Sections, NEW p \in Questions, NEW b \in BOOLEAN,
               SetExamBookmark(u, p, b), item'[s][q] # item[s][q]
        PROVE  Keeps(item'[s][q], item[s][q])
    <2>1. item'[s][q] = [item[s][q] EXCEPT !.bookmarked = b]
      BY <1>1, <1>3 DEF SetExamBookmark, StoreTypeOK, Sheets
    <2>2. /\ item'[s][q] \in Rows
          /\ item'[s][q].dwell = item[s][q].dwell
          /\ item'[s][q].first = item[s][q].first
      BY <1>1, <2>1 DEF Rows
    <2>3. item[s][q].dwell \in Nat  BY <1>1 DEF Rows
    <2> QED  BY <2>2, <2>3, NoRowAssumption DEF Keeps
  <1>4. CASE item'[s][q] = item[s][q]
    BY <1>1, <1>4, KeepsItself
  <1> QED  BY <1>2, <1>3, <1>4 DEF StoreStep, BeginExamSection,
              FinishExamSection, SetExamRunComposite, storeVars

(* The composite depends only on the attempts of the composite sections,   *)
(* and a composite that is not null needs all of them finished.            *)
LEMMA CompositeReads ==
    ASSUME NEW seen, NEW att, ExamComposite(seen) # NoScore,
           \A s \in CompositeSections :
              seen[s].status \in FinishedStatuses => att[s] = seen[s]
    PROVE  ExamComposite(att) = ExamComposite(seen)
  <1>1. \A s \in CompositeSections :
           seen[s].status \in FinishedStatuses /\ seen[s].scale # NoScore
    BY DEF ExamComposite
  <1>2. \A s \in CompositeSections : att[s] = seen[s]
    BY <1>1
  <1>3. [s \in CompositeSections |-> att[s].scale]
          = [s \in CompositeSections |-> seen[s].scale]
    BY <1>2
  <1> QED  BY <1>2, <1>3 DEF ExamComposite

-----------------------------------------------------------------------------
(***************************************************************************)
(* The callers.                                                            *)
(***************************************************************************)

(* What the step of a caller that is doing op may use of its record.       *)
LEMMA CallShape ==
    ASSUME NEW c \in Calls
    PROVE  /\ c.op = "begin" => c.section \in Sections /\ c.deadline \in Nat
           /\ c.op \in {"upsert", "grade", "close"}
                => c.section \in Sections /\ c.sheet \in Sheets
           /\ c.op \in {"finish", "grade", "close"}
                => c.section \in Sections /\ c.status \in FinishedStatuses
           /\ c.op = "compose" => c.seen \in [Sections -> Attempts]
  BY DEF Calls, Idle

(* A caller's step is at most one transaction, and leaves the callers      *)
(* well-typed.                                                             *)
LEMMA StepIsTransaction ==
    ASSUME TypeOK, NEW d \in Devices, Step(d)
    PROVE  /\ StoreStep
           /\ now' = now
           /\ \E c \in Calls : call' = [call EXCEPT ![d] = c]
  <1> DEFINE c == call[d]
             Goal == /\ StoreStep
                     /\ now' = now
                     /\ \E e \in Calls : call' = [call EXCEPT ![d] = e]
  <1>1. c \in Calls  BY DEF TypeOK
  <1>2. Idle \in Calls /\ now \in Nat /\ StoreTypeOK
    BY DEF Calls, TypeOK
  <1>3. call' = call => call' = [call EXCEPT ![d] = c]
    BY DEF TypeOK
  <1>4. UNCHANGED storeVars => StoreStep
    BY DEF StoreStep
  <1> HIDE DEF c
  <1>5. ASSUME NEW s \in Sections, BeginSection(d, s) PROVE Goal
    <2>1. [op |-> "begin", section |-> s, deadline |-> now + Minutes] \in Calls
      BY <1>2, RepoAssumption DEF Calls
    <2> QED  BY <1>4, <1>5, <2>1 DEF BeginSection, Become
  <1>6. CASE BeginRequest(d)
    <2>1. c.section \in Sections /\ c.deadline \in Nat
      BY <1>1, <1>6, CallShape DEF BeginRequest, IsDoing, c
    <2>2. StoreStep
      BY <1>4, <1>6, <2>1 DEF BeginRequest, StoreStep, c
    <2> QED  BY <1>2, <1>6, <2>2 DEF BeginRequest, Become
  <1>7. ASSUME NEW s \in Sections, UpsertItems(d, s) PROVE Goal
    <2>1. PICK q \in Questions, row \in ClientRows :
             Become(d, [op |-> "upsert", section |-> s,
                        sheet |-> [EmptySheet EXCEPT ![q] = row]])
      BY <1>7 DEF UpsertItems
    <2>2. row \in Rows
      <3>1. PICK l \in ChosenLetters, e \in 0..MaxDwell,
                 f \in {Never} \cup 0..now :
              row = [letter |-> l, dwell |-> e, first |-> f, stamp |-> now,
                     correct |-> "ungraded", bookmarked |-> FALSE]
        BY DEF ClientRows
      <3>2. e \in Nat /\ f \in Nat \cup {Never}
        BY <1>2, RepoAssumption
      <3> QED  BY <1>2, <3>1, <3>2 DEF Rows
    <2>3. [EmptySheet EXCEPT ![q] = row] \in Sheets
      BY <2>2 DEF EmptySheet, Sheets
    <2>4. [op |-> "upsert", section |-> s,
           sheet |-> [EmptySheet EXCEPT ![q] = row]] \in Calls
      BY <2>3 DEF Calls
    <2> QED  BY <1>4, <1>7, <2>1, <2>4 DEF UpsertItems, Become
  <1>8. CASE UpsertRequest(d)
    <2>1. c.section \in Sections /\ c.sheet \in Sheets
      BY <1>1, <1>8, CallShape DEF UpsertRequest, IsDoing, c
    <2>2. StoreStep
      BY <1>4, <1>8, <2>1 DEF UpsertRequest, StoreStep, c
    <2>3. call' = [call EXCEPT ![d] = Idle] \/ call' = call
      BY <1>8 DEF UpsertRequest, Become
    <2> QED  BY <1>1, <1>2, <1>3, <1>8, <2>2, <2>3 DEF UpsertRequest
  <1>9. ASSUME NEW s \in Sections, FinishSection(d, s) PROVE Goal
    <2>1. [op |-> "finish", section |-> s, status |-> FinalStatus(s)] \in Calls
      BY DEF Calls, FinalStatus, FinishedStatuses
    <2> QED  BY <1>4, <1>9, <2>1 DEF FinishSection, Become
  <1>10. CASE ReadAndGrade(d)
    <2>1. c.section \in Sections /\ c.status \in FinishedStatuses
      BY <1>1, <1>10, CallShape DEF ReadAndGrade, IsDoing, c
    <2> DEFINE sheet == GradedSheet(item[c.section])
               graded(status) ==
                  [op |-> IF Held(sheet) = {} THEN "close" ELSE "grade",
                   section |-> c.section, status |-> status, sheet |-> sheet]
    <2>2. sheet \in Sheets
      BY <1>2, <2>1, GradedIsSheet DEF StoreTypeOK
    <2>3. PICK status \in {c.status, FinalStatus(c.section)} :
             call' = [call EXCEPT ![d] = graded(status)]
      BY <1>10 DEF ReadAndGrade, Become, c
    <2>4. status \in FinishedStatuses
      BY <2>1, <2>3 DEF FinalStatus, FinishedStatuses
    <2>5. graded(status) \in Calls
      <3> HIDE DEF sheet
      <3> QED  BY <2>1, <2>2, <2>4 DEF Calls
    <2> HIDE DEF graded
    <2> QED  BY <1>4, <1>10, <2>3, <2>5 DEF ReadAndGrade
  <1>11. CASE GradedUpsert(d)
    <2>1. c.op = "grade"  BY <1>11 DEF GradedUpsert, IsDoing, c
    <2>2. /\ c.section \in Sections /\ c.sheet \in Sheets
          /\ c.status \in FinishedStatuses
      BY <1>1, <2>1, CallShape
    <2>3. StoreStep
      BY <1>4, <1>11, <2>2 DEF GradedUpsert, StoreStep, c
    <2>4. [c EXCEPT !.op = "close"] \in Calls
      BY <1>1, <2>1 DEF Calls, Idle
    <2>5. \/ call' = [call EXCEPT ![d] = [c EXCEPT !.op = "close"]]
          \/ call' = [call EXCEPT ![d] = Idle]
      BY <1>11 DEF GradedUpsert, Become, c
    <2> QED  BY <1>2, <1>11, <2>3, <2>4, <2>5 DEF GradedUpsert
  <1>12. CASE CloseRequest(d)
    <2>1. /\ c.section \in Sections /\ c.sheet \in Sheets
          /\ c.status \in FinishedStatuses
      BY <1>1, <1>12, CallShape DEF CloseRequest, IsDoing, c
    <2>2. StoreStep
      BY <1>4, <1>12, <2>1, RawInTable DEF CloseRequest, StoreStep, c
    <2>3. [op |-> "reread"] \in Calls  BY DEF Calls
    <2> QED  BY <1>12, <2>2, <2>3 DEF CloseRequest, Become
  <1>13. CASE Reread(d)
    <2>1. [op |-> "compose", seen |-> attempt] \in Calls
      BY <1>2 DEF Calls, StoreTypeOK
    <2> QED  BY <1>4, <1>13, <2>1 DEF Reread, Become
  <1>14. CASE Compose(d)
    BY <1>2, <1>14 DEF Compose, Become, StoreStep
  <1>15. ASSUME NEW s \in Sections, NEW q \in Questions, SetBookmark(d, s, q)
         PROVE  Goal
    BY <1>1, <1>3, <1>15 DEF SetBookmark, StoreStep
  <1>16. CASE Drop(d)
    BY <1>2, <1>4, <1>16 DEF Drop, Become
  <1> QED  BY <1>5, <1>6, <1>7, <1>8, <1>9, <1>10, <1>11, <1>12, <1>13,
              <1>14, <1>15, <1>16 DEF Step
-----------------------------------------------------------------------------
(***************************************************************************)
(* The theorems.                                                           *)
(***************************************************************************)

(* Every step, of a caller or of the clock, is at most one transaction.    *)
LEMMA NextIsTransaction ==
    TypeOK /\ [Next]_vars => StoreStep
  <1> SUFFICES ASSUME TypeOK, [Next]_vars PROVE StoreStep
    OBVIOUS
  <1>1. CASE \E d \in Devices : Step(d)
    BY <1>1, StepIsTransaction
  <1>2. CASE Tick \/ UNCHANGED vars
    BY <1>2 DEF Tick, vars, StoreStep, storeVars
  <1> QED  BY <1>1, <1>2 DEF Next

(* The tables, the clock and every caller's record are well-typed in every *)
(* reachable state; in particular a score is always looked up inside the   *)
(* scale table.                                                            *)
THEOREM TypeCorrect == Spec => []TypeOK
  <1>1. Init => TypeOK
    BY DEF Init, TypeOK, StoreInit, StoreTypeOK, NotStarted, Attempts,
           Statuses, Scores, EmptySheet, Sheets, Calls
  <1>2. TypeOK /\ [Next]_vars => TypeOK'
    <2> SUFFICES ASSUME TypeOK, [Next]_vars PROVE TypeOK'
      OBVIOUS
    <2>1. StoreTypeOK'
      BY NextIsTransaction, StoreTyped DEF TypeOK
    <2>2. now' \in Nat /\ call' \in [Devices -> Calls]
      <3>1. ASSUME NEW d \in Devices, Step(d)
            PROVE  now' \in Nat /\ call' \in [Devices -> Calls]
        BY <3>1, StepIsTransaction DEF TypeOK
      <3>2. CASE Tick \/ UNCHANGED vars
        BY <3>2 DEF Tick, vars, TypeOK
      <3> QED  BY <3>1, <3>2 DEF Next
    <2> QED  BY <2>1, <2>2 DEF TypeOK
  <1> QED  BY <1>1, <1>2, PTL DEF Spec

(* No interleaving of begin requests leaves two sections of a run running. *)
THEOREM OneSectionAtATime == Spec => []OneSectionRuns
  <1>1. Init => OneSectionRuns
    BY DEF Init, StoreInit, NotStarted, OneSectionRuns, InProgress
  <1>2. TypeOK /\ OneSectionRuns /\ [Next]_vars => OneSectionRuns'
    BY NextIsTransaction, StoreOneSection DEF TypeOK
  <1> QED  BY <1>1, <1>2, TypeCorrect, PTL DEF Spec

(* DeadlineKept is inductive only together with this: the deadline is set  *)
(* by the begin transaction and no other.                                  *)
DeadlineMeansBegun ==
    \A s \in Sections : attempt[s].deadline # NoDeadline
                          => attempt[s].status # "not_started"

LEMMA DeadlinesAreBegun == Spec => []DeadlineMeansBegun
  <1>1. Init => DeadlineMeansBegun
    BY DEF Init, StoreInit, NotStarted, DeadlineMeansBegun
  <1>2. TypeOK /\ DeadlineMeansBegun /\ [Next]_vars => DeadlineMeansBegun'
    BY NextIsTransaction, AttemptMoves
       DEF TypeOK, DeadlineMeansBegun, FinishedStatuses
  <1> QED  BY <1>1, <1>2, TypeCorrect, PTL DEF Spec

(* FR-37: no request, however it is raced or retried, moves a deadline.    *)
THEOREM DeadlinesKept == Spec => DeadlineKept
  <1>1. TypeOK /\ DeadlineMeansBegun /\ [Next]_vars
          => [\A s \in Sections : attempt[s].deadline # NoDeadline
                => attempt'[s].deadline = attempt[s].deadline]_vars
    BY NextIsTransaction, AttemptMoves DEF TypeOK, DeadlineMeansBegun
  <1> QED  BY <1>1, TypeCorrect, DeadlinesAreBegun, PTL DEF Spec, DeadlineKept

(* A finished attempt is final.                                            *)
LEMMA FinishedStays ==
    ASSUME TypeOK, [Next]_vars, NEW s \in Sections, Finished(s)
    PROVE  attempt'[s] = attempt[s]
  BY NextIsTransaction, AttemptMoves DEF TypeOK, Finished, FinishedStatuses

(* FR-2: late upserts, retried flushes and second finishes leave the       *)
(* result and the answers of a finished section as they are.               *)
THEOREM ResultsFrozen == Spec => ResultFrozen
  <1>1. TypeOK /\ [Next]_vars
          => [\A s \in Sections : Finished(s)
                => /\ attempt'[s] = attempt[s]
                   /\ Unbookmarked(item'[s]) = Unbookmarked(item[s])]_vars
    BY NextIsTransaction, FinishedStays, RowsFrozen DEF TypeOK
  <1> QED  BY <1>1, TypeCorrect, PTL DEF Spec, ResultFrozen

(* FR-4 and FR-39: whatever is replayed or raced, rows are kept, counters  *)
(* do not go down, first answers stay.                                     *)
THEOREM DwellNeverShrinks == Spec => DwellMonotone
  <1>1. TypeOK /\ [Next]_vars
          => [\A s \in Sections : \A q \in Held(item[s]) :
                /\ item'[s][q] # NoRow
                /\ item'[s][q].dwell >= item[s][q].dwell
                /\ item[s][q].first # Never
                     => item'[s][q].first = item[s][q].first]_vars
    BY NextIsTransaction, RowsMonotone DEF TypeOK, Keeps
  <1> QED  BY <1>1, TypeCorrect, PTL DEF Spec, DwellMonotone

(* CompositeHonest is inductive together with this: a caller that is about *)
(* to write the composite has read attempts of which the finished ones are *)
(* still what they were.                                                   *)
SeenIsFinal ==
    \A d \in Devices : IsDoing(d, "compose")
        => \A s \in Sections : call[d].seen[s].status \in FinishedStatuses
                                 => attempt[s] = call[d].seen[s]

(* A caller comes to hold attempts to compute from only by reading them.   *)
LEMMA ComposeIsRead ==
    ASSUME TypeOK, NEW d \in Devices, Step(d),
           call'[d] # call[d], call'[d].op = "compose"
    PROVE  Reread(d)
  <1>1. \A c : Become(d, c) => call'[d] = c
    BY DEF Become, TypeOK
  <1>2. ~Become(d, Idle)
    BY <1>1 DEF Idle
  <1>3. ASSUME NEW s \in Sections, BeginSection(d, s) PROVE FALSE
    BY <1>1, <1>3 DEF BeginSection
  <1>4. ASSUME NEW s \in Sections, UpsertItems(d, s) PROVE FALSE
    BY <1>1, <1>4 DEF UpsertItems
  <1>5. ASSUME NEW s \in Sections, FinishSection(d, s) PROVE FALSE
    BY <1>1, <1>5 DEF FinishSection
  <1>6. CASE ReadAndGrade(d)
    <2>1. PICK sheet, section, status :
             call'[d] = [op |-> IF Held(sheet) = {} THEN "close" ELSE "grade",
                         section |-> section, status |-> status,
                         sheet |-> sheet]
      BY <1>1, <1>6 DEF ReadAndGrade
    <2> QED  BY <2>1
  <1>7. CASE GradedUpsert(d)
    <2>1. call[d] \in Calls /\ call[d].op = "grade"
      BY <1>7 DEF GradedUpsert, IsDoing, TypeOK
    <2>2. [call[d] EXCEPT !.op = "close"].op = "close"
      BY <2>1 DEF Calls, Idle
    <2>3. call'[d] = [call[d] EXCEPT !.op = "close"]
      BY <1>1, <1>2, <1>7 DEF GradedUpsert
    <2> QED  BY <2>2, <2>3
  <1>8. CASE CloseRequest(d)
    BY <1>1, <1>8 DEF CloseRequest
  <1>9. CASE BeginRequest(d) \/ UpsertRequest(d) \/ Compose(d) \/ Drop(d)
    BY <1>2, <1>9 DEF BeginRequest, UpsertRequest, Compose, Drop
  <1>10. ASSUME NEW s \in Sections, NEW q \in Questions, SetBookmark(d, s, q)
         PROVE  FALSE
    BY <1>10 DEF SetBookmark
  <1> QED  BY <1>3, <1>4, <1>5, <1>6, <1>7, <1>8, <1>9, <1>10 DEF Step

(* FR-8: a composite that is shown is the mean of finished sections, and   *)
(* is never stale, although it is written after other callers' requests.   *)
THEOREM CompositesHonest == Spec => []CompositeHonest
  <1> DEFINE Honest == SeenIsFinal /\ CompositeHonest
  <1>1. Init => Honest
    BY DEF Init, StoreInit, SeenIsFinal, CompositeHonest, IsDoing, Idle
  <1>2. TypeOK /\ Honest /\ [Next]_vars => Honest'
    <2> SUFFICES ASSUME TypeOK, SeenIsFinal, CompositeHonest, [Next]_vars
                 PROVE  SeenIsFinal' /\ CompositeHonest'
      OBVIOUS
    <2>1. \A s \in Sections : attempt[s].status \in FinishedStatuses
             => attempt'[s] = attempt[s]
      BY FinishedStays DEF Finished
    <2>2. SeenIsFinal'
      <3> SUFFICES ASSUME NEW d \in Devices, IsDoing(d, "compose")',
                          NEW s \in Sections,
                          call'[d].seen[s].status \in FinishedStatuses
                   PROVE  attempt'[s] = call'[d].seen[s]
        BY DEF SeenIsFinal
      <3>1. CASE call'[d] = call[d]
        BY <2>1, <3>1 DEF SeenIsFinal, IsDoing
      <3>2. CASE call'[d] # call[d]
        <4>1. PICK e \in Devices : Step(e)
          BY <3>2 DEF Next, Tick, vars
        <4>2. e = d
          BY <3>2, <4>1, StepIsTransaction DEF TypeOK
        <4>3. Reread(d)
          BY <3>2, <4>1, <4>2, ComposeIsRead DEF IsDoing
        <4> QED  BY <4>3 DEF Reread, Become, TypeOK, storeVars
      <3> QED  BY <3>1, <3>2
    <2>3. CompositeHonest'
      <3>1. CASE composite' = composite
        <4> SUFFICES ASSUME composite # NoScore
                     PROVE  ExamComposite(attempt') = ExamComposite(attempt)
          BY <3>1 DEF CompositeHonest
        <4> QED  BY <2>1, CompositeReads, StoreAssumption DEF CompositeHonest
      <3>2. ASSUME NEW d \in Devices, Compose(d) PROVE CompositeHonest'
        <4> SUFFICES ASSUME ExamComposite(call[d].seen) # NoScore
                     PROVE  ExamComposite(attempt)
                              = ExamComposite(call[d].seen)
          BY <3>2 DEF Compose, SetExamRunComposite, CompositeHonest
        <4>1. \A s \in CompositeSections :
                 call[d].seen[s].status \in FinishedStatuses
                   => attempt[s] = call[d].seen[s]
          BY <3>2, StoreAssumption DEF Compose, SeenIsFinal
        <4> QED  BY <4>1, CompositeReads
      <3>3. composite' = composite \/ \E d \in Devices : Compose(d)
        BY DEF Next, Tick, vars, storeVars, Step, BeginSection, BeginRequest,
           UpsertItems, UpsertRequest, FinishSection, ReadAndGrade,
           GradedUpsert, CloseRequest, Reread, SetBookmark, Drop,
           BeginExamSection, UpsertExamRunItems, FinishExamSection,
           SetExamBookmark
      <3> QED  BY <3>1, <3>2, <3>3
    <2> QED  BY <2>2, <2>3
  <1> QED  BY <1>1, <1>2, TypeCorrect, PTL DEF Spec

-----------------------------------------------------------------------------
(***************************************************************************)
(* One caller.  What follows holds while a run has one caller at a time;   *)
(* with two, rows that arrive between the reads and the writes of a finish *)
(* are not in its score, and the composite may be written from an old read *)
(* (CompositesHonest is what is left of it then).                          *)
(***************************************************************************)
OneCaller == \A d, e \in Devices : d = e

(* The rows bear the verdicts of their answers.                            *)
Graded(sheet) == \A q \in Held(sheet) : sheet[q].correct = Grade(q, sheet[q])

LEMMA GradedIsGraded ==
    ASSUME NEW sheet \in Sheets
    PROVE  Graded(GradedSheet(sheet))
  <1> SUFFICES ASSUME NEW q \in Held(GradedSheet(sheet))
               PROVE  GradedSheet(sheet)[q].correct = Grade(q, GradedSheet(sheet)[q])
    BY DEF Graded
  <1>1. q \in Questions /\ sheet[q] \in Rows
    BY DEF Held, GradedSheet, Sheets
  <1>2. GradedSheet(sheet)[q] = [sheet[q] EXCEPT !.correct = Grade(q, sheet[q])]
    BY <1>1, NoRowAssumption DEF GradedSheet
  <1>3. /\ GradedSheet(sheet)[q].correct = Grade(q, sheet[q])
        /\ GradedSheet(sheet)[q].letter = sheet[q].letter
    BY <1>1, <1>2 DEF Rows
  <1> QED  BY <1>3 DEF Grade

(* With nobody between the read and the write, the upsert of graded rows   *)
(* leaves exactly the graded rows.                                         *)
LEMMA GradedUpsertStores ==
    ASSUME NEW sheet \in Sheets
    PROVE  UpsertSheet(sheet, GradedSheet(sheet)) = GradedSheet(sheet)
  <1> DEFINE graded == GradedSheet(sheet)
  <1>1. graded \in Sheets  BY GradedIsSheet
  <1>2. ASSUME NEW q \in Questions
        PROVE  UpsertSheet(sheet, graded)[q] = graded[q]
    <2>1. CASE sheet[q] = NoRow
      <3>1. graded[q] = NoRow  BY <2>1 DEF GradedSheet
      <3> QED  BY <2>1, <3>1 DEF UpsertSheet
    <2>2. CASE sheet[q] # NoRow
      <3>1. sheet[q] \in Rows /\ graded[q] = [sheet[q] EXCEPT !.correct = Grade(q, sheet[q])]
        BY <2>2 DEF Sheets, GradedSheet
      <3>2. graded[q] \in Rows
        BY <1>1, <3>1 DEF Sheets, GradedSheet, Rows, Grade
      <3>3. MergeExamDwell(sheet[q], graded[q]) = graded[q]
        BY <3>1, <3>2 DEF MergeExamDwell, Rows, Larger
      <3> HIDE DEF graded
      <3> QED  BY <2>2, <3>2, <3>3, NoRowAssumption DEF UpsertSheet, Upserted
    <2> QED  BY <2>1, <2>2
  <1>3. UpsertSheet(sheet, graded) \in Sheets  BY <1>1, UpsertIsSheet
  <1> HIDE DEF graded
  <1>4. UpsertSheet(sheet, graded) = graded  BY <1>1, <1>2, <1>3 DEF Sheets
  <1> QED  BY <1>4 DEF graded

(* A section without rows has nothing to grade.                            *)
LEMMA NothingToGrade ==
    ASSUME NEW sheet \in Sheets, Held(GradedSheet(sheet)) = {}
    PROVE  GradedSheet(sheet) = sheet
  <1>1. ASSUME NEW q \in Questions
        PROVE  sheet[q] = NoRow /\ GradedSheet(sheet)[q] = NoRow
    <2>1. GradedSheet(sheet)[q] = NoRow  BY DEF Held
    <2>2. sheet[q] = NoRow
      <3> SUFFICES ASSUME sheet[q] # NoRow PROVE FALSE  OBVIOUS
      <3>1. sheet[q] \in Rows  BY DEF Sheets
      <3>2. GradedSheet(sheet)[q] = [sheet[q] EXCEPT !.correct = Grade(q, sheet[q])]
        BY DEF GradedSheet
      <3>3. GradedSheet(sheet)[q] \in Rows
        BY <3>1, <3>2 DEF Rows, Grade
      <3> QED  BY <2>1, <3>3, NoRowAssumption
    <2> QED  BY <2>1, <2>2
  <1>2. GradedSheet(sheet) \in Sheets  BY GradedIsSheet
  <1> QED  BY <1>1, <1>2 DEF Sheets

(* A bookmark is no part of an answer.                                     *)
LEMMA BookmarkScoresNothing ==
    ASSUME NEW sheet \in Sheets, NEW q \in Questions, NEW b \in BOOLEAN,
           sheet[q] # NoRow
    PROVE  /\ RawCorrect([sheet EXCEPT ![q].bookmarked = b]) = RawCorrect(sheet)
           /\ Graded(sheet) => Graded([sheet EXCEPT ![q].bookmarked = b])
  <1> DEFINE new == [sheet EXCEPT ![q].bookmarked = b]
  <1>1. sheet[q] \in Rows  BY DEF Sheets
  <1>2. /\ new[q] = [sheet[q] EXCEPT !.bookmarked = b]
        /\ \A p \in Questions : p # q => new[p] = sheet[p]
    BY DEF Sheets
  <1> HIDE DEF new
  <1>3. /\ new[q] \in Rows /\ new[q].letter = sheet[q].letter
        /\ new[q].correct = sheet[q].correct
    BY <1>1, <1>2 DEF Rows
  <1>4. Held(new) = Held(sheet)
    BY <1>2, <1>3, NoRowAssumption DEF Held
  <1>5. \A p \in Held(sheet) : /\ new[p].letter = sheet[p].letter
                               /\ new[p].correct = sheet[p].correct
    BY <1>2, <1>3 DEF Held
  <1>6. {p \in Scored \cap Held(new) : new[p].letter = Key[p]}
          = {p \in Scored \cap Held(sheet) : sheet[p].letter = Key[p]}
    BY <1>4, <1>5
  <1>7. RawCorrect(new) = RawCorrect(sheet)  BY <1>6 DEF RawCorrect
  <1>8. \A p \in Held(sheet) : Grade(p, new[p]) = Grade(p, sheet[p])
    BY <1>5 DEF Grade
  <1>9. Graded(sheet) => Graded(new)  BY <1>4, <1>5, <1>8 DEF Graded
  <1> QED  BY <1>7, <1>9 DEF new

(* ScoreMatchesItems is inductive together with this: the rows a caller    *)
(* has graded are those of the store, before it writes them and after.     *)
InHand ==
    \A d \in Devices :
        /\ IsDoing(d, "grade") => call[d].sheet = GradedSheet(item[call[d].section])
        /\ IsDoing(d, "close") => /\ call[d].sheet = item[call[d].section]
                                  /\ Graded(call[d].sheet)

ScoredAsGraded ==
    \A s \in Sections : Finished(s) => /\ attempt[s].raw = RawCorrect(item[s])
                                       /\ Graded(item[s])

LEMMA StepScores ==
    ASSUME OneCaller, TypeOK, InHand, ScoredAsGraded, NEW d \in Devices, Step(d)
    PROVE  InHand' /\ ScoredAsGraded'
  <1> DEFINE c == call[d]
             Goal == InHand' /\ ScoredAsGraded'
  <1>1. c \in Calls /\ StoreTypeOK /\ \A e \in Devices : e = d
    BY DEF TypeOK, OneCaller
  <1>2. \A e : Become(d, e) => call'[d] = e
    BY DEF Become, TypeOK
  <1>3. ASSUME call'[d].op \notin {"grade", "close"}  PROVE InHand'
    BY <1>1, <1>3 DEF InHand, IsDoing
  <1>4. ASSUME attempt' = attempt, item' = item  PROVE ScoredAsGraded'
    BY <1>4 DEF ScoredAsGraded, Finished
  <1>5. ASSUME attempt' = attempt, item' = item, call'[d].op \notin {"grade", "close"}
        PROVE  Goal
    BY <1>3, <1>4, <1>5
  <1> SUFFICES Goal  OBVIOUS
  <1> HIDE DEF Goal
  <1>6. ASSUME NEW s \in Sections, BeginSection(d, s) \/ UpsertItems(d, s) \/ FinishSection(d, s)
        PROVE  Goal
    <2>1. call'[d].op \in {"begin", "upsert", "finish"}
      <3>1. CASE BeginSection(d, s)  BY <1>2, <3>1 DEF BeginSection
      <3>2. CASE UpsertItems(d, s)  BY <1>2, <3>2 DEF UpsertItems
      <3>3. CASE FinishSection(d, s)  BY <1>2, <3>3 DEF FinishSection
      <3> QED  BY <1>6, <3>1, <3>2, <3>3
    <2>2. attempt' = attempt /\ item' = item
      BY <1>6 DEF BeginSection, UpsertItems, FinishSection, storeVars
    <2> QED  BY <1>5, <2>1, <2>2
  <1>7. CASE BeginRequest(d)
    <2> DEFINE s == c.section
    <2>1. call'[d].op = "idle"  BY <1>2, <1>7 DEF BeginRequest, Idle
    <2>2. CASE BeginExamSection(s, c.deadline)
      <3>1. item' = item /\ \A u \in Sections : u # s => attempt'[u] = attempt[u]
        BY <1>1, <2>2 DEF BeginExamSection, StoreTypeOK
      <3>2. s \in Sections => attempt'[s].status \notin FinishedStatuses
        BY <1>1, <2>2
           DEF BeginExamSection, StoreTypeOK, Attempts, FinishedStatuses
      <3>3. ScoredAsGraded'  BY <3>1, <3>2 DEF ScoredAsGraded, Finished
      <3> QED  BY <1>3, <2>1, <3>3 DEF Goal
    <2>3. CASE UNCHANGED storeVars  BY <1>5, <2>1, <2>3 DEF storeVars
    <2> QED  BY <1>7, <2>2, <2>3 DEF BeginRequest
  <1>8. CASE UpsertRequest(d)
    <2> DEFINE s == c.section
    <2>1. call'[d].op \in {"idle", "upsert"}
      BY <1>2, <1>8 DEF UpsertRequest, Idle, IsDoing
    <2>2. CASE UpsertExamRunItems(s, c.sheet)
      <3>1. attempt' = attempt /\ \A u \in Sections : u # s => item'[u] = item[u]
        BY <1>1, <2>2 DEF UpsertExamRunItems, StoreTypeOK
      <3>2. ~Finished(s)
        BY <2>2 DEF UpsertExamRunItems, InProgress, Finished, FinishedStatuses
      <3>3. ScoredAsGraded'  BY <3>1, <3>2 DEF ScoredAsGraded, Finished
      <3> QED  BY <1>3, <2>1, <3>3 DEF Goal
    <2>3. CASE UNCHANGED storeVars  BY <1>5, <2>1, <2>3 DEF storeVars
    <2> QED  BY <1>8, <2>2, <2>3 DEF UpsertRequest
  <1>9. CASE ReadAndGrade(d)
    <2> DEFINE s == c.section
               sheet == GradedSheet(item[s])
               op == IF Held(sheet) = {} THEN "close" ELSE "grade"
    <2>1. s \in Sections /\ item[s] \in Sheets
      BY <1>1, <1>9, CallShape DEF ReadAndGrade, IsDoing, StoreTypeOK
    <2>2. PICK status :
             Become(d, [op |-> op, section |-> s, status |-> status, sheet |-> sheet])
      BY <1>9 DEF ReadAndGrade
    <2>3. Graded(sheet) /\ (Held(sheet) = {} => sheet = item[s])
      BY <2>1, GradedIsGraded, NothingToGrade
    <2>4. item' = item /\ attempt' = attempt  BY <1>9 DEF ReadAndGrade, storeVars
    <2>5. call'[d] = [op |-> op, section |-> s, status |-> status, sheet |-> sheet]
      BY <1>2, <2>2
    <2> HIDE DEF sheet, s
    <2>6. /\ call'[d].section = s /\ call'[d].sheet = sheet
          /\ call'[d].op = "close" => Held(sheet) = {}
      BY <2>5
    <2>7. sheet = GradedSheet(item[s])  BY DEF sheet
    <2>8. InHand'  BY <1>1, <2>3, <2>4, <2>6, <2>7 DEF InHand, IsDoing
    <2> QED  BY <1>4, <2>4, <2>8 DEF Goal
  <1>10. CASE GradedUpsert(d)
    <2> DEFINE s == c.section
    <2>1. c.op = "grade" /\ c.sheet = GradedSheet(item[s])
      BY <1>10 DEF GradedUpsert, InHand, IsDoing
    <2>2. s \in Sections /\ item[s] \in Sheets
      BY <1>1, <2>1, CallShape DEF StoreTypeOK
    <2>3. CASE ~InProgress(s)
      <3>1. UNCHANGED storeVars /\ call'[d].op = "idle"
        BY <1>2, <1>10, <2>3 DEF GradedUpsert, Idle
      <3> QED  BY <1>5, <3>1 DEF storeVars
    <2>4. CASE InProgress(s)
      <3>1. /\ item' = [item EXCEPT ![s] = UpsertSheet(item[s], c.sheet)]
            /\ attempt' = attempt
        BY <1>10, <2>4 DEF GradedUpsert, UpsertExamRunItems
      <3>2. item'[s] = c.sheet /\ \A u \in Sections : u # s => item'[u] = item[u]
        BY <1>1, <2>1, <2>2, <3>1, GradedUpsertStores DEF StoreTypeOK
      <3>3. ~Finished(s)  BY <2>4 DEF InProgress, Finished, FinishedStatuses
      <3>4. ScoredAsGraded'  BY <3>1, <3>2, <3>3 DEF ScoredAsGraded, Finished
      <3>5. call'[d] = [c EXCEPT !.op = "close"]
        BY <1>2, <1>10, <2>4 DEF GradedUpsert
      <3>6. call'[d].op = "close" /\ call'[d].section = s /\ call'[d].sheet = c.sheet
        BY <1>1, <2>1, <3>5 DEF Calls, Idle
      <3>7. Graded(c.sheet)  BY <2>1, <2>2, GradedIsGraded
      <3>8. InHand'  BY <1>1, <3>2, <3>6, <3>7 DEF InHand, IsDoing
      <3> QED  BY <3>4, <3>8 DEF Goal
    <2> QED  BY <2>3, <2>4
  <1>11. CASE CloseRequest(d)
    <2> DEFINE s == c.section
    <2>1. c.op = "close" /\ c.sheet = item[s] /\ Graded(item[s])
      BY <1>11 DEF CloseRequest, InHand, IsDoing
    <2>2. s \in Sections  BY <1>1, <2>1, CallShape
    <2>3. call'[d].op = "reread"  BY <1>2, <1>11 DEF CloseRequest
    <2>4. CASE ~InProgress(s)
      <3>1. UNCHANGED storeVars  BY <1>11, <2>4 DEF CloseRequest
      <3> QED  BY <1>5, <2>3, <3>1 DEF storeVars
    <2>5. CASE InProgress(s)
      <3>1. FinishExamSection(s, c.status, RawCorrect(c.sheet), Scale[RawCorrect(c.sheet)])
        BY <1>11, <2>5 DEF CloseRequest
      <3>2. /\ item' = item /\ attempt'[s].raw = RawCorrect(c.sheet)
            /\ \A u \in Sections : u # s => attempt'[u] = attempt[u]
        BY <1>1, <2>2, <3>1 DEF FinishExamSection, StoreTypeOK, Attempts
      <3>3. ScoredAsGraded'  BY <2>1, <2>2, <3>2 DEF ScoredAsGraded, Finished
      <3> QED  BY <1>3, <2>3, <3>3 DEF Goal
    <2> QED  BY <2>4, <2>5
  <1>12. CASE Reread(d) \/ Compose(d) \/ Drop(d)
    <2>1. call'[d].op \in {"compose", "idle"}
      BY <1>2, <1>12 DEF Reread, Compose, Drop, Idle
    <2>2. attempt' = attempt /\ item' = item
      BY <1>12 DEF Reread, Compose, Drop, SetExamRunComposite, storeVars
    <2> QED  BY <1>5, <2>1, <2>2
  <1>13. ASSUME NEW s \in Sections, NEW q \in Questions, SetBookmark(d, s, q)
         PROVE  Goal
    <2>1. PICK b \in BOOLEAN : SetExamBookmark(s, q, b)  BY <1>13 DEF SetBookmark
    <2>2. call'[d].op = "idle"  BY <1>13 DEF SetBookmark, IsDoing
    <2>3. /\ item[s] \in Sheets /\ item[s][q] # NoRow /\ attempt' = attempt
          /\ item'[s] = [item[s] EXCEPT ![q].bookmarked = b]
          /\ \A u \in Sections : u # s => item'[u] = item[u]
      BY <1>1, <2>1 DEF SetExamBookmark, StoreTypeOK
    <2>4. /\ RawCorrect(item'[s]) = RawCorrect(item[s])
          /\ Graded(item[s]) => Graded(item'[s])
      BY <2>3, BookmarkScoresNothing
    <2>5. ScoredAsGraded'  BY <2>3, <2>4 DEF ScoredAsGraded, Finished
    <2> QED  BY <1>3, <2>2, <2>5 DEF Goal
  <1> QED  BY <1>6, <1>7, <1>8, <1>9, <1>10, <1>11, <1>12, <1>13 DEF Step

(* FR-27: while a run has one caller, the score of a finished section and  *)
(* the verdicts in its rows are those of the answers in its rows, whatever *)
(* replies are lost, retried or abandoned.                                 *)
THEOREM ScoresMatchItems ==
    ASSUME OneCaller PROVE Spec => []ScoreMatchesItems
  <1>1. Init => InHand /\ ScoredAsGraded
    BY DEF Init, StoreInit, NotStarted, InHand, ScoredAsGraded, Finished,
           FinishedStatuses, IsDoing, Idle
  <1>2. TypeOK /\ InHand /\ ScoredAsGraded /\ [Next]_vars
          => InHand' /\ ScoredAsGraded'
    <2> SUFFICES ASSUME TypeOK, InHand, ScoredAsGraded, [Next]_vars
                 PROVE  InHand' /\ ScoredAsGraded'
      OBVIOUS
    <2>1. CASE \E d \in Devices : Step(d)  BY <2>1, StepScores
    <2>2. CASE Tick \/ UNCHANGED vars
      <3>1. item' = item /\ attempt' = attempt /\ call' = call
        BY <2>2 DEF Tick, vars, storeVars
      <3> QED  BY <3>1 DEF InHand, ScoredAsGraded, Finished, IsDoing
    <2> QED  BY <2>1, <2>2 DEF Next
  <1>3. ScoredAsGraded => ScoreMatchesItems
    BY DEF ScoredAsGraded, ScoreMatchesItems, Graded
  <1> QED  BY <1>1, <1>2, <1>3, TypeCorrect, PTL DEF Spec

(* CompositePersisted is inductive together with this: nobody but the      *)
(* caller that has just closed a section knows a newer composite.          *)
Composed ==
    \A d \in Devices :
        /\ ~IsDoing(d, "reread") /\ ~IsDoing(d, "compose")
             => composite = ExamComposite(attempt)
        /\ IsDoing(d, "compose") => call[d].seen = attempt

(* A section that has begun and is not finished leaves the composite.      *)
LEMMA BeginComposesNothing ==
    ASSUME NEW s, attempt[s].status \notin FinishedStatuses,
           attempt'[s].status \notin FinishedStatuses,
           \A u \in Sections : u # s => attempt'[u] = attempt[u]
    PROVE  ExamComposite(attempt') = ExamComposite(attempt)
  <1>1. CompositeSections \subseteq Sections  BY StoreAssumption
  <1>2. CASE s \in CompositeSections  BY <1>2 DEF ExamComposite
  <1>3. CASE s \notin CompositeSections
    <2>1. \A u \in CompositeSections : attempt'[u] = attempt[u]  BY <1>1, <1>3
    <2>2. [u \in CompositeSections |-> attempt'[u].scale]
            = [u \in CompositeSections |-> attempt[u].scale]
      BY <2>1
    <2> QED  BY <2>1, <2>2 DEF ExamComposite
  <1> QED  BY <1>2, <1>3

LEMMA StepComposes ==
    ASSUME OneCaller, ~MayDrop, TypeOK, Composed, NEW d \in Devices, Step(d)
    PROVE  Composed'
  <1> DEFINE c == call[d]
             Goal == Composed'
  <1>1. c \in Calls /\ StoreTypeOK /\ \A e \in Devices : e = d
    BY DEF TypeOK, OneCaller
  <1>2. \A e : Become(d, e) => call'[d] = e
    BY DEF Become, TypeOK
  <1>3. ASSUME c.op \notin {"reread", "compose"}, composite' = composite,
               ExamComposite(attempt') = ExamComposite(attempt),
               call'[d].op # "compose"
        PROVE  Goal
    BY <1>1, <1>3 DEF Composed, IsDoing
  <1> SUFFICES Goal  OBVIOUS
  <1> HIDE DEF Goal
  <1>4. ASSUME NEW s \in Sections, BeginSection(d, s) \/ UpsertItems(d, s) \/ FinishSection(d, s)
        PROVE  Goal
    <2>1. call'[d].op \in {"begin", "upsert", "finish"}
      <3>1. CASE BeginSection(d, s)  BY <1>2, <3>1 DEF BeginSection
      <3>2. CASE UpsertItems(d, s)  BY <1>2, <3>2 DEF UpsertItems
      <3>3. CASE FinishSection(d, s)  BY <1>2, <3>3 DEF FinishSection
      <3> QED  BY <1>4, <3>1, <3>2, <3>3
    <2>2. /\ c.op = "idle" /\ attempt' = attempt /\ composite' = composite
      BY <1>4 DEF BeginSection, UpsertItems, FinishSection, IsDoing, storeVars
    <2> QED  BY <1>3, <2>1, <2>2
  <1>5. CASE BeginRequest(d)
    <2> DEFINE s == c.section
    <2>1. call'[d].op = "idle" /\ c.op = "begin"
      BY <1>2, <1>5 DEF BeginRequest, Idle, IsDoing
    <2>2. CASE BeginExamSection(s, c.deadline)
      <3>1. s \in Sections  BY <1>1, <2>1, CallShape
      <3>2. /\ composite' = composite
            /\ attempt[s].status \notin FinishedStatuses
            /\ attempt'[s].status \notin FinishedStatuses
            /\ \A u \in Sections : u # s => attempt'[u] = attempt[u]
        BY <1>1, <2>2, <3>1
           DEF BeginExamSection, MayBegin, StoreTypeOK, Attempts, FinishedStatuses
      <3>3. ExamComposite(attempt') = ExamComposite(attempt)
        BY <3>2, BeginComposesNothing
      <3> QED  BY <1>3, <2>1, <3>2, <3>3
    <2>3. CASE UNCHANGED storeVars  BY <1>3, <2>1, <2>3 DEF storeVars
    <2> QED  BY <1>5, <2>2, <2>3 DEF BeginRequest
  <1>6. CASE UpsertRequest(d) \/ ReadAndGrade(d)
    <2>1. c.op \in {"upsert", "finish"} /\ attempt' = attempt /\ composite' = composite
      BY <1>6 DEF UpsertRequest, ReadAndGrade, UpsertExamRunItems, IsDoing, storeVars
    <2>2. call'[d].op # "compose"
      <3>1. CASE UpsertRequest(d)
        BY <1>2, <3>1 DEF UpsertRequest, Idle, IsDoing
      <3>2. CASE ReadAndGrade(d)
        <4>1. PICK sheet, section, status :
                 call'[d] = [op |-> IF Held(sheet) = {} THEN "close" ELSE "grade",
                             section |-> section, status |-> status,
                             sheet |-> sheet]
          BY <1>2, <3>2 DEF ReadAndGrade
        <4> QED  BY <4>1
      <3> QED  BY <1>6, <3>1, <3>2
    <2> QED  BY <1>3, <2>1, <2>2
  <1>7. CASE GradedUpsert(d)
    <2>1. c.op = "grade" /\ attempt' = attempt /\ composite' = composite
      BY <1>7 DEF GradedUpsert, UpsertExamRunItems, IsDoing, storeVars
    <2>2. call'[d] = [c EXCEPT !.op = "close"] \/ call'[d] = Idle
      BY <1>2, <1>7 DEF GradedUpsert
    <2>3. [c EXCEPT !.op = "close"].op = "close"  BY <1>1, <2>1 DEF Calls, Idle
    <2>4. CASE call'[d] = Idle  BY <1>3, <2>1, <2>4 DEF Idle
    <2>5. CASE call'[d] = [c EXCEPT !.op = "close"]
      <3>1. call'[d].op = "close"  BY <2>3, <2>5
      <3> QED  BY <1>3, <2>1, <3>1
    <2> QED  BY <2>2, <2>4, <2>5
  <1>8. CASE CloseRequest(d)
    <2>1. call'[d].op = "reread"  BY <1>2, <1>8 DEF CloseRequest
    <2> QED  BY <1>1, <2>1 DEF Goal, Composed, IsDoing
  <1>9. CASE Reread(d)
    <2>1. call'[d] = [op |-> "compose", seen |-> attempt] /\ attempt' = attempt
      BY <1>2, <1>9 DEF Reread, storeVars
    <2> QED  BY <1>1, <2>1 DEF Goal, Composed, IsDoing
  <1>10. CASE Compose(d)
    <2>1. /\ call'[d].op = "idle" /\ attempt' = attempt
          /\ composite' = ExamComposite(c.seen) /\ c.op = "compose"
      BY <1>2, <1>10 DEF Compose, SetExamRunComposite, Idle, IsDoing
    <2>2. c.seen = attempt  BY <2>1 DEF Composed, IsDoing
    <2> QED  BY <1>1, <2>1, <2>2 DEF Goal, Composed, IsDoing
  <1>11. ASSUME NEW s \in Sections, NEW q \in Questions, SetBookmark(d, s, q)
         PROVE  Goal
    <2>1. /\ c.op = "idle" /\ call' = call /\ attempt' = attempt
          /\ composite' = composite
      BY <1>11 DEF SetBookmark, SetExamBookmark, IsDoing
    <2> QED  BY <1>3, <2>1
  <1>12. ~Drop(d)  BY DEF Drop
  <1> QED
    BY <1>4, <1>5, <1>6, <1>7, <1>8, <1>9, <1>10, <1>11, <1>12 DEF Step

(* FR-28: once the one caller of a run is done, and no request of it was   *)
(* abandoned, the composite of the finished sections is on the run.        *)
THEOREM CompositesPersisted ==
    ASSUME OneCaller, ~MayDrop, Devices # {}
    PROVE  Spec => []CompositePersisted
  <1>1. Init => Composed
    <2> SUFFICES ASSUME Init PROVE Composed  OBVIOUS
    <2>1. ExamComposite(attempt) = NoScore
      BY StoreAssumption
         DEF Init, StoreInit, NotStarted, ExamComposite, FinishedStatuses
    <2> QED  BY <2>1 DEF Init, StoreInit, Composed, IsDoing, Idle
  <1>2. TypeOK /\ Composed /\ [Next]_vars => Composed'
    <2> SUFFICES ASSUME TypeOK, Composed, [Next]_vars PROVE Composed'  OBVIOUS
    <2>1. CASE \E d \in Devices : Step(d)  BY <2>1, StepComposes
    <2>2. CASE Tick \/ UNCHANGED vars
      <3>1. attempt' = attempt /\ composite' = composite /\ call' = call
        BY <2>2 DEF Tick, vars, storeVars
      <3> QED  BY <3>1 DEF Composed, IsDoing
    <2> QED  BY <2>1, <2>2 DEF Next
  <1>3. Composed => CompositePersisted
    BY DEF Composed, CompositePersisted, IsDoing
  <1> QED  BY <1>1, <1>2, <1>3, TypeCorrect, PTL DEF Spec
=============================================================================
