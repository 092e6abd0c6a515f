------------------------------ MODULE ExamStore ------------------------------
(***************************************************************************)
(* The exam tables of the engine database for one run: the section         *)
(* attempts, the item rows and the run's composite, with the transactions  *)
(* of the EngineDb exam methods.  Each operator below is one transaction:  *)
(* begin, upsert and finish lock the run row (SELECT ... FOR UPDATE), so   *)
(* they are serial on one run; the composite is one UPDATE; a bookmark is  *)
(* a check and an UPDATE, and what it checks cannot become false.  A       *)
(* transaction that throws changes nothing: its guard is false.            *)
(*                                                                         *)
(* Times are small naturals of one clock; the questions of every section   *)
(* are represented by the same set, the sections keep separate rows.       *)
(***************************************************************************)
EXTENDS ExamRows, Functions

CONSTANTS
    Sections,           \* section codes of the form
    CompositeSections,  \* form.composite_sections
    Scored,             \* the questions with scored = true
    Key,                \* the right letter of each question
    Scale,              \* scale_table: raw score -> scale score or NoScore
    NoScore             \* null for a raw score, a scale score or a composite

ASSUME StoreAssumption ==
    /\ IsFiniteSet(Sections)
    /\ CompositeSections \subseteq Sections
    /\ Scored \subseteq Questions
    /\ Key \in [Questions -> Letters]
    /\ NoScore \notin Nat
    /\ Scale \in [0..Cardinality(Questions) -> Nat \cup {NoScore}]

VARIABLES
    attempt,    \* exam_section_attempt: one record per section
    item,       \* exam_run_item: the rows of each section
    composite   \* exam_run.composite

storeVars == <<attempt, item, composite>>

NoDeadline == -1
FinishedStatuses == {"submitted", "expired"}
Statuses == {"not_started", "in_progress"} \cup FinishedStatuses
Scores == Nat \cup {NoScore}

Attempts == [status : Statuses, deadline : Nat \cup {NoDeadline},
             raw : Scores, scale : Scores]

(* A section without a row counts as not_started.                          *)
NotStarted == [status |-> "not_started", deadline |-> NoDeadline,
               raw |-> NoScore, scale |-> NoScore]

(* What composite may be is said exactly by ExamRunRepo's CompositeHonest. *)
StoreTypeOK ==
    /\ attempt \in [Sections -> Attempts]
    /\ item \in [Sections -> Sheets]

StoreInit ==
    /\ attempt = [s \in Sections |-> NotStarted]
    /\ item = [s \in Sections |-> EmptySheet]
    /\ composite = NoScore

(* Mutant of InProgress: every attempt that has a row counts.              *)
HasAttempt(s) == attempt[s].status # "not_started"

InProgress(s) == attempt[s].status = "in_progress"
Finished(s) == attempt[s].status \in FinishedStatuses

-----------------------------------------------------------------------------
(***************************************************************************)
(* Scoring, pure.                                                          *)
(***************************************************************************)
Grade(q, row) ==
    CASE row.letter = Blank  -> "ungraded"
      [] row.letter = Key[q] -> "right"
      [] OTHER               -> "wrong"

(* The rows of a section with the grader's verdict written into them.      *)
GradedSheet(sheet) ==
    [q \in Questions |->
        IF sheet[q] = NoRow THEN NoRow
        ELSE [sheet[q] EXCEPT !.correct = Grade(q, sheet[q])]]

RawCorrect(sheet) ==
    Cardinality({q \in Scored \cap Held(sheet) : sheet[q].letter = Key[q]})

(* examComposite: null until every composite section is finished and has a *)
(* scale score, then the mean rounded to the nearest integer, .5 up.       *)
ExamComposite(att) ==
    LET n == Cardinality(CompositeSections)
        sum == SumFunction([s \in CompositeSections |-> att[s].scale])
    IN  IF \/ CompositeSections = {}
           \/ \E s \in CompositeSections :
                 att[s].status \notin FinishedStatuses \/ att[s].scale = NoScore
        THEN NoScore
        ELSE (2 * sum + n) \div (2 * n)

-----------------------------------------------------------------------------
(***************************************************************************)
(* The transactions.                                                       *)
(***************************************************************************)

(* Mutant of MayBegin: only the section itself is looked at.               *)
MayBeginBesideAnother(s) == attempt[s].status = "not_started"

(* Mutant of MayBegin: a section that is in progress is begun anew.        *)
MayBeginAnew(s) ==
    /\ ~Finished(s)
    /\ \A t \in Sections \ {s} : ~InProgress(t)

(* beginExamSection on a section that is in progress returns the stored    *)
(* attempt and writes nothing; on a finished section, or while another     *)
(* section of the run is in progress, it throws.                           *)
MayBegin(s) ==
    /\ attempt[s].status = "not_started"
    /\ \A t \in Sections : ~InProgress(t)

BeginExamSection(s, deadline) ==
    /\ MayBegin(s)
    /\ attempt' = [attempt EXCEPT ![s].status = "in_progress",
                                  ![s].deadline = deadline]
    /\ UNCHANGED <<item, composite>>

UpsertExamRunItems(s, sheet) ==
    /\ InProgress(s)
    /\ item' = [item EXCEPT ![s] = UpsertSheet(@, sheet)]
    /\ UNCHANGED <<attempt, composite>>

(* The UPDATE carries WHERE status = 'in_progress'; a finished attempt is  *)
(* returned as it is stored.                                               *)
FinishExamSection(s, status, raw, scale) ==
    /\ InProgress(s)
    /\ attempt' = [attempt EXCEPT ![s].status = status,
                                  ![s].raw = raw,
                                  ![s].scale = scale]
    /\ UNCHANGED <<item, composite>>

SetExamRunComposite(value) ==
    /\ composite' = value
    /\ UNCHANGED <<attempt, item>>

SetExamBookmark(s, q, bookmarked) ==
    /\ Finished(s)
    /\ item[s][q] # NoRow
    /\ item' = [item EXCEPT ![s][q].bookmarked = bookmarked]
    /\ UNCHANGED <<attempt, composite>>
=============================================================================
