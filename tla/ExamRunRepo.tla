----------------------------- MODULE ExamRunRepo -----------------------------
(***************************************************************************)
(* ExamRunRepo over the engine database: several callers work on the same  *)
(* run.  A caller is one chain of requests: a device, a second tab, or the *)
(* background flush of a client whose foreground is finishing a section.   *)
(*                                                                         *)
(* Every repository method is a sequence of database requests, and other   *)
(* callers' requests fall between them.  What a caller has read and not    *)
(* yet used is kept in call[d].  Between two requests a caller may vanish  *)
(* (lost request, lost reply, closed tab), which is the action Drop; an    *)
(* upsert whose reply is lost is sent again by the write buffer.           *)
(***************************************************************************)
EXTENDS ExamStore

CONSTANTS
    Devices,    \* the callers
    Minutes,    \* section.minutes
    MaxTime,    \* bound on the clock
    MaxDwell,  \* bound on the dwell of a row
    MayDrop     \* may callers vanish between two requests?

ASSUME RepoAssumption ==
    /\ Minutes \in Nat /\ MaxTime \in Nat /\ MaxDwell \in Nat
    /\ MayDrop \in BOOLEAN

VARIABLES
    now,    \* the wall clock
    call    \* what each caller is doing, with what it has read so far

vars == <<attempt, item, composite, now, call>>

Idle == [op |-> "idle"]

Calls ==
    {Idle}
    \cup [op : {"begin"}, section : Sections, deadline : Nat]
    \cup [op : {"upsert"}, section : Sections, sheet : Sheets]
    \cup [op : {"finish"}, section : Sections, status : FinishedStatuses]
    \cup [op : {"grade", "close"}, section : Sections,
          status : FinishedStatuses, sheet : Sheets]
    \cup [op : {"reread"}]
    \cup [op : {"compose"}, seen : [Sections -> Attempts]]

TypeOK ==
    /\ StoreTypeOK
    /\ now \in Nat
    /\ call \in [Devices -> Calls]

Init ==
    /\ StoreInit
    /\ now = 0
    /\ call = [d \in Devices |-> Idle]

(* Caller d goes on to its next request, or to Idle.                       *)
Become(d, next) == call' = [call EXCEPT ![d] = next]

IsDoing(d, op) == call[d].op = op

-----------------------------------------------------------------------------
(* Mutant of BeginSection: the deadline is not computed.                   *)
BeginSectionUntimed(d, s) ==
    /\ IsDoing(d, "idle")
    /\ Become(d, [op |-> "begin", section |-> s, deadline |-> NoDeadline])
    /\ UNCHANGED <<storeVars, now>>

(* beginSection: the caller computes the deadline from its own clock and   *)
(* then sends the request.                                                 *)
BeginSection(d, s) ==
    /\ IsDoing(d, "idle")
    /\ Become(d, [op |-> "begin", section |-> s, deadline |-> now + Minutes])
    /\ UNCHANGED <<storeVars, now>>

BeginRequest(d) ==
    /\ IsDoing(d, "begin")
    /\ LET s == call[d].section
       IN  IF MayBegin(s) THEN BeginExamSection(s, call[d].deadline)
                          ELSE UNCHANGED storeVars
    /\ Become(d, Idle)
    /\ UNCHANGED now

(* upsertItems: rows that a client edited by now.  A row with a letter has *)
(* a first answer; a cleared row keeps it.                                 *)
ClientRows ==
    {[letter |-> l, dwell |-> e, first |-> f, stamp |-> now,
      correct |-> "ungraded", bookmarked |-> FALSE] :
         l \in ChosenLetters, e \in 0..MaxDwell, f \in {Never} \cup 0..now}

UpsertItems(d, s) ==
    /\ IsDoing(d, "idle")
    /\ \E q \in Questions, row \in ClientRows :
           /\ row.letter # Blank => row.first # Never
           /\ Become(d, [op |-> "upsert", section |-> s,
                         sheet |-> [EmptySheet EXCEPT ![q] = row]])
    /\ UNCHANGED <<storeVars, now>>

(* The transaction throws when the section is not in progress.  After a    *)
(* success whose reply is lost the caller holds the rows and sends them    *)
(* again later.                                                            *)
UpsertRequest(d) ==
    /\ IsDoing(d, "upsert")
    /\ LET s == call[d].section
       IN  IF InProgress(s)
           THEN /\ UpsertExamRunItems(s, call[d].sheet)
                /\ \/ Become(d, Idle)
                   \/ MayDrop /\ UNCHANGED call
           ELSE UNCHANGED storeVars /\ Become(d, Idle)
    /\ UNCHANGED now

-----------------------------------------------------------------------------
(* finishSection, first read: an attempt that is already finished is       *)
(* returned as it is; otherwise the caller decides the final status by its *)
(* own clock.                                                              *)
FinalStatus(s) == IF now >= attempt[s].deadline THEN "expired" ELSE "submitted"

FinishSection(d, s) ==
    /\ IsDoing(d, "idle")
    /\ InProgress(s)
    /\ Become(d, [op |-> "finish", section |-> s, status |-> FinalStatus(s)])
    /\ UNCHANGED <<storeVars, now>>

(* Mutant of ReadAndGrade: the graded rows are not written back.           *)
ReadAndClose(d) ==
    /\ IsDoing(d, "finish")
    /\ Become(d, [op |-> "close",
                  section |-> call[d].section,
                  status |-> call[d].status,
                  sheet |-> GradedSheet(item[call[d].section])])
    /\ UNCHANGED <<storeVars, now>>

(* The rows are read and graded: by the caller for a bundled form, which   *)
(* decides the status after this read, or by the route for an asset-served *)
(* one (finishExamSectionServer), which is told the status decided before. *)
ReadAndGrade(d) ==
    /\ IsDoing(d, "finish")
    /\ LET s == call[d].section
           sheet == GradedSheet(item[s])
       IN  \E status \in {call[d].status, FinalStatus(s)} :
              Become(d, [op |-> IF Held(sheet) = {} THEN "close" ELSE "grade",
                         section |-> s,
                         status |-> status,
                         sheet |-> sheet])
    /\ UNCHANGED <<storeVars, now>>

(* The graded rows are upserted; the transaction throws, and finishSection *)
(* with it, if another caller has finished the section meanwhile.          *)
GradedUpsert(d) ==
    /\ IsDoing(d, "grade")
    /\ LET s == call[d].section
       IN  IF InProgress(s)
           THEN /\ UpsertExamRunItems(s, call[d].sheet)
                /\ Become(d, [call[d] EXCEPT !.op = "close"])
           ELSE UNCHANGED storeVars /\ Become(d, Idle)
    /\ UNCHANGED now

(* Mutant of CloseRequest: nobody computes the composite afterwards.       *)
CloseAndStop(d) ==
    /\ IsDoing(d, "close")
    /\ LET s == call[d].section
           raw == RawCorrect(call[d].sheet)
       IN  IF InProgress(s)
           THEN FinishExamSection(s, call[d].status, raw, Scale[raw])
           ELSE UNCHANGED storeVars
    /\ Become(d, Idle)
    /\ UNCHANGED now

(* The attempt is closed with the score of the rows that were read.  If    *)
(* it is finished already, the stored attempt is returned and the caller   *)
(* goes on.                                                                *)
CloseRequest(d) ==
    /\ IsDoing(d, "close")
    /\ LET s == call[d].section
           raw == RawCorrect(call[d].sheet)
       IN  IF InProgress(s)
           THEN FinishExamSection(s, call[d].status, raw, Scale[raw])
           ELSE UNCHANGED storeVars
    /\ Become(d, [op |-> "reread"])
    /\ UNCHANGED now

(* The run is read again ...                                               *)
Reread(d) ==
    /\ IsDoing(d, "reread")
    /\ Become(d, [op |-> "compose", seen |-> attempt])
    /\ UNCHANGED <<storeVars, now>>

(* Mutant of Compose: the composite of the sections finished so far.       *)
ComposePartially(d) ==
    /\ IsDoing(d, "compose")
    /\ LET seen == call[d].seen
           done == {s \in CompositeSections : seen[s].scale # NoScore}
           sum == SumFunction([s \in done |-> seen[s].scale])
       IN  SetExamRunComposite(IF done = {} THEN NoScore
                               ELSE sum \div Cardinality(done))
    /\ Become(d, Idle)
    /\ UNCHANGED now

(* ... and the composite of what was read is written, whatever the         *)
(* attempts and the stored composite have become meanwhile.                *)
Compose(d) ==
    /\ IsDoing(d, "compose")
    /\ SetExamRunComposite(ExamComposite(call[d].seen))
    /\ Become(d, Idle)
    /\ UNCHANGED now

-----------------------------------------------------------------------------
SetBookmark(d, s, q) ==
    /\ IsDoing(d, "idle")
    /\ \E b \in BOOLEAN : SetExamBookmark(s, q, b)
    /\ UNCHANGED <<now, call>>

(* The caller is gone: nothing it has read will be used.                   *)
Drop(d) ==
    /\ MayDrop
    /\ ~IsDoing(d, "idle")
    /\ Become(d, Idle)
    /\ UNCHANGED <<storeVars, now>>

Tick ==
    /\ now < MaxTime
    /\ now' = now + 1
    /\ UNCHANGED <<storeVars, call>>

Step(d) ==
    \/ \E s \in Sections : BeginSection(d, s)
    \/ BeginRequest(d)
    \/ \E s \in Sections : UpsertItems(d, s)
    \/ UpsertRequest(d)
    \/ \E s \in Sections : FinishSection(d, s)
    \/ ReadAndGrade(d)
    \/ GradedUpsert(d)
    \/ CloseRequest(d)
    \/ Reread(d)
    \/ Compose(d)
    \/ \E s \in Sections, q \in Questions : SetBookmark(d, s, q)
    \/ Drop(d)

Next == (\E d \in Devices : Step(d)) \/ Tick

Spec == Init /\ [][Next]_vars

-----------------------------------------------------------------------------
(***************************************************************************)
(* Properties.                                                             *)
(***************************************************************************)

(* Two begin requests, from any callers in any order, never leave two      *)
(* sections of a run running at once ("another section is in progress").   *)
OneSectionRuns ==
    \A s, t \in Sections : InProgress(s) /\ InProgress(t) => s = t

(* FR-37 keep-first: no request, retried or raced, moves a deadline that   *)
(* has been set, so nobody gains time.                                     *)
DeadlineKept ==
    [][\A s \in Sections : attempt[s].deadline # NoDeadline
                             => attempt'[s].deadline = attempt[s].deadline]_vars

(* FR-2 finish-once: after a section is finished its status and score stay *)
(* and no late upsert, retried flush or second finish touches its rows;    *)
(* only the bookmarks of the review move.                                  *)
Unbookmarked(sheet) ==
    [q \in Questions |-> IF sheet[q] = NoRow THEN NoRow
                         ELSE [sheet[q] EXCEPT !.bookmarked = FALSE]]

ResultFrozen ==
    [][\A s \in Sections :
          Finished(s) => /\ attempt'[s] = attempt[s]
                         /\ Unbookmarked(item'[s]) = Unbookmarked(item[s])]_vars

(* FR-4 and FR-39: whatever is replayed, raced or graded, a stored row is  *)
(* never dropped, its counters never go down and its first answer is never *)
(* replaced.                                                               *)
DwellMonotone ==
    [][\A s \in Sections : \A q \in Held(item[s]) :
          /\ item'[s][q] # NoRow
          /\ item'[s][q].dwell >= item[s][q].dwell
          /\ item[s][q].first # Never => item'[s][q].first = item[s][q].first]_vars

(* FR-8: a composite that is shown is the rounded mean of finished         *)
(* sections, never a partial or a stale one, although it is written long   *)
(* after the read it was computed from.                                    *)
CompositeHonest ==
    composite # NoScore => composite = ExamComposite(attempt)

(* FR-27: when a section is finished, its stored score and the verdicts in *)
(* its rows are those of the answers in its rows.                          *)
ScoreMatchesItems ==
    \A s \in Sections : Finished(s) =>
        /\ attempt[s].raw = RawCorrect(item[s])
        /\ \A q \in Held(item[s]) : item[s][q].correct = Grade(q, item[s][q])

(* FR-28: once every caller is done, the composite of the finished         *)
(* sections is on the run.                                                 *)
CompositePersisted ==
    (\A d \in Devices : IsDoing(d, "idle")) => composite = ExamComposite(attempt)
=============================================================================
