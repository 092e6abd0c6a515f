----------------------------- MODULE ExamSection -----------------------------
(***************************************************************************)
(* One browser page that sits one exam section: the section reducer        *)
(* (createExamSectionState / reduceExamSection), the session around it     *)
(* (createExamSectionSession) with its write buffer, and the server's      *)
(* attempt and rows of the section.                                        *)
(*                                                                         *)
(* The session runs its operations one after the other (tail): op is the   *)
(* operation that is running, and a learner's action starts only when      *)
(* there is none.  Timers of the buffer and the pagehide and               *)
(* visibilitychange handlers do not queue up there: they run whenever the  *)
(* JavaScript stack is empty, also while an operation awaits a request.    *)
(*                                                                         *)
(* One clock now stands for the wall clock, the monotonic clock and the    *)
(* server's clock.  Several edits may happen at one reading of it.  The    *)
(* requests inside finishSection are one step here; ExamRunRepo takes them *)
(* apart.                                                                  *)
(***************************************************************************)
EXTENDS ExamWriteBuffer

CONSTANTS
    First,      \* questionIds[0], the question a page opens with
    Minutes,    \* the section's duration
    MaxTime,    \* bound on the clock; no edits are made at the bound
    MaxReloads  \* bound on the page reloads

ASSUME SectionAssumption ==
    /\ First \in Questions
    /\ Minutes \in Nat /\ MaxTime \in Nat /\ MaxReloads \in Nat

VARIABLES
    phase,          \* directions, in_section or finished
    finishStatus,   \* none, submitted or expired, as the page shows it
    cur,            \* the current question
    live,           \* the reducer's items
    visit,          \* visitStartedMono, or NoVisit
    hidden,         \* the page is hidden
    blank,          \* pendingBlankConfirm is set
    op,             \* the session operation that is running
    next,           \* the items of the state a running submit will switch to
    notice,         \* saveNotice = "not saved"
    status,         \* the server's attempt: its status ...
    deadline,       \* ... and deadline_at
    now,            \* the clock
    reloads,        \* page reloads so far
    chosen          \* history: the letter the learner chose last

reducerVars == <<phase, finishStatus, cur, live, visit, hidden, blank>>
serverVars == <<status, deadline, stored>>
vars == <<bufferVars, reducerVars, op, next, notice, serverVars, now, reloads,
          chosen>>

NoVisit == -1
NoDeadline == -1
FinishedStatuses == {"submitted", "expired"}
FullSheets == [Questions -> Rows]

(* An operation and how far the request it awaits has got: none for an     *)
(* operation that awaits a flush.                                          *)
Running(kind, net) == [kind |-> kind, net |-> net]
Resting == Running("idle", "none")

TypeOK ==
    /\ BufferTypeOK
    /\ phase \in {"directions", "in_section", "finished"}
    /\ finishStatus \in {"none"} \cup FinishedStatuses
    /\ cur \in Questions
    /\ live \in FullSheets
    /\ visit \in Nat \cup {NoVisit}
    /\ hidden \in BOOLEAN /\ blank \in BOOLEAN /\ notice \in BOOLEAN
    /\ op \in [kind : {"idle", "begin", "persist", "submit", "submitFinish",
                       "expire", "expireFinish"},
               net : {"none", "sent", "applied"}]
    /\ next \in Sheets
    /\ status \in {"not_started", "in_progress"} \cup FinishedStatuses
    /\ deadline \in Nat \cup {NoDeadline}
    /\ now \in Nat /\ reloads \in Nat
    /\ chosen \in [Questions -> ChosenLetters]

(* buildItems: the server's rows, and a fresh row where it has none.       *)
BuiltItems ==
    [q \in Questions |-> IF stored[q] = NoRow THEN FreshRow(now) ELSE stored[q]]

Init ==
    /\ BufferInit
    /\ stored = EmptySheet
    /\ phase = "directions" /\ finishStatus = "none"
    /\ cur = First
    /\ live = [q \in Questions |-> FreshRow(0)]
    /\ visit = NoVisit
    /\ hidden = FALSE /\ blank = FALSE /\ notice = FALSE
    /\ op = Resting
    /\ next = EmptySheet
    /\ status = "not_started" /\ deadline = NoDeadline
    /\ now = 0 /\ reloads = 0
    /\ chosen = [q \in Questions |-> Blank]

-----------------------------------------------------------------------------
(***************************************************************************)
(* The pieces of the reducer.                                              *)
(***************************************************************************)
Resolved == op = Resting /\ caller = "none"  \* nothing runs, nothing is queued
Writable == phase = "in_section" /\ finishStatus = "none"
TimeIsUp == deadline # NoDeadline /\ now >= deadline

(* Mutant of Delta: the operands are swapped.                              *)
NegativeDelta == IF visit = NoVisit \/ hidden THEN 0 ELSE visit - now

(* currentVisitDelta and flushDwell: the time since the visit began goes   *)
(* into the current row; no time, no write.                                *)
Delta == IF visit = NoVisit \/ hidden THEN 0 ELSE now - visit

DwellFlushed ==
    IF Delta = 0 THEN live
    ELSE [live EXCEPT ![cur].dwell = @ + Delta, ![cur].stamp = now]

DwellDirty == IF Delta = 0 THEN {} ELSE {cur}

(* enqueueDirty: the rows of a new items map that the reducer rebuilt.     *)
DirtyRows(items, dirty) ==
    [q \in Questions |-> IF q \in dirty THEN items[q] ELSE NoRow]

(* startVisit: no visit runs on a hidden page.                             *)
VisitStart == IF hidden THEN NoVisit ELSE now

(* What every reducer step of the page leaves alone.                       *)
Elsewhere == UNCHANGED <<serverVars, now, reloads>>

-----------------------------------------------------------------------------
(***************************************************************************)
(* begin(): the server starts the attempt or returns the stored one; the   *)
(* reply opens the section, or expires it at once.  The session's begin    *)
(* queues the row of the first visit; the page's begin makes the session   *)
(* from the reply and queues nothing.                                      *)
(***************************************************************************)
Begin ==
    /\ Resolved
    /\ phase = "directions"
    /\ op' = Running("begin", "sent")
    /\ UNCHANGED <<bufferVars, reducerVars, next, notice, chosen>> /\ Elsewhere

ServerBegins ==
    /\ Calm
    /\ op = Running("begin", "sent")
    /\ \/ /\ status = "not_started"
          /\ status' = "in_progress"
          /\ deadline' = now + Minutes
       \/ status = "in_progress" /\ UNCHANGED <<status, deadline>>
    /\ op' = Running("begin", "applied")
    /\ UNCHANGED <<bufferVars, reducerVars, next, notice, stored, now, reloads,
                   chosen>>

BeginSucceeds ==
    /\ Calm
    /\ op = Running("begin", "applied")
    /\ IF TimeIsUp
       THEN /\ phase' = "finished" /\ finishStatus' = "expired"
            /\ UNCHANGED <<live, visit, bufferVars>>
       ELSE /\ phase' = "in_section"
            /\ live' = [live EXCEPT ![cur].stamp = now]
            /\ visit' = VisitStart
            /\ \/ EnqueueRows(DirtyRows(live', {cur}))
               \/ UNCHANGED bufferVars
            /\ UNCHANGED finishStatus
    /\ op' = Resting
    /\ UNCHANGED <<cur, hidden, blank, next, notice, chosen>> /\ Elsewhere

BeginFails ==
    /\ Calm
    /\ op.kind = "begin"
    /\ op' = Resting
    /\ UNCHANGED <<bufferVars, reducerVars, next, notice, chosen>> /\ Elsewhere

-----------------------------------------------------------------------------
(***************************************************************************)
(* dispatch() of the learner's actions.                                    *)
(***************************************************************************)

(* answer and clear: the current row gets another letter and is queued.    *)
(* (The first-answer fields stay Never in this module: nothing here reads  *)
(* them, and ExamRunRepo checks that the merge keeps them.)                *)
Choose(letter) ==
    /\ Resolved /\ Writable
    /\ now < MaxTime
    /\ live[cur].letter # letter
    /\ live' = [live EXCEPT ![cur].letter = letter, ![cur].stamp = now]
    /\ EnqueueRows(DirtyRows(live', {cur}))
    /\ blank' = FALSE
    /\ chosen' = [chosen EXCEPT ![cur] = letter]
    /\ UNCHANGED <<phase, finishStatus, cur, visit, hidden, op, next, notice>>
    /\ Elsewhere

(* flag: the row is rebuilt and queued with a new updated_at.              *)
Flag ==
    /\ Resolved /\ Writable
    /\ now < MaxTime
    /\ live' = [live EXCEPT ![cur].stamp = now]
    /\ EnqueueRows(DirtyRows(live', {cur}))
    /\ UNCHANGED <<phase, finishStatus, cur, visit, hidden, blank, op, next,
                   notice, chosen>>
    /\ Elsewhere

(* navigate: close the visit, open the next one (its visits counter makes  *)
(* that row dirty too, unless the page is hidden), and flush.              *)
Navigate(q) ==
    /\ Resolved
    /\ phase = "in_section" /\ q # cur
    /\ cur' = q
    /\ visit' = VisitStart
    /\ live' = IF hidden THEN live ELSE [DwellFlushed EXCEPT ![q].stamp = now]
    /\ FlushRows(DirtyRows(live', DwellDirty \cup (IF hidden THEN {} ELSE {q})))
    /\ op' = Running("persist", "none")
    /\ UNCHANGED <<phase, finishStatus, hidden, blank, next, notice, chosen>>
    /\ Elsewhere

(* reconnect(), and every navigation or submit that the reducer ignores:   *)
(* only the flush.                                                         *)
Reconnect ==
    /\ Resolved
    /\ FlushNow
    /\ op' = Running("persist", "none")
    /\ UNCHANGED <<reducerVars, next, notice, chosen>> /\ Elsewhere

(* submit with unanswered questions asks for a confirmation, and flushes.  *)
SubmitWithBlanks ==
    /\ Resolved /\ Writable
    /\ \E q \in Questions : live[q].letter = Blank
    /\ blank' = TRUE
    /\ FlushNow
    /\ op' = Running("persist", "none")
    /\ UNCHANGED <<phase, finishStatus, cur, live, visit, hidden, next, notice,
                   chosen>>
    /\ Elsewhere

(* submit without blanks, and confirm_submit: the finished state is        *)
(* computed and its rows are flushed; the page stays in the section until  *)
(* the server has finished it.                                             *)
Submit ==
    /\ Resolved /\ Writable
    /\ blank \/ \A q \in Questions : live[q].letter # Blank
    /\ next' = DwellFlushed
    /\ FlushRows(DirtyRows(next', DwellDirty))
    /\ op' = Running("submit", "none")
    /\ UNCHANGED <<reducerVars, notice, chosen>> /\ Elsewhere

CancelSubmit ==
    /\ Resolved
    /\ blank
    /\ blank' = FALSE
    /\ UNCHANGED <<bufferVars, phase, finishStatus, cur, live, visit, hidden, op,
                   next, notice, chosen>>
    /\ Elsewhere

(* Mutant of TickIsLate: a hidden page does not expire.                    *)
TickIsSeenLate == phase = "in_section" /\ TimeIsUp /\ ~hidden

TickIsLate == phase = "in_section" /\ TimeIsUp

(* tick after the deadline: the page is finished first, then the queue is  *)
(* flushed and the server asked to finish.  A tick before the deadline     *)
(* changes only the countdown.                                             *)
TickExpires ==
    /\ Resolved
    /\ TickIsLate
    /\ phase' = "finished" /\ finishStatus' = "expired"
    /\ live' = DwellFlushed
    /\ visit' = NoVisit
    /\ blank' = FALSE
    /\ FlushRows(DirtyRows(live', DwellDirty))
    /\ op' = Running("expire", "none")
    /\ UNCHANGED <<cur, hidden, next, notice, chosen>> /\ Elsewhere

-----------------------------------------------------------------------------
(***************************************************************************)
(* What an operation does when the flush or the request it awaits is over. *)
(***************************************************************************)
(* Mutant of Persisted: the result of persistNow is not looked at.         *)
PersistedAnyway == TRUE

Persisted == caller = "saved" /\ ~notSaved

PersistReturns ==
    /\ ~Calm
    /\ caller' = "none"
    /\ notice' = ~Persisted
    /\ op' = IF ~Persisted \/ op.kind = "persist" THEN Resting
             ELSE Running(IF op.kind = "submit" THEN "submitFinish"
                                                ELSE "expireFinish", "sent")
    /\ next' = IF Persisted THEN next ELSE EmptySheet
    /\ UNCHANGED <<pending, mirror, timer, flight, notSaved, reducerVars, chosen>>
    /\ Elsewhere

Finishing == op.kind \in {"submitFinish", "expireFinish"}

(* finishSection on the server; finishing twice returns the stored result. *)
ServerFinishes ==
    /\ Calm
    /\ Finishing /\ op.net = "sent"
    /\ status' = IF status # "in_progress" THEN status
                 ELSE IF TimeIsUp THEN "expired" ELSE "submitted"
    /\ op' = [op EXCEPT !.net = "applied"]
    /\ UNCHANGED <<bufferVars, reducerVars, next, notice, deadline, stored, now,
                   reloads, chosen>>

(* The reply of the server.  A submit now switches to the state computed   *)
(* when it began; an expired page has switched already.                    *)
FinishSucceeds ==
    /\ Calm
    /\ Finishing /\ op.net = "applied"
    /\ IF op.kind = "submitFinish"
       THEN /\ phase' = "finished" /\ finishStatus' = "submitted"
            /\ live' = next
            /\ visit' = NoVisit
            /\ blank' = FALSE
            /\ notice' = FALSE
       ELSE UNCHANGED <<phase, finishStatus, live, visit, blank, notice>>
    /\ op' = Resting
    /\ next' = EmptySheet
    /\ UNCHANGED <<bufferVars, cur, hidden, chosen>> /\ Elsewhere

FinishFails ==
    /\ Calm
    /\ Finishing
    /\ notice' = TRUE
    /\ op' = Resting
    /\ next' = EmptySheet
    /\ UNCHANGED <<bufferVars, reducerVars, chosen>> /\ Elsewhere

-----------------------------------------------------------------------------
(***************************************************************************)
(* Events outside the queue of operations.                                 *)
(***************************************************************************)

(* pagehide, or visibilitychange to hidden.                                *)
Hide ==
    /\ Calm
    /\ phase = "in_section" /\ ~hidden
    /\ hidden' = TRUE
    /\ live' = DwellFlushed
    /\ visit' = NoVisit
    /\ EnqueueRows(DirtyRows(live', DwellDirty))
    /\ UNCHANGED <<phase, finishStatus, cur, blank, op, next, notice, chosen>>
    /\ Elsewhere

(* visibilitychange to visible: a visit starts, not counted as a new one.  *)
Show ==
    /\ Calm
    /\ phase = "in_section" /\ hidden
    /\ hidden' = FALSE
    /\ visit' = now
    /\ UNCHANGED <<bufferVars, phase, finishStatus, cur, live, blank, op, next,
                   notice, chosen>>
    /\ Elsewhere

BufferAlone == UNCHANGED <<reducerVars, op, next, notice, chosen>> /\ Elsewhere

(* Every enqueue re-arms the timer, so it fires in a later millisecond     *)
(* than the last row was queued.  The last reading of the clock stands for *)
(* all later ones.                                                         *)
Fire ==
    /\ now = MaxTime \/ \A q \in Held(pending) : pending[q].stamp < now
    /\ TimerFires
    /\ BufferAlone

Succeed == FlushSucceeds /\ BufferAlone
Fail == FlushFails /\ BufferAlone

(* The server refuses item rows once the section is finished.              *)
Deliver ==
    /\ Calm
    /\ DeliverFlight(status = "in_progress")
    /\ UNCHANGED <<reducerVars, op, next, notice, status, deadline, now, reloads,
                   chosen>>

(* Mutant of Reopens: the deadline is not looked at.                       *)
ReopensLate == status = "in_progress"

(* Does a page that loads the attempt open the section for answers?        *)
Reopens == status = "in_progress" /\ ~TimeIsUp

(* The page is left or crashes, and is opened again: attempt and rows come *)
(* from the server, the queue from the mirror.  A finished attempt opens   *)
(* the review and makes no buffer; one whose time is up is finished on the *)
(* page only; otherwise a visit starts, in a row that is not queued.       *)
Reload ==
    /\ reloads < MaxReloads
    /\ status # "not_started"
    /\ reloads' = reloads + 1
    /\ IF status = "in_progress"
       THEN Restart
       ELSE /\ pending' = EmptySheet /\ timer' = "off" /\ flight' = NoFlight
            /\ notSaved' = FALSE /\ caller' = "none"
            /\ UNCHANGED mirror
    /\ cur' = First
    /\ IF Reopens
       THEN /\ phase' = "in_section" /\ finishStatus' = "none"
            /\ live' = [BuiltItems EXCEPT ![First].stamp = now]
            /\ visit' = now
       ELSE /\ phase' = "finished"
            /\ finishStatus' = IF status = "in_progress" THEN "expired" ELSE status
            /\ live' = BuiltItems
            /\ visit' = NoVisit
    /\ hidden' = FALSE /\ blank' = FALSE /\ notice' = FALSE
    /\ op' = Resting
    /\ next' = EmptySheet
    /\ UNCHANGED <<serverVars, now, chosen>>

Tick ==
    /\ Calm
    /\ now < MaxTime
    /\ now' = now + 1
    /\ UNCHANGED <<bufferVars, reducerVars, op, next, notice, serverVars, reloads,
                   chosen>>

Next ==
    \/ Begin \/ ServerBegins \/ BeginSucceeds \/ BeginFails
    \/ \E letter \in Letters : Choose(letter)
    \/ Choose(Blank) \/ Flag
    \/ \E q \in Questions : Navigate(q)
    \/ Reconnect
    \/ SubmitWithBlanks \/ Submit \/ CancelSubmit
    \/ TickExpires
    \/ PersistReturns
    \/ ServerFinishes \/ FinishSucceeds \/ FinishFails
    \/ Hide \/ Show
    \/ Fire \/ Succeed \/ Fail \/ Deliver
    \/ Reload
    \/ Tick

Spec == Init /\ [][Next]_vars

-----------------------------------------------------------------------------
(***************************************************************************)
(* Fairness.  Every request is answered or fails in the end, microtasks    *)
(* run, armed timers fire.  The tick of the one-second interval waits its  *)
(* turn in a first-in first-out queue, so it is not overtaken for ever.    *)
(***************************************************************************)
FlushSettles == Succeed \/ Fail
RequestSettles == FinishSucceeds \/ FinishFails \/ BeginSucceeds \/ BeginFails

FairSpec ==
    /\ Spec
    /\ WF_vars(PersistReturns)
    /\ WF_vars(FlushSettles)
    /\ WF_vars(RequestSettles)
    /\ SF_vars(TickExpires)
-----------------------------------------------------------------------------
(***************************************************************************)
(* Properties.                                                             *)
(***************************************************************************)

LetterOf(row) == IF row = NoRow THEN Blank ELSE row.letter

(* FR-5 and FR-36, edge case "reload mid-section": the letter the learner  *)
(* chose last is in the queue or, when the queue has no row for the        *)
(* question, on the server; it is never overwritten by an older one.       *)
NoAnswerLost ==
    \A q \in Questions :
        LetterOf(IF pending[q] # NoRow THEN pending[q] ELSE stored[q]) = chosen[q]

(* FR-36 at the moment it matters: whoever asks for the finish, submit or  *)
(* deadline, and whatever runs beside it, the server finishes the section  *)
(* only with every answer the learner has given.                           *)
FinishedWithAllAnswers ==
    [][status = "in_progress" /\ status' \in FinishedStatuses
         => \A q \in Questions : LetterOf(stored[q]) = chosen[q]]_vars

(* FR-5, never a silent success: a page that says "submitted" has the      *)
(* server's word for it, and shows the answers that the server has graded. *)
SubmittedIsDurable ==
    finishStatus = "submitted" =>
        /\ status \in FinishedStatuses
        /\ \A q \in Questions : LetterOf(stored[q]) = live[q].letter

(* FR-36: wherever the page dies, the mirror has every queued row.         *)
QueueMirrored ==
    \A q \in Questions : pending[q] # NoRow => mirror[q] = pending[q]

(* FR-2: a section that a page has shown as finished is never opened for   *)
(* answering again, not even when only the page knew and is reloaded.      *)
NeverReopened == [][phase = "finished" => phase' = "finished"]_vars

(* FR-5 and the fidelity rule: the clock is not stopped by a slow or       *)
(* failing server or by a hidden page; after the deadline the page leaves  *)
(* the section.                                                            *)
DeadlineExpires == phase = "in_section" /\ TimeIsUp ~> phase # "in_section"
=============================================================================
