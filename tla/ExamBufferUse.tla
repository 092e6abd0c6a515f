---------------------------- MODULE ExamBufferUse ----------------------------
(***************************************************************************)
(* The write buffer in use: a section that edits rows and asks for flushes *)
(* (one at a time, as use_exam_section serializes them), a server that     *)
(* accepts upserts, requests that fail, and pages that are reloaded.       *)
(*                                                                         *)
(* Every edit gets a later updated_at than the one before.  ExamSection,   *)
(* where edits are made by the real reducer, does not assume this.         *)
(***************************************************************************)
EXTENDS ExamWriteBuffer

CONSTANTS
    MaxEdits,   \* bound on the edits, which are also the clock
    MaxDwell    \* bound on dwell_ms

ASSUME UseAssumption == MaxEdits \in Nat /\ MaxDwell \in Nat

VARIABLES
    latest,     \* history: the last row the section enqueued per question
    now         \* the clock that stamps the edits

vars == <<bufferVars, stored, latest, now>>

TypeOK ==
    /\ BufferTypeOK
    /\ latest \in Sheets
    /\ now \in Nat

Init ==
    /\ BufferInit
    /\ stored = EmptySheet
    /\ latest = EmptySheet
    /\ now = 0

(* The next row of a question: any letter, a dwell that has not shrunk, a  *)
(* first answer that is kept.                                              *)
LastRow(q) == IF latest[q] = NoRow THEN FreshRow(0) ELSE latest[q]

EditedRow(q, letter, dwell) ==
    LET old == LastRow(q)
    IN  [old EXCEPT !.letter = letter,
                    !.dwell = dwell,
                    !.first = IF old.first = Never /\ letter # Blank
                              THEN now + 1 ELSE old.first,
                    !.stamp = now + 1]

Edit(q) ==
    /\ Calm
    /\ now < MaxEdits
    /\ \E letter \in ChosenLetters, dwell \in LastRow(q).dwell..MaxDwell :
           LET row == EditedRow(q, letter, dwell)
           IN  /\ EnqueueRows([EmptySheet EXCEPT ![q] = row])
               /\ latest' = [latest EXCEPT ![q] = row]
    /\ now' = now + 1
    /\ UNCHANGED stored

AskFlush ==
    /\ FlushNow
    /\ UNCHANGED <<stored, latest, now>>

(* The caller takes the result of its flushNow.                            *)
TakeAnswer ==
    /\ ~Calm
    /\ caller' = "none"
    /\ UNCHANGED <<pending, mirror, timer, flight, notSaved, stored, latest, now>>

Deliver == DeliverFlight(TRUE) /\ UNCHANGED <<latest, now>>

Fire == TimerFires /\ UNCHANGED <<stored, latest, now>>
Succeed == FlushSucceeds /\ UNCHANGED <<stored, latest, now>>
Fail == FlushFails /\ UNCHANGED <<stored, latest, now>>

Reload ==
    /\ Restart
    /\ UNCHANGED <<stored, latest, now>>

Next ==
    \/ \E q \in Questions : Edit(q)
    \/ AskFlush
    \/ TakeAnswer
    \/ Deliver
    \/ Fire
    \/ Succeed
    \/ Fail
    \/ Reload

Spec == Init /\ [][Next]_vars

(* Armed timers fire and promises settle; a request that is sent again and *)
(* again gets through in the end.  Nothing obliges the learner or the page *)
(* to do anything.                                                         *)
FairSpec ==
    /\ Spec
    /\ WF_vars(Fire) /\ WF_vars(TakeAnswer)
    /\ SF_vars(Deliver) /\ SF_vars(Succeed)

-----------------------------------------------------------------------------
(***************************************************************************)
(* Properties.                                                             *)
(***************************************************************************)

(* A row that stands for an edit: the letter and the time of it, and at    *)
(* least its dwell.                                                        *)
Carries(row, edit) ==
    \/ edit = NoRow
    \/ /\ row # NoRow
       /\ row.letter = edit.letter
       /\ row.stamp = edit.stamp
       /\ row.dwell >= edit.dwell

(* The queue never lets go of an edit before the server has it: through    *)
(* merges, snapshots that are overtaken by new edits, lost replies,        *)
(* retries and reloads (doFlush's compare-before-delete, FR-36).           *)
NoSilentLoss ==
    \A q \in Questions :
        IF pending[q] # NoRow THEN Carries(pending[q], latest[q])
                              ELSE Carries(stored[q], latest[q])

(* FR-36: at any moment a crash finds every queued row in the mirror.      *)
QueueMirrored == mirror = pending

(* Every flushNow is answered: the section's operations queue up behind it *)
(* (use_exam_section's tail), so a flush that never returned would freeze  *)
(* the section.                                                            *)
FlushAnswered == caller = "waiting" ~> caller # "waiting"

(* FR-5: if the section keeps asking (navigation, submit, reconnect) and   *)
(* requests get through now and then, the queue is drained in the end.     *)
DrainedIfAsked ==
    []<>(caller = "waiting")
        => (pending # EmptySheet ~> pending = EmptySheet)

(* The buffer keeps the promise of DurableAnswers: a row is durable when   *)
(* the server's row carries it, a save is confirmed when flushNow resolves *)
(* to true.                                                                *)
Promise == INSTANCE DurableAnswers WITH
    durable <- {q \in Questions : Carries(stored[q], latest[q])},
    confirmed <- (caller = "saved")

KeepsPromise == Promise!Spec
=============================================================================
