-------------------------- MODULE ExamSectionProofs --------------------------
(***************************************************************************)
(* Theorems about ExamSection, for any questions, letters, duration and    *)
(* bounds.                                                                 *)
(*                                                                         *)
(* The argument has two layers.  Flow relates the session's operation to   *)
(* the buffer's caller, the phase of the page and the status of the        *)
(* server's attempt; it holds across reloads, with or without working      *)
(* storage, and carries the types and the one-way phase.  Traced follows   *)
(* the letter the learner chose last through the queue, the flight and the *)
(* server's row; it holds until the page is reloaded (after a reload the   *)
(* page may show an older letter than the restored queue holds).           *)
(***************************************************************************)
EXTENDS ExamSection, ExamRowsProofs

(* Which operations own a flush, which phase they run in, what the server  *)
(* has done by then, and how the page's phase follows the attempt.         *)
Flow ==
    /\ visit <= now
    /\ caller # "none" <=> op.kind \in {"persist", "submit", "expire"}
    /\ op.kind = "begin" => phase = "directions"
    /\ op = Running("begin", "applied") => status # "not_started"
    /\ op.kind \in {"submit", "submitFinish"} => next \in FullSheets
    /\ op.kind \notin {"idle", "begin", "persist"} => phase # "directions"
    /\ phase # "directions" => status # "not_started"
    /\ Finishing /\ op.net = "applied" => status \in FinishedStatuses
    /\ phase = "finished" /\ status = "in_progress" => TimeIsUp

(* The rows of one question: p in the queue, f in the flight (which is in  *)
(* the given state), s on the server; c is the letter the learner chose    *)
(* last and t the clock.                                                   *)
Traced(p, f, s, c, state, t) ==
    /\ p # NoRow => p.letter = c /\ p.stamp <= t
    /\ p = NoRow => LetterOf(s) = c
    /\ f # NoRow => /\ p # NoRow
                    /\ f.stamp <= p.stamp
                    /\ f.stamp = p.stamp => f.letter = p.letter
                    /\ state = "applied" => s # NoRow /\ s.letter = f.letter

(* What the server has and is being sent is what the learner chose.        *)
Settled ==
    \A q \in Questions :
        /\ LetterOf(stored[q]) = chosen[q]
        /\ flight.rows[q] # NoRow => flight.rows[q].letter = chosen[q]

(* The flight of a page on which the learner may act carries no row of the *)
(* present millisecond, so that an edit always differs from it in          *)
(* updated_at.                                                             *)
FlightIsPast ==
    \A q \in Questions :
        flight.rows[q] # NoRow => flight.rows[q].stamp < now \/ now = MaxTime

(* The page shows the letters the learner chose, also the page a running   *)
(* submit will switch to.                                                  *)
ItemsChosen ==
    /\ \A q \in Questions : live[q].letter = chosen[q]
    /\ op.kind \in {"submit", "submitFinish"}
          => \A q \in Questions : next[q].letter = chosen[q]

RowsTraced ==
    \A q \in Questions :
        Traced(pending[q], flight.rows[q], stored[q], chosen[q], flight.state,
               now)

(* What the caller of a flush may conclude from its answer.                *)
CallerKnows ==
    /\ flight.state = "none" => flight.rows = EmptySheet
    /\ caller = "saved" => pending = EmptySheet
    /\ ~Calm => flight.state = "none"
    /\ caller = "none" => FlightIsPast

FinishSettled ==
    /\ Finishing => Settled
    /\ finishStatus = "submitted" => /\ phase = "finished"
                                     /\ status \in FinishedStatuses
                                     /\ Settled

Trace == ItemsChosen /\ RowsTraced /\ CallerKnows /\ FinishSettled

-----------------------------------------------------------------------------
(***************************************************************************)
(* Lemmas about the pieces of the reducer and of the buffer.               *)
(***************************************************************************)
LEMMA RowFields ==
    ASSUME NEW row \in Rows
    PROVE  /\ row.stamp \in Nat /\ row.dwell \in Nat /\ row # NoRow
           /\ row.letter \in ChosenLetters
  BY NoRowAssumption DEF Rows

LEMMA EmptyIsSheet == EmptySheet \in Sheets /\ Held(EmptySheet) = {}
  BY DEF EmptySheet, Sheets, Held

LEMMA UpsertEmpty ==
    ASSUME NEW sheet \in Sheets PROVE UpsertSheet(sheet, EmptySheet) = sheet
  BY DEF UpsertSheet, EmptySheet, Sheets

LEMMA FullIsSheet == FullSheets \subseteq Sheets
  BY DEF FullSheets, Sheets

LEMMA FreshIsRow ==
    ASSUME NEW t \in Nat
    PROVE  FreshRow(t) \in Rows /\ FreshRow(t).letter = Blank
  BY DEF FreshRow, Rows, ChosenLetters, Never

(* The time of a visit is never negative, so a flushed dwell is a counter. *)
LEMMA DeltaIsNat ==
    ASSUME TypeOK, visit <= now PROVE Delta \in Nat
  BY DEF TypeOK, Delta, NoVisit

(* A row that gets another letter, stamp or dwell is a row.                *)
LEMMA StampedIsRow ==
    ASSUME NEW row \in Rows, NEW t \in Nat, NEW c \in ChosenLetters,
           NEW d \in Nat
    PROVE  /\ [row EXCEPT !.stamp = t] \in Rows
           /\ [row EXCEPT !.letter = c, !.stamp = t] \in Rows
           /\ [row EXCEPT !.dwell = d, !.stamp = t] \in Rows
  BY DEF Rows

(* The items after a flushed dwell: the same letters, and the dirty row is *)
(* of the present millisecond.                                             *)
LEMMA FlushedItems ==
    ASSUME TypeOK, visit <= now
    PROVE  /\ DwellFlushed \in FullSheets
           /\ \A q \in Questions : DwellFlushed[q].letter = live[q].letter
           /\ \A q \in DwellDirty : DwellFlushed[q].stamp = now
           /\ DwellDirty \subseteq Questions
  <1>1. /\ live \in FullSheets /\ cur \in Questions /\ now \in Nat
        /\ live[cur] \in Rows /\ live[cur].dwell \in Nat
    BY RowFields DEF TypeOK, FullSheets
  <1>2. CASE Delta = 0
    BY <1>1, <1>2 DEF DwellFlushed, DwellDirty
  <1>3. CASE Delta # 0
    <2> DEFINE row == [live[cur] EXCEPT !.dwell = @ + Delta, !.stamp = now]
    <2>1. live[cur].dwell + Delta \in Nat
      BY <1>1, DeltaIsNat
    <2>2. /\ row \in Rows /\ row.letter = live[cur].letter
          /\ row.stamp = now
      BY <1>1, <2>1 DEF Rows
    <2>3. DwellFlushed = [live EXCEPT ![cur] = row]
      BY <1>3 DEF DwellFlushed
    <2> HIDE DEF row
    <2> QED  BY <1>1, <1>3, <2>2, <2>3 DEF FullSheets, DwellDirty
  <1> QED  BY <1>2, <1>3

(* The rows an enqueue sends to the queue.                                 *)
LEMMA DirtySheet ==
    ASSUME NEW items \in FullSheets, NEW dirty \in SUBSET Questions
    PROVE  /\ DirtyRows(items, dirty) \in Sheets
           /\ \A q \in Questions :
                 DirtyRows(items, dirty)[q]
                    = IF q \in dirty THEN items[q] ELSE NoRow
  BY DEF DirtyRows, FullSheets, Sheets

LEMMA EnqueueTypes ==
    ASSUME BufferTypeOK, NEW rows \in Sheets, EnqueueRows(rows),
           UNCHANGED stored
    PROVE  /\ BufferTypeOK'
           /\ UNCHANGED <<caller, flight>>
           /\ pending' = UpsertSheet(pending, rows)
           /\ ~StorageFails /\ QueueMirrored => QueueMirrored'
  <1>1. CASE Held(rows) = {}
    <2>1. rows = EmptySheet  BY <1>1 DEF Held, Sheets, EmptySheet
    <2> QED
      BY <1>1, <2>1, UpsertEmpty
         DEF EnqueueRows, bufferVars, BufferTypeOK, QueueMirrored
  <1>2. CASE Held(rows) # {}
    BY <1>2, UpsertIsSheet
       DEF EnqueueRows, Persist, BufferTypeOK, QueueMirrored
  <1> QED  BY <1>1, <1>2

LEMMA FlushTypes ==
    ASSUME BufferTypeOK, NEW rows \in Sheets, FlushRows(rows),
           UNCHANGED stored
    PROVE  /\ BufferTypeOK'
           /\ caller = "none" /\ caller' \in {"waiting", "saved"}
           /\ pending' = UpsertSheet(pending, rows)
           /\ caller' = "saved" => ~InFlight /\ pending' = EmptySheet
           /\ \/ UNCHANGED flight
              \/ ~InFlight /\ caller' = "waiting"
                   /\ flight' = [state |-> "sent", rows |-> pending']
           /\ ~StorageFails /\ QueueMirrored => QueueMirrored'
  <1>1. UpsertSheet(pending, rows) \in Sheets
    BY UpsertIsSheet DEF BufferTypeOK
  <1>2. mirror' \in Sheets
    BY <1>1 DEF FlushRows, Persist, BufferTypeOK
  <1>3. flight' \in [state : {"none", "sent", "applied"}, rows : Sheets]
    BY <1>1 DEF FlushRows, BufferTypeOK
  <1>4. BufferTypeOK'
    BY <1>1, <1>2, <1>3 DEF FlushRows, BufferTypeOK
  <1>5. ASSUME ~StorageFails, QueueMirrored PROVE QueueMirrored'
    <2>1. CASE Held(rows) = {}
      <3>1. rows = EmptySheet  BY <2>1 DEF Held, Sheets, EmptySheet
      <3> QED
        BY <1>5, <2>1, <3>1, UpsertEmpty
           DEF FlushRows, BufferTypeOK, QueueMirrored
    <2>2. CASE Held(rows) # {}
      BY <1>5, <2>2 DEF FlushRows, Persist, QueueMirrored
    <2> QED  BY <2>1, <2>2
  <1> QED  BY <1>4, <1>5 DEF FlushRows

LEMMA FlushNowTypes ==
    ASSUME BufferTypeOK, FlushNow, UNCHANGED stored
    PROVE  /\ BufferTypeOK'
           /\ caller = "none" /\ caller' \in {"waiting", "saved"}
           /\ pending' = pending
           /\ caller' = "saved" => ~InFlight /\ pending' = EmptySheet
           /\ \/ UNCHANGED flight
              \/ ~InFlight /\ caller' = "waiting"
                   /\ flight' = [state |-> "sent", rows |-> pending']
           /\ ~StorageFails /\ QueueMirrored => QueueMirrored'
  <1>1. FlushRows(EmptySheet) /\ EmptySheet \in Sheets
    BY EmptyIsSheet DEF FlushNow
  <1>2. UpsertSheet(pending, EmptySheet) = pending
    BY UpsertEmpty DEF BufferTypeOK
  <1> QED  BY <1>1, <1>2, FlushTypes

-----------------------------------------------------------------------------
(***************************************************************************)
(* The first layer: types and Flow, action by action.                      *)
(***************************************************************************)
SessionInv == TypeOK /\ Flow

(* A running operation is typed.                                           *)
LEMMA RunningTypes ==
    ASSUME NEW kind \in {"idle", "begin", "persist", "submit", "submitFinish",
                         "expire", "expireFinish"},
           NEW net \in {"none", "sent", "applied"}
    PROVE  /\ Running(kind, net) \in
                 [kind : {"idle", "begin", "persist", "submit", "submitFinish",
                          "expire", "expireFinish"},
                  net : {"none", "sent", "applied"}]
           /\ Running(kind, net).kind = kind
           /\ Running(kind, net).net = net
  BY DEF Running

(* A step that leaves the buffer alone.                                    *)
LEMMA BufferUntouched ==
    ASSUME BufferTypeOK, UNCHANGED <<bufferVars, stored>> PROVE BufferTypeOK'
  BY DEF BufferTypeOK, bufferVars

LEMMA BeginKeeps ==
    ASSUME SessionInv, Begin PROVE SessionInv'
  <1>1. BufferTypeOK'
    BY BufferUntouched
       DEF SessionInv, TypeOK, Begin, Resolved, Resting, Running, Elsewhere,
           serverVars, bufferVars, reducerVars
  <1>2. TypeOK'
    BY <1>1
       DEF SessionInv, TypeOK, Flow, Begin, Resolved, Resting, Running,
           Elsewhere, serverVars, bufferVars, reducerVars
  <1>3. Flow'
    BY DEF SessionInv, TypeOK, Flow, Finishing, TimeIsUp, Begin, Resolved,
           Resting, Running, Elsewhere, serverVars, bufferVars, reducerVars
  <1> QED  BY <1>2, <1>3 DEF SessionInv

LEMMA ServerBeginsKeeps ==
    ASSUME SessionInv, ServerBegins PROVE SessionInv'
  <1>1. BufferTypeOK'
    BY BufferUntouched
       DEF SessionInv, TypeOK, ServerBegins, Calm, Running, bufferVars,
           reducerVars, FinishedStatuses
  <1>2. TypeOK'
    BY <1>1, SectionAssumption
       DEF SessionInv, TypeOK, Flow, ServerBegins, Calm, Running, bufferVars,
           reducerVars, FinishedStatuses
  <1>3. Flow'
    BY DEF SessionInv, TypeOK, Flow, Finishing, TimeIsUp, ServerBegins, Calm,
           Running, bufferVars, reducerVars, FinishedStatuses
  <1> QED  BY <1>2, <1>3 DEF SessionInv

LEMMA BeginFailsKeeps ==
    ASSUME SessionInv, BeginFails PROVE SessionInv'
  <1>1. BufferTypeOK'
    BY BufferUntouched
       DEF SessionInv, TypeOK, BeginFails, Resting, Running, Elsewhere,
           serverVars, bufferVars, reducerVars
  <1>2. TypeOK'
    BY <1>1
       DEF SessionInv, TypeOK, Flow, BeginFails, Resting, Running, Elsewhere,
           serverVars, bufferVars, reducerVars
  <1>3. Flow'
    BY DEF SessionInv, TypeOK, Flow, Finishing, TimeIsUp, BeginFails, Resting,
           Running, Elsewhere, serverVars, bufferVars, reducerVars
  <1> QED  BY <1>2, <1>3 DEF SessionInv

LEMMA CancelSubmitKeeps ==
    ASSUME SessionInv, CancelSubmit PROVE SessionInv'
  <1>1. BufferTypeOK'
    BY BufferUntouched
       DEF SessionInv, TypeOK, CancelSubmit, Elsewhere, serverVars
  <1>2. TypeOK'
    <2>1. /\ phase' \in {"directions", "in_section", "finished"}
          /\ finishStatus' \in {"none"} \cup FinishedStatuses
          /\ cur' \in Questions /\ visit' \in Nat \cup {NoVisit}
          /\ live' \in FullSheets /\ next' \in Sheets
          /\ status' \in {"not_started", "in_progress"} \cup FinishedStatuses
          /\ deadline' \in Nat \cup {NoDeadline}
          /\ now' \in Nat /\ reloads' \in Nat
          /\ chosen' \in [Questions -> ChosenLetters]
      BY DEF SessionInv, TypeOK, CancelSubmit, Elsewhere, serverVars
    <2>2. hidden' \in BOOLEAN /\ blank' \in BOOLEAN /\ notice' \in BOOLEAN
      BY DEF SessionInv, TypeOK, CancelSubmit
    <2>3. op' \in [kind : {"idle", "begin", "persist", "submit",
                           "submitFinish", "expire", "expireFinish"},
                   net : {"none", "sent", "applied"}]
      BY DEF SessionInv, TypeOK, CancelSubmit
    <2> QED  BY <1>1, <2>1, <2>2, <2>3 DEF TypeOK
  <1>3. Flow'
    BY DEF SessionInv, TypeOK, Flow, Finishing, TimeIsUp, CancelSubmit,
           Elsewhere, serverVars, bufferVars
  <1> QED  BY <1>2, <1>3 DEF SessionInv

LEMMA PersistReturnsKeeps ==
    ASSUME SessionInv, PersistReturns PROVE SessionInv'
  <1>1. BufferTypeOK'
    BY DEF SessionInv, TypeOK, BufferTypeOK, PersistReturns, Elsewhere,
           serverVars
  <1>2. TypeOK'
    BY <1>1, EmptyIsSheet
       DEF SessionInv, TypeOK, Flow, PersistReturns, Calm, Persisted, Resting,
           Running, Elsewhere, serverVars, reducerVars
  <1>3. Flow'
    BY DEF SessionInv, TypeOK, Flow, Finishing, TimeIsUp, PersistReturns,
           Calm, Persisted, Resting, Running, Elsewhere, serverVars,
           reducerVars
  <1> QED  BY <1>2, <1>3 DEF SessionInv

LEMMA ServerFinishesKeeps ==
    ASSUME SessionInv, ServerFinishes PROVE SessionInv'
  <1>1. BufferTypeOK'
    BY BufferUntouched
       DEF SessionInv, TypeOK, ServerFinishes, FinishedStatuses, bufferVars,
           reducerVars
  <1>2. TypeOK'
    BY <1>1
       DEF SessionInv, TypeOK, Flow, ServerFinishes, FinishedStatuses,
           bufferVars, reducerVars
  <1>3. Flow'
    BY DEF SessionInv, TypeOK, Flow, Finishing, TimeIsUp, ServerFinishes,
           FinishedStatuses, bufferVars, reducerVars
  <1> QED  BY <1>2, <1>3 DEF SessionInv

LEMMA FinishSucceedsKeeps ==
    ASSUME SessionInv, FinishSucceeds PROVE SessionInv'
  <1>1. BufferTypeOK'
    BY BufferUntouched
       DEF SessionInv, TypeOK, FinishSucceeds, Finishing, Resting, Running,
           FinishedStatuses, Elsewhere, serverVars
  <1>2. TypeOK'
    BY <1>1, EmptyIsSheet
       DEF SessionInv, TypeOK, Flow, FinishSucceeds, Finishing, Resting,
           Running, FinishedStatuses, Elsewhere, serverVars
  <1>3. Flow'
    BY DEF SessionInv, TypeOK, Flow, Finishing, TimeIsUp, FinishSucceeds,
           Resting, Running, FinishedStatuses, Elsewhere,
           serverVars, Calm, NoVisit, bufferVars
  <1> QED  BY <1>2, <1>3 DEF SessionInv

LEMMA FinishFailsKeeps ==
    ASSUME SessionInv, FinishFails PROVE SessionInv'
  <1>1. BufferTypeOK'
    BY BufferUntouched
       DEF SessionInv, TypeOK, FinishFails, Resting, Running, Elsewhere,
           serverVars, bufferVars, reducerVars
  <1>2. TypeOK'
    BY <1>1, EmptyIsSheet
       DEF SessionInv, TypeOK, Flow, FinishFails, Resting, Running, Elsewhere,
           serverVars, bufferVars, reducerVars
  <1>3. Flow'
    BY DEF SessionInv, TypeOK, Flow, Finishing, TimeIsUp, FinishFails,
           Resting, Running, Elsewhere, serverVars, bufferVars, reducerVars
  <1> QED  BY <1>2, <1>3 DEF SessionInv

LEMMA ShowKeeps ==
    ASSUME SessionInv, Show PROVE SessionInv'
  <1>1. BufferTypeOK'
    BY BufferUntouched DEF SessionInv, TypeOK, Show, Elsewhere, serverVars
  <1>2. TypeOK'
    <2>1. /\ phase' \in {"directions", "in_section", "finished"}
          /\ finishStatus' \in {"none"} \cup FinishedStatuses
          /\ cur' \in Questions /\ visit' \in Nat \cup {NoVisit}
          /\ live' \in FullSheets /\ next' \in Sheets
          /\ status' \in {"not_started", "in_progress"} \cup FinishedStatuses
          /\ deadline' \in Nat \cup {NoDeadline}
          /\ now' \in Nat /\ reloads' \in Nat
          /\ chosen' \in [Questions -> ChosenLetters]
      BY DEF SessionInv, TypeOK, Show, Elsewhere, serverVars
    <2>2. hidden' \in BOOLEAN /\ blank' \in BOOLEAN /\ notice' \in BOOLEAN
      BY DEF SessionInv, TypeOK, Show
    <2>3. op' \in [kind : {"idle", "begin", "persist", "submit",
                           "submitFinish", "expire", "expireFinish"},
                   net : {"none", "sent", "applied"}]
      BY DEF SessionInv, TypeOK, Show
    <2> QED  BY <1>1, <2>1, <2>2, <2>3 DEF TypeOK
  <1>3. Flow'
    BY DEF SessionInv, TypeOK, Flow, Finishing, TimeIsUp, Show, Elsewhere,
           serverVars, bufferVars
  <1> QED  BY <1>2, <1>3 DEF SessionInv

LEMMA FireKeeps ==
    ASSUME SessionInv, Fire PROVE SessionInv'
  <1>1. BufferTypeOK'
    BY DEF SessionInv, TypeOK, BufferTypeOK, Fire, TimerFires, BufferAlone,
           Elsewhere, serverVars
  <1>2. TypeOK'
    BY <1>1
       DEF SessionInv, TypeOK, Flow, Fire, TimerFires, BufferAlone, Elsewhere,
           serverVars, reducerVars
  <1>3. Flow'
    BY DEF SessionInv, TypeOK, Flow, Finishing, TimeIsUp, Fire, TimerFires,
           BufferAlone, Elsewhere, serverVars, reducerVars
  <1> QED  BY <1>2, <1>3 DEF SessionInv

LEMMA SucceedKeeps ==
    ASSUME SessionInv, Succeed PROVE SessionInv'
  <1>1. BufferTypeOK'
    <2>1. pending' \in Sheets /\ mirror' \in Sheets
      BY DEF SessionInv, TypeOK, BufferTypeOK, Succeed, FlushSucceeds, Persist,
             LeftQueued, Sheets
    <2>2. /\ caller' \in {"none", "waiting", "saved", "unsaved"}
          /\ notSaved' \in BOOLEAN
      BY DEF SessionInv, TypeOK, BufferTypeOK, Succeed, FlushSucceeds, Answered
    <2> QED
      BY <2>1, <2>2, EmptyIsSheet
         DEF SessionInv, TypeOK, BufferTypeOK, Succeed, FlushSucceeds,
             NoFlight,
             BufferAlone, Elsewhere, serverVars
  <1>2. TypeOK'
    BY <1>1
       DEF SessionInv, TypeOK, Flow, Succeed, FlushSucceeds, Answered,
           BufferAlone, Elsewhere, serverVars, reducerVars
  <1>3. Flow'
    BY DEF SessionInv, TypeOK, Flow, Finishing, TimeIsUp, Succeed,
           FlushSucceeds, Answered, BufferAlone, Elsewhere, serverVars,
           reducerVars
  <1> QED  BY <1>2, <1>3 DEF SessionInv

LEMMA FailKeeps ==
    ASSUME SessionInv, Fail PROVE SessionInv'
  <1>1. BufferTypeOK'
    <2>1. /\ caller' \in {"none", "waiting", "saved", "unsaved"}
          /\ notSaved' \in BOOLEAN
      BY DEF SessionInv, TypeOK, BufferTypeOK, Fail, FlushFails, Answered
    <2> QED
      BY <2>1, EmptyIsSheet
         DEF SessionInv, TypeOK, BufferTypeOK, Fail, FlushFails, NoFlight,
             BufferAlone, Elsewhere, serverVars
  <1>2. TypeOK'
    BY <1>1
       DEF SessionInv, TypeOK, Flow, Fail, FlushFails, Answered, BufferAlone,
           Elsewhere, serverVars, reducerVars
  <1>3. Flow'
    BY DEF SessionInv, TypeOK, Flow, Finishing, TimeIsUp, Fail, FlushFails,
           Answered, BufferAlone, Elsewhere, serverVars, reducerVars
  <1> QED  BY <1>2, <1>3 DEF SessionInv

LEMMA DeliverKeeps ==
    ASSUME SessionInv, Deliver PROVE SessionInv'
  <1>1. BufferTypeOK'
    BY UpsertIsSheet
       DEF SessionInv, TypeOK, BufferTypeOK, Deliver, DeliverFlight
  <1>2. TypeOK'
    BY <1>1
       DEF SessionInv, TypeOK, Flow, Deliver, DeliverFlight, reducerVars
  <1>3. Flow'
    BY DEF SessionInv, TypeOK, Flow, Finishing, TimeIsUp, Deliver,
           DeliverFlight, reducerVars
  <1> QED  BY <1>2, <1>3 DEF SessionInv

LEMMA TickKeeps ==
    ASSUME SessionInv, Tick PROVE SessionInv'
  <1>1. BufferTypeOK'
    BY BufferUntouched
       DEF SessionInv, TypeOK, Tick, bufferVars, reducerVars, serverVars
  <1>2. TypeOK'
    BY <1>1
       DEF SessionInv, TypeOK, Flow, Tick, bufferVars, reducerVars, serverVars
  <1>3. Flow'
    BY DEF SessionInv, TypeOK, Flow, Finishing, TimeIsUp, Tick, bufferVars,
           reducerVars, serverVars
  <1> QED  BY <1>2, <1>3 DEF SessionInv

(* The rows of an item map that an action stamps with the present          *)
(* millisecond, as flag, navigate and begin do.                            *)
StampedAt(items, q, t) == [items EXCEPT ![q].stamp = t]

LEMMA StampedItems ==
    ASSUME NEW items \in FullSheets, NEW q \in Questions, NEW t \in Nat
    PROVE  /\ StampedAt(items, q, t) \in FullSheets
           /\ StampedAt(items, q, t)[q].stamp = t
           /\ \A p \in Questions :
                 /\ StampedAt(items, q, t)[p].letter = items[p].letter
                 /\ p # q => StampedAt(items, q, t)[p] = items[p]
  <1> DEFINE row == [items[q] EXCEPT !.stamp = t]
  <1>1. items[q] \in Rows  BY DEF FullSheets
  <1>2. row \in Rows /\ row.stamp = t /\ row.letter = items[q].letter
    BY <1>1 DEF Rows
  <1>3. StampedAt(items, q, t) = [items EXCEPT ![q] = row]
    BY DEF StampedAt
  <1> HIDE DEF row
  <1> QED  BY <1>2, <1>3 DEF FullSheets

LEMMA ChosenItems ==
    ASSUME TypeOK, NEW c \in ChosenLetters
    PROVE  LET items == [live EXCEPT ![cur].letter = c, ![cur].stamp = now]
           IN  /\ items \in FullSheets
               /\ items[cur].stamp = now /\ items[cur].letter = c
               /\ \A p \in Questions \ {cur} : items[p] = live[p]
  <1> DEFINE row == [live[cur] EXCEPT !.letter = c, !.stamp = now]
  <1>1. /\ live \in FullSheets /\ cur \in Questions /\ now \in Nat
        /\ live[cur] \in Rows
    BY DEF TypeOK, FullSheets
  <1>2. row \in Rows /\ row.stamp = now /\ row.letter = c
    BY <1>1 DEF Rows
  <1>3. [live EXCEPT ![cur].letter = c, ![cur].stamp = now]
          = [live EXCEPT ![cur] = row]
    BY <1>1 DEF FullSheets
  <1> HIDE DEF row
  <1> QED  BY <1>1, <1>2, <1>3 DEF FullSheets

(* An enqueue of rows that the page has just rebuilt.                      *)
LEMMA PageEnqueue ==
    ASSUME BufferTypeOK, UNCHANGED stored, NEW items \in FullSheets,
           NEW dirty \in SUBSET Questions,
           EnqueueRows(DirtyRows(items, dirty))
    PROVE  /\ BufferTypeOK'
           /\ UNCHANGED <<caller, flight>>
           /\ pending' = UpsertSheet(pending, DirtyRows(items, dirty))
           /\ ~StorageFails /\ QueueMirrored => QueueMirrored'
  BY DirtySheet, EnqueueTypes

LEMMA PageFlush ==
    ASSUME BufferTypeOK, UNCHANGED stored, NEW items \in FullSheets,
           NEW dirty \in SUBSET Questions,
           FlushRows(DirtyRows(items, dirty))
    PROVE  /\ BufferTypeOK'
           /\ caller = "none" /\ caller' \in {"waiting", "saved"}
           /\ pending' = UpsertSheet(pending, DirtyRows(items, dirty))
           /\ caller' = "saved" => ~InFlight /\ pending' = EmptySheet
           /\ \/ UNCHANGED flight
              \/ ~InFlight /\ caller' = "waiting"
                   /\ flight' = [state |-> "sent", rows |-> pending']
           /\ ~StorageFails /\ QueueMirrored => QueueMirrored'
  BY DirtySheet, FlushTypes

(* What each of these actions does to the items and to the buffer; both    *)
(* layers use it.                                                          *)
LEMMA BeginSucceedsDoes ==
    ASSUME TypeOK, BeginSucceeds
    PROVE  /\ live' \in FullSheets
           /\ BufferTypeOK'
           /\ UNCHANGED <<caller, flight, stored>>
           /\ \A q \in Questions : live'[q].letter = live[q].letter
           /\ \/ pending' = pending
              \/ /\ live'[cur].stamp = now
                 /\ pending' = UpsertSheet(pending, DirtyRows(live', {cur}))
           /\ ~StorageFails /\ QueueMirrored => QueueMirrored'
  <1>1. /\ live \in FullSheets /\ cur \in Questions /\ now \in Nat
        /\ BufferTypeOK /\ UNCHANGED stored
    BY DEF TypeOK, BeginSucceeds, Elsewhere, serverVars
  <1>2. CASE UNCHANGED <<live, bufferVars>>
    BY <1>1, <1>2, BufferUntouched DEF bufferVars, QueueMirrored
  <1>3. CASE live' = [live EXCEPT ![cur].stamp = now]
    <2>0. live' = StampedAt(live, cur, now)
      BY <1>3 DEF StampedAt
    <2>1. /\ live' \in FullSheets /\ live'[cur].stamp = now
          /\ \A q \in Questions : live'[q].letter = live[q].letter
      BY <1>1, <2>0, StampedItems
    <2>2. CASE UNCHANGED bufferVars
      BY <1>1, <2>1, <2>2, BufferUntouched DEF bufferVars, QueueMirrored
    <2>3. CASE EnqueueRows(DirtyRows(live', {cur}))
      BY <1>1, <2>1, <2>3, PageEnqueue
    <2>4. UNCHANGED bufferVars \/ EnqueueRows(DirtyRows(live', {cur}))
      BY DEF BeginSucceeds
    <2> QED  BY <2>2, <2>3, <2>4
  <1> QED  BY <1>2, <1>3 DEF BeginSucceeds

LEMMA ChooseDoes ==
    ASSUME TypeOK, NEW c \in ChosenLetters, Choose(c)
    PROVE  /\ live' \in FullSheets
           /\ BufferTypeOK'
           /\ UNCHANGED <<caller, flight, stored>>
           /\ live'[cur].letter = c /\ live'[cur].stamp = now
           /\ \A q \in Questions \ {cur} : live'[q] = live[q]
           /\ pending' = UpsertSheet(pending, DirtyRows(live', {cur}))
           /\ ~StorageFails /\ QueueMirrored => QueueMirrored'
  <1>1. cur \in Questions /\ BufferTypeOK /\ UNCHANGED stored
    BY DEF TypeOK, Choose, Elsewhere, serverVars
  <1>2. /\ live' = [live EXCEPT ![cur].letter = c, ![cur].stamp = now]
        /\ EnqueueRows(DirtyRows(live', {cur}))
    BY DEF Choose
  <1>3. /\ live' \in FullSheets
        /\ live'[cur].letter = c /\ live'[cur].stamp = now
        /\ \A q \in Questions \ {cur} : live'[q] = live[q]
    BY <1>2, ChosenItems
  <1> QED  BY <1>1, <1>2, <1>3, PageEnqueue

LEMMA FlagDoes ==
    ASSUME TypeOK, Flag
    PROVE  /\ live' \in FullSheets
           /\ BufferTypeOK'
           /\ UNCHANGED <<caller, flight, stored>>
           /\ live'[cur].stamp = now
           /\ \A q \in Questions : live'[q].letter = live[q].letter
           /\ pending' = UpsertSheet(pending, DirtyRows(live', {cur}))
           /\ ~StorageFails /\ QueueMirrored => QueueMirrored'
  <1>1. /\ live \in FullSheets /\ cur \in Questions /\ now \in Nat
        /\ BufferTypeOK /\ UNCHANGED stored
    BY DEF TypeOK, Flag, Elsewhere, serverVars
  <1>2. /\ live' = [live EXCEPT ![cur].stamp = now]
        /\ EnqueueRows(DirtyRows(live', {cur}))
    BY DEF Flag
  <1>3. /\ live' \in FullSheets /\ live'[cur].stamp = now
        /\ \A q \in Questions : live'[q].letter = live[q].letter
    <2>1. live' = StampedAt(live, cur, now)
      BY <1>2 DEF StampedAt
    <2> QED  BY <1>1, <2>1, StampedItems
  <1> QED  BY <1>1, <1>2, <1>3, PageEnqueue

(* The flush of an operation: who waits for it and what is in flight.      *)
FlushStarted ==
    /\ caller = "none" /\ caller' \in {"waiting", "saved"}
    /\ caller' = "saved" => ~InFlight /\ pending' = EmptySheet
    /\ \/ UNCHANGED flight
       \/ ~InFlight /\ caller' = "waiting"
            /\ flight' = [state |-> "sent", rows |-> pending']

LEMMA NavigateDoes ==
    ASSUME TypeOK, visit <= now, NEW q \in Questions, Navigate(q)
    PROVE  /\ live' \in FullSheets
           /\ BufferTypeOK'
           /\ FlushStarted /\ UNCHANGED stored
           /\ \A p \in Questions : live'[p].letter = live[p].letter
           /\ \E dirty \in SUBSET Questions :
                 /\ \A p \in dirty : live'[p].stamp = now
                 /\ pending' = UpsertSheet(pending, DirtyRows(live', dirty))
           /\ ~StorageFails /\ QueueMirrored => QueueMirrored'
  <1> DEFINE dirty == DwellDirty \cup (IF hidden THEN {} ELSE {q})
  <1>1. /\ live \in FullSheets /\ cur \in Questions /\ now \in Nat
        /\ BufferTypeOK /\ UNCHANGED stored
    BY DEF TypeOK, Navigate, Elsewhere, serverVars
  <1>2. FlushRows(DirtyRows(live', dirty))
    BY DEF Navigate
  <1>3. /\ live' \in FullSheets /\ dirty \in SUBSET Questions
        /\ \A p \in Questions : live'[p].letter = live[p].letter
        /\ \A p \in dirty : live'[p].stamp = now
    <2>1. CASE hidden
      <3>1. live' = live /\ dirty = {}
        BY <2>1 DEF Navigate, DwellDirty, Delta
      <3> QED  BY <1>1, <3>1
    <2>2. CASE ~hidden
      <3>1. /\ live' = [DwellFlushed EXCEPT ![q].stamp = now]
            /\ dirty = DwellDirty \cup {q}
        BY <2>2 DEF Navigate
      <3>2. /\ DwellFlushed \in FullSheets /\ DwellDirty \subseteq Questions
            /\ \A p \in Questions : DwellFlushed[p].letter = live[p].letter
            /\ \A p \in DwellDirty : DwellFlushed[p].stamp = now
        BY FlushedItems
      <3>3. live' = StampedAt(DwellFlushed, q, now)
        BY <3>1 DEF StampedAt
      <3>4. /\ live' \in FullSheets /\ live'[q].stamp = now
            /\ \A p \in Questions :
                  /\ live'[p].letter = DwellFlushed[p].letter
                  /\ p # q => live'[p] = DwellFlushed[p]
        BY <1>1, <3>2, <3>3, StampedItems
      <3> HIDE DEF dirty
      <3> QED  BY <1>1, <3>1, <3>2, <3>4
    <2> QED  BY <2>1, <2>2
  <1> HIDE DEF dirty
  <1> QED  BY <1>1, <1>2, <1>3, PageFlush DEF FlushStarted

LEMMA TickExpiresDoes ==
    ASSUME TypeOK, visit <= now, TickExpires
    PROVE  /\ live' \in FullSheets
           /\ BufferTypeOK'
           /\ FlushStarted /\ UNCHANGED stored
           /\ \A p \in Questions : live'[p].letter = live[p].letter
           /\ \E dirty \in SUBSET Questions :
                 /\ \A p \in dirty : live'[p].stamp = now
                 /\ pending' = UpsertSheet(pending, DirtyRows(live', dirty))
           /\ ~StorageFails /\ QueueMirrored => QueueMirrored'
  <1>1. BufferTypeOK /\ UNCHANGED stored
    BY DEF TypeOK, TickExpires, Elsewhere, serverVars
  <1>2. live' = DwellFlushed /\ FlushRows(DirtyRows(live', DwellDirty))
    BY DEF TickExpires
  <1> QED  BY <1>1, <1>2, FlushedItems, PageFlush DEF FlushStarted

LEMMA SubmitDoes ==
    ASSUME TypeOK, visit <= now, Submit
    PROVE  /\ next' \in FullSheets
           /\ BufferTypeOK'
           /\ FlushStarted /\ UNCHANGED stored
           /\ \A p \in Questions : next'[p].letter = live[p].letter
           /\ \E dirty \in SUBSET Questions :
                 /\ \A p \in dirty : next'[p].stamp = now
                 /\ pending' = UpsertSheet(pending, DirtyRows(next', dirty))
           /\ ~StorageFails /\ QueueMirrored => QueueMirrored'
  <1>1. BufferTypeOK /\ UNCHANGED stored
    BY DEF TypeOK, Submit, Elsewhere, serverVars
  <1>2. next' = DwellFlushed /\ FlushRows(DirtyRows(next', DwellDirty))
    BY DEF Submit
  <1> QED  BY <1>1, <1>2, FlushedItems, PageFlush DEF FlushStarted

LEMMA HideDoes ==
    ASSUME TypeOK, visit <= now, Hide
    PROVE  /\ live' \in FullSheets
           /\ BufferTypeOK'
           /\ UNCHANGED <<caller, flight, stored>>
           /\ \A p \in Questions : live'[p].letter = live[p].letter
           /\ \E dirty \in SUBSET Questions :
                 /\ \A p \in dirty : live'[p].stamp = now
                 /\ pending' = UpsertSheet(pending, DirtyRows(live', dirty))
           /\ ~StorageFails /\ QueueMirrored => QueueMirrored'
  <1>1. BufferTypeOK /\ UNCHANGED stored
    BY DEF TypeOK, Hide, Elsewhere, serverVars
  <1>2. live' = DwellFlushed /\ EnqueueRows(DirtyRows(live', DwellDirty))
    BY DEF Hide
  <1> QED  BY <1>1, <1>2, FlushedItems, PageEnqueue

LEMMA ReloadDoes ==
    ASSUME TypeOK, Reload
    PROVE  /\ live' \in FullSheets
           /\ BufferTypeOK'
           /\ QueueMirrored'
  <1>1. now \in Nat /\ stored \in Sheets /\ First \in Questions
    BY SectionAssumption DEF TypeOK, BufferTypeOK
  <1>2. BuiltItems \in FullSheets
    BY <1>1, FreshIsRow DEF BuiltItems, Sheets, FullSheets
  <1>3. live' \in FullSheets
    <2>1. StampedAt(BuiltItems, First, now) \in FullSheets
      BY <1>1, <1>2, StampedItems
    <2> QED  BY <1>2, <2>1 DEF Reload, StampedAt
  <1>4. BufferTypeOK'
    <2>1. NoFlight \in [state : {"none", "sent", "applied"}, rows : Sheets]
      BY EmptyIsSheet DEF NoFlight
    <2>2. CASE status = "in_progress"
      BY <2>1, <2>2
         DEF TypeOK, BufferTypeOK, Reload, Restart, serverVars
    <2>3. CASE status # "in_progress"
      BY <2>1, <2>3, EmptyIsSheet
         DEF TypeOK, BufferTypeOK, Reload, serverVars
    <2> QED  BY <2>2, <2>3
  <1>5. QueueMirrored'
    BY DEF Reload, Restart, QueueMirrored, EmptySheet
  <1> QED  BY <1>3, <1>4, <1>5

(* The actions that rebuild rows keep the first layer.                     *)
LEMMA BeginSucceedsKeeps ==
    ASSUME SessionInv, BeginSucceeds PROVE SessionInv'
  <1>1. TypeOK /\ Flow /\ visit <= now
    BY DEF SessionInv, Flow
  <1>2. TypeOK'
    BY <1>1, BeginSucceedsDoes
       DEF TypeOK, Flow, BeginSucceeds, VisitStart, Resting, Running,
           FinishedStatuses, NoVisit, Elsewhere, serverVars
  <1>3. Flow'
    BY <1>1, BeginSucceedsDoes
       DEF TypeOK, Flow, Finishing, TimeIsUp, BeginSucceeds, VisitStart,
           Resting, Running, FinishedStatuses, NoVisit, Elsewhere, serverVars,
           Calm
  <1> QED  BY <1>2, <1>3 DEF SessionInv

LEMMA ChooseKeeps ==
    ASSUME SessionInv, NEW c \in ChosenLetters, Choose(c) PROVE SessionInv'
  <1>1. TypeOK /\ Flow /\ visit <= now
    BY DEF SessionInv, Flow
  <1>2. TypeOK'
    <2>1. live' \in FullSheets /\ BufferTypeOK'
      BY <1>1, ChooseDoes
    <2>2. chosen' \in [Questions -> ChosenLetters]
      BY <1>1 DEF TypeOK, Choose
    <2>3. /\ phase' \in {"directions", "in_section", "finished"}
          /\ finishStatus' \in {"none"} \cup FinishedStatuses
          /\ cur' \in Questions /\ visit' \in Nat \cup {NoVisit}
          /\ next' \in Sheets /\ deadline' \in Nat \cup {NoDeadline}
          /\ status' \in {"not_started", "in_progress"} \cup FinishedStatuses
          /\ now' \in Nat /\ reloads' \in Nat
      BY <1>1 DEF TypeOK, Choose, Elsewhere, serverVars
    <2>4. hidden' \in BOOLEAN /\ blank' \in BOOLEAN /\ notice' \in BOOLEAN
      BY <1>1 DEF TypeOK, Choose
    <2>5. op' \in [kind : {"idle", "begin", "persist", "submit",
                           "submitFinish", "expire", "expireFinish"},
                   net : {"none", "sent", "applied"}]
      BY <1>1 DEF TypeOK, Choose
    <2> QED  BY <2>1, <2>2, <2>3, <2>4, <2>5 DEF TypeOK
  <1>3. Flow'
    BY <1>1, ChooseDoes
       DEF TypeOK, Flow, Finishing, TimeIsUp, Choose, Elsewhere, serverVars
  <1> QED  BY <1>2, <1>3 DEF SessionInv

LEMMA FlagKeeps ==
    ASSUME SessionInv, Flag PROVE SessionInv'
  <1>1. TypeOK /\ Flow /\ visit <= now
    BY DEF SessionInv, Flow
  <1>2. TypeOK'
    BY <1>1, FlagDoes
       DEF TypeOK, Flow, Flag, Elsewhere, serverVars
  <1>3. Flow'
    BY <1>1, FlagDoes
       DEF TypeOK, Flow, Finishing, TimeIsUp, Flag, Elsewhere, serverVars
  <1> QED  BY <1>2, <1>3 DEF SessionInv

LEMMA NavigateKeeps ==
    ASSUME SessionInv, NEW q \in Questions, Navigate(q) PROVE SessionInv'
  <1>1. TypeOK /\ Flow /\ visit <= now
    BY DEF SessionInv, Flow
  <1>2. TypeOK'
    BY <1>1, NavigateDoes
       DEF TypeOK, Flow, Navigate, Resolved, Resting, Running, VisitStart,
           NoVisit, FlushStarted, Elsewhere, serverVars
  <1>3. Flow'
    <2>1. caller = "none" /\ caller' # "none"
      BY <1>1, NavigateDoes DEF FlushStarted
    <2> QED
      BY <1>1, <2>1
         DEF TypeOK, Flow, Finishing, TimeIsUp, Navigate, VisitStart, NoVisit,
             Running, Elsewhere, serverVars
  <1> QED  BY <1>2, <1>3 DEF SessionInv

LEMMA ReconnectDoes ==
    ASSUME TypeOK, Reconnect \/ SubmitWithBlanks
    PROVE  /\ BufferTypeOK'
           /\ FlushStarted /\ UNCHANGED <<pending, live, stored>>
           /\ ~StorageFails /\ QueueMirrored => QueueMirrored'
  <1>1. BufferTypeOK /\ FlushNow /\ UNCHANGED <<live, stored>>
    BY DEF TypeOK, Reconnect, SubmitWithBlanks, Elsewhere, serverVars,
           reducerVars
  <1> QED  BY <1>1, FlushNowTypes DEF FlushStarted

LEMMA ReconnectKeeps ==
    ASSUME SessionInv, Reconnect PROVE SessionInv'
  <1>1. TypeOK /\ Flow /\ visit <= now
    BY DEF SessionInv, Flow
  <1>2. TypeOK'
    BY <1>1, ReconnectDoes
       DEF TypeOK, Flow, Reconnect, Resolved, Resting, Running, FlushStarted,
           reducerVars, Elsewhere, serverVars
  <1>3. Flow'
    BY <1>1, ReconnectDoes
       DEF TypeOK, Flow, Finishing, TimeIsUp, Reconnect, Resolved, Resting,
           Running, FlushStarted, reducerVars, Elsewhere, serverVars
  <1> QED  BY <1>2, <1>3 DEF SessionInv

LEMMA SubmitWithBlanksKeeps ==
    ASSUME SessionInv, SubmitWithBlanks PROVE SessionInv'
  <1>1. TypeOK /\ Flow /\ visit <= now
    BY DEF SessionInv, Flow
  <1>2. TypeOK'
    BY <1>1, ReconnectDoes
       DEF TypeOK, Flow, SubmitWithBlanks, Writable, Resting, Running,
           FlushStarted, Elsewhere, serverVars
  <1>3. Flow'
    BY <1>1, ReconnectDoes
       DEF TypeOK, Flow, Finishing, TimeIsUp, SubmitWithBlanks, Writable,
           Resting, Running, FlushStarted, Elsewhere, serverVars
  <1> QED  BY <1>2, <1>3 DEF SessionInv

LEMMA SubmitKeeps ==
    ASSUME SessionInv, Submit PROVE SessionInv'
  <1>1. TypeOK /\ Flow /\ visit <= now
    BY DEF SessionInv, Flow
  <1>2. TypeOK'
    BY <1>1, SubmitDoes, FullIsSheet
       DEF TypeOK, Flow, Submit, Writable, Resting, Running, FlushStarted,
           reducerVars, Elsewhere, serverVars
  <1>3. Flow'
    BY <1>1, SubmitDoes, FullIsSheet
       DEF TypeOK, Flow, Finishing, TimeIsUp, Submit, Writable, Resting,
           Running, FlushStarted, reducerVars, Elsewhere, serverVars
  <1> QED  BY <1>2, <1>3 DEF SessionInv

LEMMA TickExpiresKeeps ==
    ASSUME SessionInv, TickExpires PROVE SessionInv'
  <1>1. TypeOK /\ Flow /\ visit <= now
    BY DEF SessionInv, Flow
  <1>2. TypeOK'
    BY <1>1, TickExpiresDoes
       DEF TypeOK, Flow, TickExpires, TickIsLate, Resting, Running, NoVisit,
           FinishedStatuses, FlushStarted, Elsewhere, serverVars
  <1>3. Flow'
    <2>1. caller = "none" /\ caller' # "none"
      BY <1>1, TickExpiresDoes DEF FlushStarted
    <2> QED
      BY <1>1, <2>1
         DEF TypeOK, Flow, Finishing, TimeIsUp, TickExpires, TickIsLate,
             NoVisit, Running, Elsewhere, serverVars
  <1> QED  BY <1>2, <1>3 DEF SessionInv

LEMMA HideKeeps ==
    ASSUME SessionInv, Hide PROVE SessionInv'
  <1>1. TypeOK /\ Flow /\ visit <= now
    BY DEF SessionInv, Flow
  <1>2. TypeOK'
    BY <1>1, HideDoes
       DEF TypeOK, Flow, Hide, NoVisit, Elsewhere, serverVars
  <1>3. Flow'
    BY <1>1, HideDoes
       DEF TypeOK, Flow, Finishing, TimeIsUp, Hide, NoVisit, Elsewhere,
           serverVars
  <1> QED  BY <1>2, <1>3 DEF SessionInv

LEMMA ReloadKeeps ==
    ASSUME SessionInv, Reload PROVE SessionInv'
  <1>1. TypeOK /\ Flow /\ visit <= now
    BY DEF SessionInv, Flow
  <1>2. TypeOK'
    <2>1. live' \in FullSheets /\ BufferTypeOK'
      BY <1>1, ReloadDoes
    <2>2. /\ phase' \in {"in_section", "finished"}
          /\ finishStatus' \in {"none"} \cup FinishedStatuses
          /\ visit' \in Nat \cup {NoVisit}
      BY <1>1 DEF TypeOK, Reload, FinishedStatuses
    <2>3. /\ UNCHANGED <<status, deadline, now, chosen>>
          /\ cur' = First /\ reloads' = reloads + 1
          /\ hidden' = FALSE /\ blank' = FALSE /\ notice' = FALSE
          /\ op' = Resting /\ next' = EmptySheet
      BY DEF Reload, serverVars
    <2>4. cur' \in Questions /\ next' \in Sheets /\ reloads' \in Nat
      BY <1>1, <2>3, SectionAssumption, EmptyIsSheet DEF TypeOK
    <2>5. op' \in [kind : {"idle", "begin", "persist", "submit",
                           "submitFinish", "expire", "expireFinish"},
                   net : {"none", "sent", "applied"}]
      BY <2>3 DEF Resting, Running
    <2>6. phase' \in {"directions", "in_section", "finished"}
      BY <2>2
    <2> QED
      BY <1>1, <2>1, <2>2, <2>3, <2>4, <2>5, <2>6, ZenonT(60) DEF TypeOK
  <1>3. Flow'
    BY <1>1, ReloadDoes, SectionAssumption, EmptyIsSheet
       DEF TypeOK, Flow, Finishing, TimeIsUp, Reload, Restart, Reopens,
           Resting, Running, NoVisit, FinishedStatuses, serverVars
  <1> QED  BY <1>2, <1>3 DEF SessionInv

LEMMA StutterKeeps ==
    ASSUME SessionInv, UNCHANGED vars PROVE SessionInv'
  <1>1. BufferTypeOK'
    BY BufferUntouched DEF vars, SessionInv, TypeOK, serverVars
  <1>2. TypeOK'
    BY <1>1 DEF vars, reducerVars, serverVars, SessionInv, TypeOK
  <1>3. Flow'
    BY DEF vars, bufferVars, reducerVars, serverVars, SessionInv, Flow,
           Finishing, TimeIsUp
  <1> QED  BY <1>2, <1>3 DEF SessionInv

LEMMA SessionNext ==
    ASSUME SessionInv, [Next]_vars PROVE SessionInv'
  <1>1. Letters \subseteq ChosenLetters /\ Blank \in ChosenLetters
    BY DEF ChosenLetters
  <1>2. CASE UNCHANGED vars
    BY <1>2, StutterKeeps
  <1>3. CASE Begin \/ ServerBegins \/ BeginSucceeds \/ BeginFails
    BY <1>3, BeginKeeps, ServerBeginsKeeps, BeginSucceedsKeeps, BeginFailsKeeps
  <1>4. CASE \/ \E letter \in Letters : Choose(letter)
             \/ Choose(Blank) \/ Flag
    BY <1>1, <1>4, ChooseKeeps, FlagKeeps
  <1>5. CASE \/ \E q \in Questions : Navigate(q)
             \/ Reconnect \/ SubmitWithBlanks
    BY <1>5, NavigateKeeps, ReconnectKeeps, SubmitWithBlanksKeeps
  <1>6. CASE Submit \/ CancelSubmit \/ TickExpires \/ PersistReturns
    BY <1>6, SubmitKeeps, CancelSubmitKeeps, TickExpiresKeeps,
       PersistReturnsKeeps
  <1>7. CASE ServerFinishes \/ FinishSucceeds \/ FinishFails \/ Hide \/ Show
    BY <1>7, ServerFinishesKeeps, FinishSucceedsKeeps, FinishFailsKeeps,
       HideKeeps, ShowKeeps
  <1>8. CASE Fire \/ Succeed \/ Fail \/ Deliver \/ Reload \/ Tick
    BY <1>8, FireKeeps, SucceedKeeps, FailKeeps, DeliverKeeps, ReloadKeeps,
       TickKeeps
  <1> QED  BY <1>2, <1>3, <1>4, <1>5, <1>6, <1>7, <1>8 DEF Next

LEMMA InitSession == Init => SessionInv
  <1> SUFFICES ASSUME Init PROVE SessionInv
    OBVIOUS
  <1>1. NoFlight \in [state : {"none", "sent", "applied"}, rows : Sheets]
    BY EmptyIsSheet DEF NoFlight
  <1>2. BufferTypeOK
    BY <1>1, EmptyIsSheet DEF Init, BufferInit, BufferTypeOK
  <1>3. live \in FullSheets
    BY FreshIsRow DEF Init, FullSheets
  <1>4. chosen \in [Questions -> ChosenLetters]
    BY DEF Init, ChosenLetters
  <1>5. TypeOK
    BY <1>2, <1>3, <1>4, SectionAssumption, EmptyIsSheet
       DEF Init, TypeOK, Resting, Running
  <1>6. Flow
    BY DEF Init, BufferInit, Flow, Finishing, Resting, Running, NoVisit
  <1> QED  BY <1>5, <1>6 DEF SessionInv

LEMMA SessionInvariance == Spec => []SessionInv
  <1>1. SessionInv /\ [Next]_vars => SessionInv'
    BY SessionNext
  <1> QED  BY <1>1, InitSession, PTL DEF Spec

-----------------------------------------------------------------------------
(***************************************************************************)
(* What follows from the first layer.                                      *)
(***************************************************************************)

(* The phase of the page is one-way; a finished page stays finished.       *)
LEMMA PhaseStays ==
    ASSUME SessionInv, [Next]_vars, phase = "finished"
    PROVE  phase' = "finished"
  <1>1. CASE UNCHANGED phase
    BY <1>1
  <1>2. CASE BeginSucceeds
    BY <1>2 DEF BeginSucceeds, Running, SessionInv, Flow
  <1>3. CASE \/ \E q \in Questions : Navigate(q)
             \/ SubmitWithBlanks \/ Submit \/ TickExpires \/ Hide \/ Show
    BY <1>3
       DEF Navigate, SubmitWithBlanks, Submit, Writable, TickExpires, Hide,
                Show
  <1>4. CASE FinishSucceeds
    BY <1>4 DEF FinishSucceeds
  <1>5. CASE Reload
    <2>1. ~Reopens
      BY <1>5 DEF Reload, Reopens, SessionInv, Flow
    <2> QED  BY <1>5, <2>1 DEF Reload
  <1>6. UNCHANGED phase \/ BeginSucceeds
        \/ (\E q \in Questions : Navigate(q))
        \/ SubmitWithBlanks \/ Submit \/ TickExpires \/ Hide \/ Show
        \/ FinishSucceeds \/ Reload
    BY DEF Next, vars, reducerVars, Begin, ServerBegins, BeginFails, Choose,
           Flag, Reconnect, CancelSubmit, PersistReturns, ServerFinishes,
           FinishFails, Fire, Succeed, Fail, BufferAlone, Deliver, Tick
  <1> QED  BY <1>1, <1>2, <1>3, <1>4, <1>5, <1>6

(* While storage works every step keeps the mirror up with the queue.      *)
LEMMA MirrorNext ==
    ASSUME SessionInv, ~StorageFails, QueueMirrored, [Next]_vars
    PROVE  QueueMirrored'
  <1>1. TypeOK /\ visit <= now
    BY DEF SessionInv, Flow
  <1>2. CASE UNCHANGED <<pending, mirror>>
    BY <1>2 DEF QueueMirrored
  <1>3. CASE BeginSucceeds \/ Flag \/ Hide \/ Reload
    BY <1>1, <1>3, BeginSucceedsDoes, FlagDoes, HideDoes, ReloadDoes
  <1>4. CASE (\E letter \in Letters : Choose(letter)) \/ Choose(Blank)
    BY <1>1, <1>4, ChooseDoes DEF ChosenLetters
  <1>5. CASE (\E q \in Questions : Navigate(q)) \/ Submit \/ TickExpires
    BY <1>1, <1>5, NavigateDoes, SubmitDoes, TickExpiresDoes
  <1>6. CASE Reconnect \/ SubmitWithBlanks
    BY <1>1, <1>6, ReconnectDoes
  <1>7. CASE Succeed
    BY <1>7 DEF Succeed, FlushSucceeds, Persist, QueueMirrored
  <1>8. \/ UNCHANGED <<pending, mirror>>
        \/ BeginSucceeds \/ Flag \/ Hide \/ Reload
        \/ (\E letter \in Letters : Choose(letter)) \/ Choose(Blank)
        \/ (\E q \in Questions : Navigate(q)) \/ Submit \/ TickExpires
        \/ Reconnect \/ SubmitWithBlanks
        \/ Succeed
    BY DEF Next, vars, bufferVars, Begin, ServerBegins, BeginFails,
           CancelSubmit, PersistReturns, ServerFinishes, FinishSucceeds,
           FinishFails, Show, Fire, TimerFires, Fail, FlushFails, Deliver,
           DeliverFlight, Tick
  <1> QED  BY <1>2, <1>3, <1>4, <1>5, <1>6, <1>7, <1>8

-----------------------------------------------------------------------------
(***************************************************************************)
(* The second layer: where the chosen letter is, action by action.         *)
(***************************************************************************)
LEMMA UpsertedFields ==
    ASSUME NEW old \in Rows \cup {NoRow}, NEW incoming \in Rows
    PROVE  /\ Upserted(old, incoming) \in Rows
           /\ Upserted(old, incoming) # NoRow
           /\ Upserted(old, incoming).stamp = incoming.stamp
           /\ Upserted(old, incoming).letter = incoming.letter
  <1>1. CASE old = NoRow
    BY <1>1, RowFields DEF Upserted
  <1>2. CASE old # NoRow
    <2>1. old \in Rows  BY <1>2
    <2>2. /\ MergeExamDwell(old, incoming).stamp = incoming.stamp
          /\ MergeExamDwell(old, incoming).letter = incoming.letter
      BY <2>1 DEF MergeExamDwell, Rows
    <2> QED  BY <1>2, <2>1, <2>2, MergeIsRow, RowFields DEF Upserted
  <1> QED  BY <1>1, <1>2

(* A row of the present millisecond goes over the queued one: with the     *)
(* same letter it may equal the row in flight, with another letter it must *)
(* be newer.                                                               *)
LEMMA QueuedTraced ==
    ASSUME NEW p \in Rows \cup {NoRow}, NEW f \in Rows \cup {NoRow},
           NEW s \in Rows \cup {NoRow}, NEW c, NEW d, NEW state, NEW t \in Nat,
           NEW r \in Rows, r.letter = d, r.stamp = t,
           Traced(p, f, s, c, state, t),
           c = d \/ (f # NoRow => f.stamp < t)
    PROVE  Traced(Upserted(p, r), f, s, d, state, t)
  <1>1. /\ Upserted(p, r) # NoRow
        /\ Upserted(p, r).stamp = t
        /\ Upserted(p, r).letter = d
    BY UpsertedFields
  <1>2. CASE f = NoRow
    BY <1>1, <1>2 DEF Traced
  <1>3. CASE f # NoRow
    <2>1. f \in Rows /\ p \in Rows /\ f.stamp \in Nat /\ p.stamp \in Nat
      BY <1>3, RowFields DEF Traced
    <2>2. f.stamp <= t
      BY <1>3, <2>1 DEF Traced
    <2>3. f.stamp = t => f.letter = d
      BY <1>3, <2>1 DEF Traced
    <2> QED  BY <1>1, <1>3, <2>2, <2>3 DEF Traced
  <1> QED  BY <1>2, <1>3

(* What is used of the types, question by question.                        *)
LEMMA SectionSlots ==
    ASSUME TypeOK, NEW q \in Questions
    PROVE  /\ pending[q] \in Rows \cup {NoRow}
           /\ flight.rows[q] \in Rows \cup {NoRow}
           /\ stored[q] \in Rows \cup {NoRow}
           /\ now \in Nat
  BY DEF TypeOK, BufferTypeOK, Sheets

(* The queue after an enqueue of rows that carry the chosen letters.       *)
LEMMA EnqueueTraced ==
    ASSUME TypeOK, RowsTraced, NEW items \in FullSheets,
           NEW dirty \in SUBSET Questions,
           \A q \in dirty : items[q].stamp = now,
           \A q \in Questions : items[q].letter = chosen[q],
           NEW q \in Questions
    PROVE  Traced(UpsertSheet(pending, DirtyRows(items, dirty))[q],
                  flight.rows[q], stored[q], chosen[q], flight.state, now)
  <1>1. Traced(pending[q], flight.rows[q], stored[q], chosen[q],
               flight.state, now)
    BY DEF RowsTraced
  <1>2. items[q] \in Rows /\ items[q] # NoRow
    BY RowFields DEF FullSheets
  <1>3. CASE q \notin dirty
    <2>1. UpsertSheet(pending, DirtyRows(items, dirty))[q] = pending[q]
      BY <1>3, DirtySheet DEF UpsertSheet
    <2> QED  BY <1>1, <2>1
  <1>4. CASE q \in dirty
    <2>1. UpsertSheet(pending, DirtyRows(items, dirty))[q]
            = Upserted(pending[q], items[q])
      BY <1>2, <1>4, DirtySheet DEF UpsertSheet
    <2> QED  BY <1>1, <1>2, <1>4, <2>1, SectionSlots, QueuedTraced
  <1> QED  BY <1>3, <1>4

(* A step that moves no row and makes no choice.                            *)
LEMMA RowsStay ==
    ASSUME RowsTraced, UNCHANGED <<pending, flight, stored, chosen, now>>
    PROVE  RowsTraced'
  BY DEF RowsTraced

LEMMA BeginTrace ==
    ASSUME SessionInv, Trace, Begin PROVE Trace'
  <1>1. RowsTraced'
    BY RowsStay
       DEF Trace, Begin, Resolved, Resting, Running, bufferVars, reducerVars,
           Elsewhere, serverVars
  <1>2. ItemsChosen' /\ CallerKnows' /\ FinishSettled'
    BY DEF SessionInv, Flow, Trace, ItemsChosen, CallerKnows, FlightIsPast,
           FinishSettled, Settled, Finishing, Calm,
           Begin, Resolved, Resting, Running, bufferVars, reducerVars,
           Elsewhere, serverVars
  <1> QED  BY <1>1, <1>2 DEF Trace

LEMMA ServerBeginsTrace ==
    ASSUME SessionInv, Trace, ServerBegins PROVE Trace'
  <1>1. RowsTraced'
    BY RowsStay
       DEF Trace, ServerBegins, FinishedStatuses, Resting, Running,
           bufferVars, reducerVars
  <1>2. ItemsChosen' /\ CallerKnows' /\ FinishSettled'
    BY DEF SessionInv, Flow, Trace, ItemsChosen, CallerKnows, FlightIsPast,
           FinishSettled, Settled, Finishing, Calm,
           ServerBegins, FinishedStatuses, Resting, Running, bufferVars,
           reducerVars
  <1> QED  BY <1>1, <1>2 DEF Trace

LEMMA BeginFailsTrace ==
    ASSUME SessionInv, Trace, BeginFails PROVE Trace'
  <1>1. RowsTraced'
    BY RowsStay
       DEF Trace, BeginFails, Resting, Running, bufferVars, reducerVars,
           Elsewhere, serverVars
  <1>2. ItemsChosen' /\ CallerKnows' /\ FinishSettled'
    BY DEF SessionInv, Flow, Trace, ItemsChosen, CallerKnows, FlightIsPast,
           FinishSettled, Settled, Finishing, Calm,
           BeginFails, Resting, Running, bufferVars,
           reducerVars, Elsewhere, serverVars
  <1> QED  BY <1>1, <1>2 DEF Trace

LEMMA CancelSubmitTrace ==
    ASSUME SessionInv, Trace, CancelSubmit PROVE Trace'
  <1>1. RowsTraced'
    BY RowsStay
       DEF Trace, CancelSubmit, Resting, Running, bufferVars, reducerVars,
           Elsewhere, serverVars
  <1>2. ItemsChosen' /\ CallerKnows' /\ FinishSettled'
    BY DEF SessionInv, Flow, Trace, ItemsChosen, CallerKnows, FlightIsPast,
           FinishSettled, Settled, Finishing, Calm,
           CancelSubmit, Resting, Running, bufferVars,
           reducerVars, Elsewhere, serverVars
  <1> QED  BY <1>1, <1>2 DEF Trace

LEMMA ServerFinishesTrace ==
    ASSUME SessionInv, Trace, ServerFinishes PROVE Trace'
  <1>1. RowsTraced'
    BY RowsStay
       DEF Trace, ServerFinishes, FinishedStatuses, Resting, Running,
           bufferVars, reducerVars
  <1>2. ItemsChosen' /\ CallerKnows' /\ FinishSettled'
    BY DEF SessionInv, Flow, Trace, ItemsChosen, CallerKnows, FlightIsPast,
           FinishSettled, Settled, Finishing, Calm,
           ServerFinishes, FinishedStatuses, Resting, Running, bufferVars,
           reducerVars
  <1> QED  BY <1>1, <1>2 DEF Trace

LEMMA FinishSucceedsTrace ==
    ASSUME SessionInv, Trace, FinishSucceeds PROVE Trace'
  <1>1. RowsTraced'
    BY RowsStay
       DEF Trace, FinishSucceeds, Resting, Running, bufferVars, reducerVars,
           Elsewhere, serverVars
  <1>2. ItemsChosen' /\ CallerKnows' /\ FinishSettled'
    BY DEF SessionInv, Flow, Trace, ItemsChosen, CallerKnows, FlightIsPast,
           FinishSettled, Settled, Finishing, Calm,
           FinishSucceeds, Resting, Running, bufferVars,
           reducerVars, Elsewhere, serverVars
  <1> QED  BY <1>1, <1>2 DEF Trace

LEMMA FinishFailsTrace ==
    ASSUME SessionInv, Trace, FinishFails PROVE Trace'
  <1>1. RowsTraced'
    BY RowsStay
       DEF Trace, FinishFails, Resting, Running, bufferVars, reducerVars,
           Elsewhere, serverVars
  <1>2. ItemsChosen' /\ CallerKnows' /\ FinishSettled'
    BY DEF SessionInv, Flow, Trace, ItemsChosen, CallerKnows, FlightIsPast,
           FinishSettled, Settled, Finishing, Calm,
           FinishFails, Resting, Running, bufferVars,
           reducerVars, Elsewhere, serverVars
  <1> QED  BY <1>1, <1>2 DEF Trace

LEMMA ShowTrace ==
    ASSUME SessionInv, Trace, Show PROVE Trace'
  <1>1. RowsTraced'
    BY RowsStay
       DEF Trace, Show, Resting, Running, bufferVars, reducerVars, Elsewhere,
           serverVars
  <1>2. ItemsChosen' /\ CallerKnows' /\ FinishSettled'
    BY DEF SessionInv, Flow, Trace, ItemsChosen, CallerKnows, FlightIsPast,
           FinishSettled, Settled, Finishing, Calm,
           Show, Resting, Running, bufferVars,
           reducerVars, Elsewhere, serverVars
  <1> QED  BY <1>1, <1>2 DEF Trace

(* A flush that the page is told is saved has emptied the queue, and left  *)
(* nothing in flight: the server has every chosen letter.                  *)
LEMMA PersistReturnsTrace ==
    ASSUME SessionInv, Trace, PersistReturns PROVE Trace'
  <1>1. RowsTraced'
    BY RowsStay DEF Trace, PersistReturns, Elsewhere, serverVars
  <1>2. flight.rows = EmptySheet
    BY DEF Trace, CallerKnows, PersistReturns
  <1>3. ItemsChosen'
    BY DEF SessionInv, Flow, Trace, ItemsChosen, PersistReturns, Calm, Resting,
           Running, reducerVars
  <1>4. CallerKnows'
    BY <1>2 DEF Trace, CallerKnows, PersistReturns, FlightIsPast, EmptySheet,
                Calm
  <1>5. FinishSettled'
    <2>1. caller = "saved" => Settled
      <3> SUFFICES ASSUME caller = "saved" PROVE Settled
        OBVIOUS
      <3>1. pending = EmptySheet
        BY DEF Trace, CallerKnows
      <3> QED
        BY <1>2, <3>1 DEF Trace, RowsTraced, Traced, Settled, EmptySheet
    <2>2. Finishing' => caller = "saved"
      BY DEF SessionInv, Flow, PersistReturns, Persisted, Finishing, Resting,
             Running, Calm
    <2>3. Settled => Settled'
      BY DEF Settled, PersistReturns, Elsewhere, serverVars
    <2> QED
      BY <2>1, <2>2, <2>3
         DEF Trace, FinishSettled, PersistReturns, reducerVars, Elsewhere,
             serverVars
  <1> QED  BY <1>1, <1>3, <1>4, <1>5 DEF Trace

LEMMA TickTrace ==
    ASSUME SessionInv, Trace, Tick PROVE Trace'
  <1>1. /\ now' = now + 1 /\ now < MaxTime /\ now \in Nat
        /\ UNCHANGED <<bufferVars, reducerVars, op, next, notice, serverVars,
                       reloads, chosen>>
    BY DEF Tick, SessionInv, TypeOK
  <1>2. RowsTraced'
    <2> SUFFICES ASSUME NEW q \in Questions
                 PROVE  Traced(pending[q], flight.rows[q], stored[q], chosen[q],
                               flight.state, now + 1)
      BY <1>1 DEF RowsTraced, bufferVars, serverVars
    <2>1. Traced(pending[q], flight.rows[q], stored[q], chosen[q],
                 flight.state, now)
      BY DEF Trace, RowsTraced
    <2>2. pending[q] # NoRow => pending[q].stamp \in Nat
      BY SectionSlots, RowFields DEF SessionInv
    <2> QED  BY <1>1, <2>1, <2>2 DEF Traced
  <1>3. CallerKnows'
    <2>1. ASSUME FlightIsPast PROVE FlightIsPast'
      <3> SUFFICES ASSUME NEW q \in Questions, flight.rows[q] # NoRow
                   PROVE  flight.rows[q].stamp < now + 1
        BY <1>1 DEF FlightIsPast, bufferVars
      <3>1. flight.rows[q].stamp < now /\ flight.rows[q].stamp \in Nat
        BY <1>1, <2>1, SectionSlots, RowFields DEF FlightIsPast, SessionInv
      <3> QED  BY <1>1, <3>1
    <2> QED  BY <1>1, <2>1 DEF Trace, CallerKnows, Calm, bufferVars
  <1>4. ItemsChosen' /\ FinishSettled'
    BY <1>1 DEF Trace, ItemsChosen, FinishSettled, Finishing, Settled,
                bufferVars, reducerVars, serverVars
  <1> QED  BY <1>2, <1>3, <1>4 DEF Trace

(* The buffer on its own.  A timer that fires sends rows of the past.       *)
LEMMA FireTrace ==
    ASSUME SessionInv, Trace, Fire PROVE Trace'
  <1>1. /\ UNCHANGED <<pending, caller, stored, chosen, now, status>>
        /\ UNCHANGED <<reducerVars, op, next>>
        /\ now = MaxTime \/ \A q \in Held(pending) : pending[q].stamp < now
        /\ \/ UNCHANGED flight
           \/ ~InFlight /\ flight' = [state |-> "sent", rows |-> pending]
    BY DEF Fire, TimerFires, BufferAlone, Elsewhere, serverVars
  <1>2. Calm
    BY DEF Fire, TimerFires
  <1>3. CASE UNCHANGED flight
    BY <1>1, <1>3
       DEF Trace, RowsTraced, ItemsChosen, CallerKnows, FlightIsPast,
           FinishSettled, Finishing, Settled, Calm, reducerVars
  <1>4. CASE ~InFlight /\ flight' = [state |-> "sent", rows |-> pending]
    <2>1. flight'.state = "sent" /\ flight'.rows = pending
      BY <1>4
    <2>2. RowsTraced'
      <3> SUFFICES ASSUME NEW q \in Questions
                   PROVE  Traced(pending[q], pending[q], stored[q], chosen[q],
                                 "sent", now)
        BY <1>1, <2>1 DEF RowsTraced
      <3>1. Traced(pending[q], flight.rows[q], stored[q], chosen[q],
                   flight.state, now)
        BY DEF Trace, RowsTraced
      <3>2. pending[q] # NoRow => pending[q].stamp \in Nat
        BY SectionSlots, RowFields DEF SessionInv
      <3> QED  BY <3>1, <3>2 DEF Traced
    <2>3. CallerKnows'
      BY <1>1, <1>2, <2>1
         DEF Trace, CallerKnows, FlightIsPast, Calm, Held
    <2>4. \A q \in Questions :
             pending[q] # NoRow => pending[q].letter = chosen[q]
      BY DEF Trace, RowsTraced, Traced
    <2>5. ItemsChosen' /\ FinishSettled'
      BY <1>1, <2>1, <2>4
         DEF Trace, ItemsChosen, FinishSettled, Finishing, Settled, reducerVars
    <2> QED  BY <2>2, <2>3, <2>5 DEF Trace
  <1> QED  BY <1>1, <1>3, <1>4

LEMMA FailTrace ==
    ASSUME SessionInv, Trace, Fail PROVE Trace'
  <1>1. /\ UNCHANGED <<pending, stored, chosen, now, status>>
        /\ UNCHANGED <<reducerVars, op, next>>
        /\ flight' = NoFlight
        /\ caller' = Answered(pending)
    BY DEF Fail, FlushFails, BufferAlone, Elsewhere, serverVars
  <1>2. flight'.state = "none" /\ flight'.rows = EmptySheet
    BY <1>1 DEF NoFlight
  <1>3. RowsTraced'
    BY <1>1, <1>2 DEF Trace, RowsTraced, Traced, EmptySheet
  <1>4. Calm
    BY DEF Fail, FlushFails
  <1>5. CallerKnows' /\ ItemsChosen' /\ FinishSettled'
    BY <1>1, <1>2, <1>4
       DEF Trace, ItemsChosen, CallerKnows, FlightIsPast, FinishSettled,
           Finishing, Settled, Calm, Answered, EmptySheet, reducerVars
  <1> QED  BY <1>3, <1>5 DEF Trace

(* The upsert at the server: the stored row takes the letter of the row in *)
(* flight.                                                                 *)
LEMMA DeliverTrace ==
    ASSUME SessionInv, Trace, Deliver PROVE Trace'
  <1>1. /\ UNCHANGED <<pending, caller, chosen, now, status>>
        /\ UNCHANGED <<reducerVars, op, next>>
        /\ stored' = UpsertSheet(stored, flight.rows)
        /\ flight.state = "sent" /\ status = "in_progress"
    BY DEF Deliver, DeliverFlight
  <1>2. flight'.rows = flight.rows /\ flight'.state = "applied"
    BY DEF Deliver, DeliverFlight, SessionInv, TypeOK, BufferTypeOK
  <1>3. ASSUME NEW q \in Questions, flight.rows[q] # NoRow
        PROVE  stored'[q] # NoRow /\ stored'[q].letter = flight.rows[q].letter
    <2>1. flight.rows[q] \in Rows /\ stored[q] \in Rows \cup {NoRow}
      BY <1>3, SectionSlots DEF SessionInv
    <2>2. stored'[q] = Upserted(stored[q], flight.rows[q])
      BY <1>1, <1>3 DEF UpsertSheet
    <2> QED  BY <2>1, <2>2, UpsertedFields
  <1>4. ASSUME NEW q \in Questions, flight.rows[q] = NoRow
        PROVE  stored'[q] = stored[q]
    BY <1>1, <1>4 DEF UpsertSheet
  <1>5. RowsTraced'
    <2> SUFFICES ASSUME NEW q \in Questions
                 PROVE  Traced(pending[q], flight.rows[q], stored'[q],
                               chosen[q], "applied", now)
      BY <1>1, <1>2 DEF RowsTraced
    <2>1. Traced(pending[q], flight.rows[q], stored[q], chosen[q], "sent", now)
      BY <1>1 DEF Trace, RowsTraced
    <2> QED  BY <1>3, <1>4, <2>1 DEF Traced
  <1>6. Settled => Settled'
    <2> SUFFICES ASSUME Settled, NEW q \in Questions
                 PROVE  /\ LetterOf(stored'[q]) = chosen[q]
                        /\ flight.rows[q] # NoRow
                              => flight.rows[q].letter = chosen[q]
      BY <1>1, <1>2 DEF Settled
    <2> QED  BY <1>3, <1>4 DEF Settled, LetterOf
  <1>7. ItemsChosen' /\ CallerKnows' /\ FinishSettled'
    BY <1>1, <1>2, <1>6
       DEF Trace, ItemsChosen, CallerKnows, FlightIsPast, FinishSettled,
           Finishing, Calm, reducerVars
  <1> QED  BY <1>5, <1>7 DEF Trace

(* The row that leaves the queue is the one the server was sent: it has    *)
(* the same stamp, hence the same letter.                                  *)
LEMMA SucceedTrace ==
    ASSUME SessionInv, Trace, Succeed PROVE Trace'
  <1>1. /\ UNCHANGED <<stored, chosen, now, status>>
        /\ UNCHANGED <<reducerVars, op, next>>
        /\ flight.state = "applied"
        /\ pending' = LeftQueued(flight.rows)
        /\ flight' = NoFlight
        /\ caller' = Answered(pending')
    BY DEF Succeed, FlushSucceeds, BufferAlone, Elsewhere, serverVars
  <1>2. flight'.state = "none" /\ flight'.rows = EmptySheet
    BY <1>1 DEF NoFlight
  <1>3. RowsTraced'
    <2> SUFFICES ASSUME NEW q \in Questions
                 PROVE  Traced(pending'[q], NoRow, stored[q], chosen[q],
                               "none", now)
      BY <1>1, <1>2 DEF RowsTraced, EmptySheet
    <2>1. Traced(pending[q], flight.rows[q], stored[q], chosen[q],
                 "applied", now)
      BY <1>1 DEF Trace, RowsTraced
    <2>2. CASE pending'[q] = pending[q]
      BY <2>1, <2>2 DEF Traced
    <2>3. CASE pending'[q] # pending[q]
      <3>1. /\ pending'[q] = NoRow
            /\ flight.rows[q] # NoRow /\ pending[q] # NoRow
            /\ pending[q].stamp = flight.rows[q].stamp
        BY <1>1, <2>3 DEF LeftQueued
      <3> QED  BY <2>1, <3>1 DEF Traced, LetterOf
    <2> QED  BY <2>2, <2>3
  <1>4. Calm
    BY DEF Succeed, FlushSucceeds
  <1>5. CallerKnows' /\ ItemsChosen' /\ FinishSettled'
    BY <1>1, <1>2, <1>4
       DEF Trace, ItemsChosen, CallerKnows, FlightIsPast, FinishSettled,
           Finishing, Settled, Calm, Answered, EmptySheet, reducerVars
  <1> QED  BY <1>3, <1>5 DEF Trace

(* The handlers that queue a row with the letter it had.                   *)
LEMMA EnqueueKeepsTrace ==
    ASSUME SessionInv, Trace,
           UNCHANGED <<caller, flight, stored, chosen, now, status, next>>,
           op' \in {op, Resting},
           finishStatus' \in {finishStatus, "expired"},
           finishStatus # "submitted" \/ UNCHANGED phase,
           \A q \in Questions : live'[q].letter = live[q].letter,
           NEW items \in FullSheets, NEW dirty \in SUBSET Questions,
           \A q \in dirty : items[q].stamp = now,
           \A q \in Questions : items[q].letter = chosen[q],
           pending' = UpsertSheet(pending, DirtyRows(items, dirty)),
           Calm
    PROVE  Trace'
  <1>1. RowsTraced'
    BY EnqueueTraced DEF Trace, RowsTraced, SessionInv
  <1>2. ItemsChosen' /\ FinishSettled'
    BY DEF Trace, ItemsChosen, FinishSettled, Finishing, Settled, Resting,
           Running
  <1>3. CallerKnows'
    BY DEF Trace, CallerKnows, FlightIsPast, Calm
  <1> QED  BY <1>1, <1>2, <1>3 DEF Trace

LEMMA FlagTrace ==
    ASSUME SessionInv, Trace, Flag PROVE Trace'
  <1>1. /\ live' \in FullSheets /\ live'[cur].stamp = now
        /\ UNCHANGED <<caller, flight, stored>>
        /\ \A q \in Questions : live'[q].letter = live[q].letter
        /\ pending' = UpsertSheet(pending, DirtyRows(live', {cur}))
    BY FlagDoes DEF SessionInv
  <1>2. /\ UNCHANGED <<chosen, now, status, op, next, finishStatus, phase>>
        /\ Calm /\ cur \in Questions
    BY DEF Flag, Resolved, Calm, Elsewhere, serverVars, SessionInv, TypeOK
  <1>3. \A q \in Questions : live'[q].letter = chosen[q]
    BY <1>1 DEF Trace, ItemsChosen
  <1> QED  BY <1>1, <1>2, <1>3, EnqueueKeepsTrace

LEMMA HideTrace ==
    ASSUME SessionInv, Trace, Hide PROVE Trace'
  <1>1. /\ live' \in FullSheets
        /\ UNCHANGED <<caller, flight, stored>>
        /\ \A q \in Questions : live'[q].letter = live[q].letter
        /\ \E dirty \in SUBSET Questions :
              /\ \A p \in dirty : live'[p].stamp = now
              /\ pending' = UpsertSheet(pending, DirtyRows(live', dirty))
    BY HideDoes DEF SessionInv, Flow
  <1>2. /\ UNCHANGED <<chosen, now, status, op, next, finishStatus, phase>>
        /\ Calm
    BY DEF Hide, Elsewhere, serverVars
  <1>3. \A q \in Questions : live'[q].letter = chosen[q]
    BY <1>1 DEF Trace, ItemsChosen
  <1> QED  BY <1>1, <1>2, <1>3, EnqueueKeepsTrace

LEMMA BeginSucceedsTrace ==
    ASSUME SessionInv, Trace, BeginSucceeds PROVE Trace'
  <1>1. /\ live' \in FullSheets
        /\ UNCHANGED <<caller, flight, stored>>
        /\ \A q \in Questions : live'[q].letter = live[q].letter
        /\ \/ pending' = pending
           \/ /\ live'[cur].stamp = now
              /\ pending' = UpsertSheet(pending, DirtyRows(live', {cur}))
    BY BeginSucceedsDoes DEF SessionInv
  <1>2. /\ UNCHANGED <<chosen, now, status, next>> /\ op' = Resting
        /\ finishStatus' \in {finishStatus, "expired"}
        /\ Calm /\ cur \in Questions /\ op.kind = "begin"
    BY DEF BeginSucceeds, Running, Elsewhere, serverVars, SessionInv, TypeOK
  <1>3. finishStatus # "submitted"
    BY <1>2 DEF SessionInv, Flow, Trace, FinishSettled
  <1>4. \A q \in Questions : live'[q].letter = chosen[q]
    BY <1>1 DEF Trace, ItemsChosen
  <1>5. CASE pending' = pending
    <2>1. RowsTraced'
      BY <1>1, <1>2, <1>5, RowsStay DEF Trace
    <2> QED
      BY <1>1, <1>2, <1>3, <1>4, <1>5, <2>1
         DEF Trace, ItemsChosen, CallerKnows, FlightIsPast, FinishSettled,
             Finishing, Calm, Resting, Running
  <1>6. CASE /\ live'[cur].stamp = now
             /\ pending' = UpsertSheet(pending, DirtyRows(live', {cur}))
    BY <1>1, <1>2, <1>3, <1>4, <1>6, EnqueueKeepsTrace
  <1> QED  BY <1>1, <1>5, <1>6

(* The learner's choice: no row in flight has the present updated_at, so   *)
(* the new row cannot be taken for the one in flight.                      *)
LEMMA ChooseTrace ==
    ASSUME SessionInv, Trace, NEW c \in ChosenLetters, Choose(c)
    PROVE  Trace'
  <1>1. /\ live' \in FullSheets
        /\ UNCHANGED <<caller, flight, stored>>
        /\ live'[cur].letter = c /\ live'[cur].stamp = now
        /\ \A q \in Questions \ {cur} : live'[q] = live[q]
        /\ pending' = UpsertSheet(pending, DirtyRows(live', {cur}))
    BY ChooseDoes DEF SessionInv
  <1>2. /\ UNCHANGED <<phase, finishStatus, now, status, op, next>>
        /\ chosen' = [chosen EXCEPT ![cur] = c]
        /\ op = Resting /\ caller = "none" /\ now < MaxTime
        /\ finishStatus = "none" /\ cur \in Questions
        /\ now \in Nat /\ MaxTime \in Nat
        /\ chosen \in [Questions -> ChosenLetters]
    BY SectionAssumption
       DEF Choose, Resolved, Writable, Elsewhere, serverVars, SessionInv,
           TypeOK
  <1>3. /\ chosen'[cur] = c
        /\ \A q \in Questions \ {cur} : chosen'[q] = chosen[q]
    BY <1>2
  <1>4. RowsTraced'
    <2> SUFFICES ASSUME NEW q \in Questions
                 PROVE  Traced(pending'[q], flight.rows[q], stored[q],
                               chosen'[q], flight.state, now)
      BY <1>1, <1>2 DEF RowsTraced
    <2>1. Traced(pending[q], flight.rows[q], stored[q], chosen[q],
                 flight.state, now)
      BY DEF Trace, RowsTraced
    <2>2. CASE q = cur
      <3>1. live'[q] \in Rows /\ live'[q] # NoRow
        BY <1>1, RowFields DEF FullSheets
      <3>2. pending'[q] = Upserted(pending[q], live'[q])
        BY <1>1, <2>2, <3>1, DirtySheet DEF UpsertSheet
      <3>3. flight.rows[q] # NoRow => flight.rows[q].stamp < now
        BY <1>2 DEF Trace, CallerKnows, FlightIsPast
      <3>4. /\ pending[q] \in Rows \cup {NoRow}
            /\ flight.rows[q] \in Rows \cup {NoRow}
            /\ stored[q] \in Rows \cup {NoRow}
        BY SectionSlots DEF SessionInv
      <3>5. live'[q].letter = c /\ live'[q].stamp = now /\ chosen'[q] = c
        BY <1>1, <1>3, <2>2
      <3>6. Traced(Upserted(pending[q], live'[q]), flight.rows[q], stored[q], c,
                   flight.state, now)
        BY <1>2, <2>1, <3>1, <3>3, <3>4, <3>5, QueuedTraced
      <3> QED  BY <3>2, <3>5, <3>6
    <2>3. CASE q # cur
      <3>1. pending'[q] = pending[q]
        BY <1>1, <1>2, <2>3, DirtySheet DEF UpsertSheet
      <3> QED  BY <1>3, <2>1, <2>3, <3>1
    <2> QED  BY <2>2, <2>3
  <1>5. ItemsChosen'
    BY <1>1, <1>2, <1>3 DEF Trace, ItemsChosen, Resting, Running
  <1>6. CallerKnows'
    BY <1>1, <1>2 DEF Trace, CallerKnows, FlightIsPast, Calm
  <1>7. FinishSettled'
    BY <1>2 DEF FinishSettled, Finishing, Resting, Running
  <1> QED  BY <1>4, <1>5, <1>6, <1>7 DEF Trace

(* The operations that queue rows with the letters they had, and flush.    *)
LEMMA FlushKeepsTrace ==
    ASSUME SessionInv, Trace, FlushStarted,
           UNCHANGED <<stored, chosen, now, status>>,
           op'.kind \in {"persist", "submit", "expire"},
           ItemsChosen',
           finishStatus' = "submitted"
              => finishStatus = "submitted" /\ UNCHANGED phase,
           NEW items \in FullSheets, NEW dirty \in SUBSET Questions,
           \A q \in dirty : items[q].stamp = now,
           \A q \in Questions : items[q].letter = chosen[q],
           pending' = UpsertSheet(pending, DirtyRows(items, dirty))
    PROVE  Trace'
  <1>1. ASSUME NEW q \in Questions
        PROVE  Traced(pending'[q], flight.rows[q], stored[q], chosen[q],
                      flight.state, now)
    BY EnqueueTraced DEF Trace, SessionInv
  <1>2. ~Finishing'
    BY DEF Finishing
  <1>3. CASE UNCHANGED flight
    <2>1. RowsTraced'
      BY <1>1, <1>3 DEF RowsTraced
    <2>2. CallerKnows'
      BY <1>3 DEF Trace, CallerKnows, FlushStarted, Calm, InFlight
    <2>3. FinishSettled'
      BY <1>2, <1>3 DEF Trace, FinishSettled, Settled
    <2> QED  BY <2>1, <2>2, <2>3 DEF Trace
  <1>4. CASE /\ ~InFlight /\ caller' = "waiting"
             /\ flight' = [state |-> "sent", rows |-> pending']
    <2>1. flight'.state = "sent" /\ flight'.rows = pending'
      BY <1>4
    <2>2. RowsTraced'
      <3> SUFFICES ASSUME NEW q \in Questions
                   PROVE  Traced(pending'[q], pending'[q], stored[q], chosen[q],
                                 "sent", now)
        BY <2>1 DEF RowsTraced
      <3>1. DirtyRows(items, dirty) \in Sheets /\ pending \in Sheets
        BY DirtySheet DEF SessionInv, TypeOK, BufferTypeOK
      <3>2. pending'[q] # NoRow => pending'[q].stamp \in Nat
        BY <3>1, UpsertIsSheet, RowFields DEF Sheets
      <3> QED  BY <1>1, <3>2 DEF Traced
    <2>3. CallerKnows'
      BY <1>4, <2>1 DEF CallerKnows, Calm
    <2>4. \A q \in Questions : pending'[q] # NoRow
                                 => pending'[q].letter = chosen[q]
      BY <1>1 DEF Traced
    <2>5. FinishSettled'
      BY <1>2, <2>1, <2>4 DEF Trace, FinishSettled, Settled
    <2> QED  BY <2>2, <2>3, <2>5 DEF Trace
  <1> QED  BY <1>3, <1>4 DEF FlushStarted

LEMMA NavigateTrace ==
    ASSUME SessionInv, Trace, NEW q \in Questions, Navigate(q) PROVE Trace'
  <1>1. /\ live' \in FullSheets /\ FlushStarted /\ UNCHANGED stored
        /\ \A p \in Questions : live'[p].letter = live[p].letter
        /\ \E dirty \in SUBSET Questions :
              /\ \A p \in dirty : live'[p].stamp = now
              /\ pending' = UpsertSheet(pending, DirtyRows(live', dirty))
    BY NavigateDoes DEF SessionInv, Flow
  <1>2. /\ UNCHANGED <<chosen, now, status, finishStatus, phase>>
        /\ op'.kind = "persist"
    BY DEF Navigate, Running, Elsewhere, serverVars
  <1>3. \A p \in Questions : live'[p].letter = chosen[p]
    BY <1>1 DEF Trace, ItemsChosen
  <1>4. ItemsChosen'
    BY <1>2, <1>3 DEF ItemsChosen
  <1> QED  BY <1>1, <1>2, <1>3, <1>4, FlushKeepsTrace

LEMMA TickExpiresTrace ==
    ASSUME SessionInv, Trace, TickExpires PROVE Trace'
  <1>1. /\ live' \in FullSheets /\ FlushStarted /\ UNCHANGED stored
        /\ \A p \in Questions : live'[p].letter = live[p].letter
        /\ \E dirty \in SUBSET Questions :
              /\ \A p \in dirty : live'[p].stamp = now
              /\ pending' = UpsertSheet(pending, DirtyRows(live', dirty))
    BY TickExpiresDoes DEF SessionInv, Flow
  <1>2. /\ UNCHANGED <<chosen, now, status>>
        /\ finishStatus' = "expired"
        /\ op'.kind = "expire"
    BY DEF TickExpires, Running, Elsewhere, serverVars
  <1>3. \A p \in Questions : live'[p].letter = chosen[p]
    BY <1>1 DEF Trace, ItemsChosen
  <1>4. ItemsChosen'
    BY <1>2, <1>3 DEF ItemsChosen
  <1> QED  BY <1>1, <1>2, <1>3, <1>4, FlushKeepsTrace

LEMMA SubmitTrace ==
    ASSUME SessionInv, Trace, Submit PROVE Trace'
  <1>1. /\ next' \in FullSheets /\ FlushStarted /\ UNCHANGED stored
        /\ \A p \in Questions : next'[p].letter = live[p].letter
        /\ \E dirty \in SUBSET Questions :
              /\ \A p \in dirty : next'[p].stamp = now
              /\ pending' = UpsertSheet(pending, DirtyRows(next', dirty))
    BY SubmitDoes DEF SessionInv, Flow
  <1>2. /\ UNCHANGED <<chosen, now, status, finishStatus, phase, live>>
        /\ op'.kind = "submit"
    BY DEF Submit, Running, Elsewhere, serverVars, reducerVars
  <1>3. \A p \in Questions : next'[p].letter = chosen[p]
    BY <1>1 DEF Trace, ItemsChosen
  <1>4. ItemsChosen'
    BY <1>2, <1>3 DEF Trace, ItemsChosen
  <1> QED  BY <1>1, <1>2, <1>3, <1>4, FlushKeepsTrace

LEMMA ReconnectTrace ==
    ASSUME SessionInv, Trace, Reconnect \/ SubmitWithBlanks PROVE Trace'
  <1>1. FlushStarted /\ UNCHANGED <<pending, live, stored>>
    BY ReconnectDoes DEF SessionInv
  <1>2. /\ UNCHANGED <<chosen, now, status, finishStatus, phase>>
        /\ op'.kind = "persist"
    BY DEF Reconnect, SubmitWithBlanks, Running, Elsewhere, serverVars,
           reducerVars
  <1>3. ItemsChosen'
    BY <1>1, <1>2 DEF Trace, ItemsChosen
  <1>4. live \in FullSheets /\ pending \in Sheets
    BY DEF SessionInv, TypeOK, BufferTypeOK
  <1>5. DirtyRows(live, {}) = EmptySheet
    BY DEF DirtyRows, EmptySheet
  <1>6. pending' = UpsertSheet(pending, DirtyRows(live, {}))
    BY <1>1, <1>4, <1>5, UpsertEmpty
  <1>7. \A q \in Questions : live[q].letter = chosen[q]
    BY DEF Trace, ItemsChosen
  <1> QED  BY <1>1, <1>2, <1>3, <1>4, <1>6, <1>7, FlushKeepsTrace

LEMMA StutterTrace ==
    ASSUME Trace, UNCHANGED vars PROVE Trace'
  <1>1. RowsTraced'
    BY RowsStay DEF Trace, vars, bufferVars, serverVars
  <1> QED
    BY <1>1 DEF Trace, ItemsChosen, CallerKnows, FlightIsPast, FinishSettled,
                Finishing, Settled, Calm, vars, bufferVars, reducerVars,
                serverVars

LEMMA TraceNext ==
    ASSUME SessionInv, Trace, [Next]_vars, ~Reload PROVE Trace'
  <1>1. Letters \subseteq ChosenLetters /\ Blank \in ChosenLetters
    BY DEF ChosenLetters
  <1>2. CASE UNCHANGED vars
    BY <1>2, StutterTrace
  <1>3. CASE Begin \/ ServerBegins \/ BeginSucceeds \/ BeginFails
    BY <1>3, BeginTrace, ServerBeginsTrace, BeginSucceedsTrace, BeginFailsTrace
  <1>4. CASE \/ \E letter \in Letters : Choose(letter)
             \/ Choose(Blank) \/ Flag
    BY <1>1, <1>4, ChooseTrace, FlagTrace
  <1>5. CASE \/ \E q \in Questions : Navigate(q)
             \/ Reconnect \/ SubmitWithBlanks
    BY <1>5, NavigateTrace, ReconnectTrace
  <1>6. CASE Submit \/ CancelSubmit \/ TickExpires \/ PersistReturns
    BY <1>6, SubmitTrace, CancelSubmitTrace, TickExpiresTrace,
       PersistReturnsTrace
  <1>7. CASE ServerFinishes \/ FinishSucceeds \/ FinishFails \/ Hide \/ Show
    BY <1>7, ServerFinishesTrace, FinishSucceedsTrace, FinishFailsTrace,
       HideTrace, ShowTrace
  <1>8. CASE Fire \/ Succeed \/ Fail \/ Deliver \/ Tick
    BY <1>8, FireTrace, SucceedTrace, FailTrace, DeliverTrace, TickTrace
  <1> QED  BY <1>2, <1>3, <1>4, <1>5, <1>6, <1>7, <1>8 DEF Next

LEMMA InitTrace == Init => Trace
  <1> SUFFICES ASSUME Init PROVE Trace
    OBVIOUS
  <1>1. /\ flight.state = "none" /\ flight.rows = EmptySheet
        /\ pending = EmptySheet /\ stored = EmptySheet
        /\ caller = "none" /\ op.kind = "idle" /\ finishStatus = "none"
        /\ chosen = [q \in Questions |-> Blank]
        /\ live = [q \in Questions |-> FreshRow(0)]
    BY DEF Init, BufferInit, NoFlight, Resting, Running
  <1>2. FreshRow(0).letter = Blank
    BY FreshIsRow
  <1>3. RowsTraced
    BY <1>1 DEF RowsTraced, Traced, EmptySheet, LetterOf
  <1> QED
    BY <1>1, <1>2, <1>3
       DEF Trace, ItemsChosen, CallerKnows, FlightIsPast, FinishSettled,
           Finishing, Calm, EmptySheet

LEMMA OnlyReloadCounts ==
    ASSUME [Next]_vars, ~Reload PROVE reloads' = reloads
  BY DEF Next, vars, serverVars, Begin, ServerBegins, BeginSucceeds,
         BeginFails,
         Choose, Flag, Navigate, Reconnect, SubmitWithBlanks, Submit,
         CancelSubmit, TickExpires, PersistReturns, ServerFinishes,
         FinishSucceeds, FinishFails, Hide, Show, Fire, Succeed, Fail, Deliver,
         Tick, Elsewhere, BufferAlone

(* Until the page is reloaded, both layers hold.                           *)
FirstLoadInv == SessionInv /\ (reloads = 0 => Trace)

LEMMA FirstLoadNext ==
    ASSUME FirstLoadInv, [Next]_vars PROVE FirstLoadInv'
  <1>1. SessionInv /\ reloads \in Nat
    BY DEF FirstLoadInv, SessionInv, TypeOK
  <1>2. SessionInv'
    BY <1>1, SessionNext
  <1>3. CASE Reload
    <2>1. reloads' # 0
      BY <1>1, <1>3 DEF Reload
    <2> QED  BY <1>2, <2>1 DEF FirstLoadInv
  <1>4. CASE ~Reload
    <2>1. reloads' = reloads
      BY <1>4, OnlyReloadCounts
    <2> QED  BY <1>1, <1>2, <1>4, <2>1, TraceNext DEF FirstLoadInv
  <1> QED  BY <1>3, <1>4

LEMMA FirstLoadInvariance == Spec => []FirstLoadInv
  <1>1. Init => FirstLoadInv
    BY InitSession, InitTrace DEF FirstLoadInv
  <1>2. FirstLoadInv /\ [Next]_vars => FirstLoadInv'
    BY FirstLoadNext
  <1> QED  BY <1>1, <1>2, PTL DEF Spec

-----------------------------------------------------------------------------
(***************************************************************************)
(* The theorems.                                                           *)
(***************************************************************************)

(* Reducer, session, buffer and attempt are well-typed, whatever reloads   *)
(* and storage do; in particular no visit ever adds a negative dwell.      *)
THEOREM SectionTypeCorrect == Spec => []TypeOK
  <1>1. SessionInv => TypeOK  BY DEF SessionInv
  <1> QED  BY <1>1, SessionInvariance, PTL

(* FR-2: a page that has shown the section as finished never opens it for  *)
(* answers again, also when only the page knew and is reloaded.            *)
THEOREM FinishIsFinal == Spec => NeverReopened
  <1>1. SessionInv /\ [Next]_vars => [phase = "finished"
                                        => phase' = "finished"]_vars
    BY PhaseStays
  <1> QED  BY <1>1, SessionInvariance, PTL DEF Spec, NeverReopened

(* FR-36: while storage works, the mirror has every row of the queue in    *)
(* every state in which the page may die.                                  *)
THEOREM SectionQueueMirrored ==
    ASSUME ~StorageFails PROVE Spec => []QueueMirrored
  <1>1. Init => QueueMirrored
    BY DEF Init, BufferInit, QueueMirrored
  <1>2. SessionInv /\ QueueMirrored /\ [Next]_vars => QueueMirrored'
    BY MirrorNext
  <1> QED  BY <1>1, <1>2, SessionInvariance, PTL DEF Spec

(* FR-5 and FR-36: until the page is reloaded, the letter the learner      *)
(* chose last is in the queue or, when the queue has no row for the        *)
(* question, on the server.  No bound on reloads is assumed: the statement *)
(* is about the states before the first one.                               *)
THEOREM FirstLoadKeepsAnswers == Spec => [](reloads = 0 => NoAnswerLost)
  <1>1. ASSUME Trace PROVE NoAnswerLost
    <2> SUFFICES ASSUME NEW q \in Questions
                 PROVE  LetterOf(IF pending[q] # NoRow THEN pending[q]
                                                       ELSE stored[q])
                          = chosen[q]
      BY DEF NoAnswerLost
    <2>1. Traced(pending[q], flight.rows[q], stored[q], chosen[q],
                 flight.state, now)
      BY <1>1 DEF Trace, RowsTraced
    <2> QED  BY <2>1 DEF Traced, LetterOf
  <1>2. FirstLoadInv => (reloads = 0 => NoAnswerLost)
    BY <1>1 DEF FirstLoadInv
  <1> QED  BY <1>2, FirstLoadInvariance, PTL

(* FR-5, never a silent success: until the page is reloaded, a page that   *)
(* says "submitted" has the server's word for it and shows the letters     *)
(* that the server has.                                                    *)
THEOREM FirstLoadSubmitsDurably ==
    Spec => [](reloads = 0 => SubmittedIsDurable)
  <1>1. FirstLoadInv => (reloads = 0 => SubmittedIsDurable)
    BY DEF FirstLoadInv, Trace, ItemsChosen, FinishSettled, Settled,
           SubmittedIsDurable
  <1> QED  BY <1>1, FirstLoadInvariance, PTL

(* Only ServerFinishes ends a running attempt, and an operation that gets  *)
(* there has seen its flush saved.                                         *)
LEMMA FinishHasAll ==
    ASSUME FirstLoadInv, reloads = 0, [Next]_vars,
           status = "in_progress", status' \in FinishedStatuses
    PROVE  \A q \in Questions : LetterOf(stored[q]) = chosen[q]
  <1>1. ServerFinishes
    BY DEF Next, vars, serverVars, Begin, ServerBegins, BeginSucceeds,
           BeginFails, Choose, Flag, Navigate, Reconnect, SubmitWithBlanks,
           Submit, CancelSubmit, TickExpires, PersistReturns, FinishSucceeds,
           FinishFails, Hide, Show, Fire, Succeed, Fail, Deliver, Reload, Tick,
           Elsewhere, BufferAlone, FinishedStatuses
  <1> QED
    BY <1>1 DEF ServerFinishes, FirstLoadInv, Trace, FinishSettled, Settled

(* FR-36 at the moment it matters: whoever asks for the finish, the server *)
(* finishes the section only with every answer the learner has given, as   *)
(* long as the page is not reloaded.                                       *)
THEOREM FinishesWithAllAnswers ==
    ASSUME MaxReloads = 0 PROVE Spec => FinishedWithAllAnswers
  <1>1. Init => reloads = 0
    BY DEF Init
  <1>2. reloads = 0 /\ [Next]_vars => (reloads = 0)'
    <2>1. reloads = 0 => ~Reload
      BY DEF Reload
    <2> QED  BY <2>1, OnlyReloadCounts
  <1>3. FirstLoadInv /\ reloads = 0 /\ [Next]_vars
          => [status = "in_progress" /\ status' \in FinishedStatuses
                => \A q \in Questions : LetterOf(stored[q]) = chosen[q]]_vars
    BY FinishHasAll
  <1> QED
    BY <1>1, <1>2, <1>3, FirstLoadInvariance, PTL
       DEF Spec, FinishedWithAllAnswers
=============================================================================
