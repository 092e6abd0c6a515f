-------------------------- MODULE ExamBufferProofs ---------------------------
(***************************************************************************)
(* Theorems about ExamBufferUse, for any questions, letters and bounds:    *)
(* while localStorage works, the queue never lets go of an edit, and the   *)
(* write buffer keeps the promise of DurableAnswers.                       *)
(*                                                                         *)
(* The argument follows an edit through the four places that may hold a    *)
(* row of its question: the queue, the flight, the server and the history  *)
(* variable latest.  A row is Older than another when it was stamped       *)
(* before it or stands for the same edit; the server's row is never ahead  *)
(* of the flight's, nor that of the queue's.  This is what makes the       *)
(* stamp-and-dwell comparison of a finished flush sound.                   *)
(***************************************************************************)
EXTENDS ExamBufferUse, ExamRowsProofs

Older(old, new) ==
    \/ old = NoRow
    \/ /\ new # NoRow
       /\ old.stamp <= new.stamp
       /\ old.stamp = new.stamp => old.letter = new.letter

(* The rows of one question: p in the queue, f in the flight (which is in  *)
(* the given state), s on the server, l the last edit; t is the clock.     *)
Linked(p, f, s, l, state, t) ==
    /\ p # NoRow => Carries(p, l) /\ Older(s, p) /\ p.stamp <= t
    /\ p = NoRow => Carries(s, l)
    /\ s # NoRow => s.stamp <= t
    /\ f # NoRow => /\ p # NoRow
                    /\ Older(f, p)
                    /\ state = "applied" => Carries(s, f)
                    /\ state = "sent" => Older(s, f)

Inv ==
    /\ TypeOK
    /\ mirror = pending
    /\ flight.state = "none" => flight.rows = EmptySheet
    /\ \A q \in Questions : Linked(pending[q], flight.rows[q], stored[q],
                                   latest[q], flight.state, now)

-----------------------------------------------------------------------------
(* What is used of the types, question by question.                        *)
LEMMA SlotTypes ==
    ASSUME TypeOK, NEW q \in Questions
    PROVE  /\ pending[q] \in Rows \cup {NoRow}
           /\ flight.rows[q] \in Rows \cup {NoRow}
           /\ stored[q] \in Rows \cup {NoRow}
           /\ latest[q] \in Rows \cup {NoRow}
           /\ now \in Nat
  BY DEF TypeOK, BufferTypeOK, Sheets

LEMMA RowTypes ==
    ASSUME NEW row \in Rows
    PROVE  row.stamp \in Nat /\ row.dwell \in Nat /\ row # NoRow
  BY NoRowAssumption DEF Rows

(* A row is as old as itself and stands for itself.                        *)
LEMMA OlderItself ==
    ASSUME NEW row \in Rows PROVE Older(row, row) /\ Carries(row, row)
  BY RowTypes DEF Older, Carries

(* An upserted row stands for the incoming one, and for whatever the row   *)
(* it replaces stood for if the two are of the same edit.                  *)
LEMMA UpsertedCarries ==
    ASSUME NEW old \in Rows \cup {NoRow}, NEW incoming \in Rows
    PROVE  /\ Upserted(old, incoming) \in Rows
           /\ Upserted(old, incoming).stamp = incoming.stamp
           /\ Upserted(old, incoming).letter = incoming.letter
           /\ Upserted(old, incoming).dwell >= incoming.dwell
           /\ old # NoRow => Upserted(old, incoming).dwell >= old.dwell
  <1>1. CASE old = NoRow
    BY <1>1, RowTypes DEF Upserted
  <1>2. CASE old # NoRow
    <2>1. old \in Rows  BY <1>2
    <2>2. /\ MergeExamDwell(old, incoming).stamp = incoming.stamp
          /\ MergeExamDwell(old, incoming).letter = incoming.letter
          /\ MergeExamDwell(old, incoming).dwell >= incoming.dwell
      BY <2>1 DEF MergeExamDwell, Rows, Larger, Never, ChosenLetters
    <2> QED  BY <1>2, <2>1, <2>2, MergeIsRow, MergeKeeps DEF Upserted
  <1> QED  BY <1>1, <1>2

-----------------------------------------------------------------------------
(***************************************************************************)
(* Each action keeps the invariant.                                        *)
(***************************************************************************)

(* The row of an edit is newer than every other row of the question.       *)
LEMMA EditedRowIsNew ==
    ASSUME TypeOK, NEW q \in Questions, NEW letter \in ChosenLetters,
           NEW dwell \in LastRow(q).dwell..MaxDwell
    PROVE  /\ EditedRow(q, letter, dwell) \in Rows
           /\ EditedRow(q, letter, dwell).stamp = now + 1
  <1> DEFINE old == LastRow(q)
             first == IF old.first = Never /\ letter # Blank
                      THEN now + 1 ELSE old.first
  <1>1. old \in Rows
    BY SlotTypes DEF LastRow, FreshRow, Rows, ChosenLetters, Never
  <1>2. dwell \in Nat /\ now + 1 \in Nat
    BY <1>1, UseAssumption DEF Rows, TypeOK
  <1>3. first \in Nat \cup {Never}
    BY <1>1, <1>2 DEF Rows
  <1>4. EditedRow(q, letter, dwell)
          = [old EXCEPT !.letter = letter, !.dwell = dwell,
                        !.first = first, !.stamp = now + 1]
    BY Zenon DEF EditedRow
  <1> HIDE DEF old, first
  <1>5. [old EXCEPT !.letter = letter, !.dwell = dwell,
                    !.first = first, !.stamp = now + 1] \in Rows
    BY <1>1, <1>2, <1>3 DEF Rows
  <1>6. [old EXCEPT !.letter = letter, !.dwell = dwell,
                    !.first = first, !.stamp = now + 1].stamp = now + 1
    BY <1>1, <1>2, <1>3 DEF Rows
  <1> QED  BY <1>4, <1>5, <1>6

LEMMA EditKeeps ==
    ASSUME Inv, ~StorageFails, NEW q \in Questions, Edit(q)
    PROVE  Inv'
  <1>1. PICK letter \in ChosenLetters, dwell \in LastRow(q).dwell..MaxDwell :
           /\ EnqueueRows([EmptySheet EXCEPT ![q] = EditedRow(q, letter, dwell)])
           /\ latest' = [latest EXCEPT ![q] = EditedRow(q, letter, dwell)]
    BY DEF Edit
  <1> DEFINE row == EditedRow(q, letter, dwell)
             sheet == [EmptySheet EXCEPT ![q] = row]
  <1>2. TypeOK  BY DEF Inv
  <1>3. row \in Rows /\ row.stamp = now + 1 /\ row # NoRow
    BY <1>2, EditedRowIsNew, RowTypes
  <1>4. sheet \in Sheets /\ q \in Held(sheet)
    BY <1>3 DEF EmptySheet, Sheets, Held
  <1> HIDE DEF row
  <1>5. /\ pending' = UpsertSheet(pending, sheet)
        /\ mirror' = pending'
        /\ timer' = "debounce"
        /\ UNCHANGED <<flight, notSaved, caller, stored>>
        /\ now' = now + 1
        /\ latest' = [latest EXCEPT ![q] = row]
    BY <1>1, <1>4 DEF EnqueueRows, Persist, Edit, Inv, row
  <1>6. TypeOK'
    <2>1. pending' \in Sheets
      BY <1>2, <1>4, <1>5, UpsertIsSheet DEF TypeOK, BufferTypeOK
    <2>2. latest' \in Sheets /\ now' \in Nat
      BY <1>1, <1>2, <1>3, <1>5 DEF TypeOK, Sheets
    <2> QED  BY <1>2, <1>5, <2>1, <2>2 DEF TypeOK, BufferTypeOK
  <1>7. ASSUME NEW p \in Questions, p # q
        PROVE  Linked(pending'[p], flight'.rows[p], stored'[p], latest'[p],
                      flight'.state, now')
    <2>1. pending'[p] = pending[p] /\ latest'[p] = latest[p]
      BY <1>1, <1>5, <1>7 DEF UpsertSheet, EmptySheet, Inv, TypeOK, Sheets
    <2>2. Linked(pending[p], flight.rows[p], stored[p], latest[p],
               flight.state, now)
      BY DEF Inv
    <2>3. /\ pending[p] # NoRow => pending[p].stamp \in Nat
          /\ stored[p] # NoRow => stored[p].stamp \in Nat
          /\ now \in Nat
      BY <1>2, SlotTypes, RowTypes
    <2> QED  BY <1>5, <2>1, <2>2, <2>3 DEF Linked
  <1>8. Linked(pending'[q], flight'.rows[q], stored'[q], latest'[q],
               flight'.state, now')
    <2>1. pending'[q] = Upserted(pending[q], row) /\ latest'[q] = row
      BY <1>1, <1>3, <1>5 DEF UpsertSheet, EmptySheet, Inv, TypeOK, Sheets
    <2>2. /\ pending'[q] \in Rows /\ pending'[q] # NoRow
          /\ pending'[q].stamp = now + 1
          /\ Carries(pending'[q], row)
      BY <1>2, <1>3, <2>1, SlotTypes, UpsertedCarries, RowTypes DEF Carries
    <2>3. Linked(pending[q], flight.rows[q], stored[q], latest[q],
               flight.state, now)
      BY DEF Inv
    <2>4. /\ stored[q] # NoRow => stored[q].stamp \in Nat
          /\ flight.rows[q] # NoRow => flight.rows[q].stamp \in Nat
          /\ pending[q] # NoRow => pending[q].stamp \in Nat
          /\ now \in Nat
      BY <1>2, SlotTypes, RowTypes
    <2>5. Older(stored[q], pending'[q]) /\ Older(flight.rows[q], pending'[q])
      BY <2>2, <2>3, <2>4 DEF Linked, Older
    <2> QED  BY <1>5, <2>1, <2>2, <2>3, <2>4, <2>5 DEF Linked
  <1> QED  BY <1>5, <1>6, <1>7, <1>8 DEF Inv

(* A step that only sends the queue, gives a flight up or leaves it alone. *)
LEMMA QuietStepKeeps ==
    ASSUME Inv, UNCHANGED <<pending, mirror, stored, latest, now>>,
           timer' \in {"off", "debounce", "backoff"},
           notSaved' \in BOOLEAN,
           caller' \in {"none", "waiting", "saved", "unsaved"},
           flight' \in {flight, NoFlight, [state |-> "sent", rows |-> pending]}
    PROVE  Inv'
  <1>1. pending \in Sheets /\ EmptySheet \in Sheets
    BY DEF Inv, TypeOK, BufferTypeOK, Sheets, EmptySheet
  <1>2. /\ flight'.rows \in {flight.rows, EmptySheet, pending}
        /\ flight'.rows = flight.rows =>
              \/ flight'.state = flight.state
              \/ flight'.rows = EmptySheet
              \/ flight'.rows = pending /\ flight'.state = "sent"
        /\ flight'.rows = pending /\ flight'.rows # flight.rows
              => \/ flight'.state = "sent"
                 \/ flight'.rows = EmptySheet
        /\ flight'.state = "none" => flight'.rows = EmptySheet
    BY DEF NoFlight, Inv
  <1>3. TypeOK'
    BY <1>1 DEF Inv, TypeOK, BufferTypeOK, NoFlight
  <1>4. ASSUME NEW q \in Questions
        PROVE  Linked(pending'[q], flight'.rows[q], stored'[q], latest'[q],
                      flight'.state, now')
    <2>1. Linked(pending[q], flight.rows[q], stored[q], latest[q],
                 flight.state, now)
      BY DEF Inv
    <2>2. CASE flight'.rows[q] = NoRow
      BY <2>1, <2>2 DEF Linked
    <2>3. CASE flight'.rows = flight.rows /\ flight'.state = flight.state
      BY <2>1, <2>3
    <2>4. CASE flight'.rows = pending /\ flight'.state = "sent"
                 /\ pending[q] # NoRow
      <3>1. Older(pending[q], pending[q])
        BY <1>1, <2>4, OlderItself DEF Sheets
      <3> QED  BY <2>1, <2>4, <3>1 DEF Linked
    <2> QED  BY <1>2, <2>2, <2>3, <2>4 DEF EmptySheet
  <1> QED  BY <1>2, <1>3, <1>4 DEF Inv

LEMMA UpsertNothing ==
    ASSUME NEW sheet \in Sheets PROVE UpsertSheet(sheet, EmptySheet) = sheet
  BY DEF UpsertSheet, EmptySheet, Sheets

LEMMA AskFlushKeeps ==
    ASSUME Inv, AskFlush PROVE Inv'
  <1>1. pending' = pending
    BY UpsertNothing
       DEF AskFlush, FlushNow, FlushRows, Inv, TypeOK, BufferTypeOK
  <1>2. Held(EmptySheet) = {}
    BY DEF Held, EmptySheet
  <1> QED
    BY <1>1, <1>2, QuietStepKeeps
       DEF AskFlush, FlushNow, FlushRows, Inv, TypeOK, BufferTypeOK

LEMMA FireKeeps ==
    ASSUME Inv, Fire PROVE Inv'
  BY QuietStepKeeps DEF Fire, TimerFires, Inv, TypeOK, BufferTypeOK

LEMMA TakeAnswerKeeps ==
    ASSUME Inv, TakeAnswer PROVE Inv'
  BY QuietStepKeeps DEF TakeAnswer, Inv, TypeOK, BufferTypeOK

LEMMA FailKeeps ==
    ASSUME Inv, Fail PROVE Inv'
  <1>1. caller' \in {"none", "waiting", "saved", "unsaved"}
    BY DEF Fail, FlushFails, Answered, Inv, TypeOK, BufferTypeOK
  <1>2. notSaved' \in BOOLEAN
    BY DEF Fail, FlushFails, Inv, TypeOK, BufferTypeOK
  <1> QED  BY <1>1, <1>2, QuietStepKeeps DEF Fail, FlushFails

LEMMA ReloadKeeps ==
    ASSUME Inv, Reload PROVE Inv'
  <1>1. timer' \in {"off", "debounce", "backoff"}
    BY DEF Reload, Restart
  <1> QED  BY <1>1, QuietStepKeeps DEF Reload, Restart, Inv

(* The upsert at the server: the stored row becomes one that stands for    *)
(* the row in flight and is no newer than the queue's.                     *)
LEMMA DeliverKeeps ==
    ASSUME Inv, Deliver PROVE Inv'
  <1>1. /\ flight.state = "sent"
        /\ stored' = UpsertSheet(stored, flight.rows)
        /\ flight' = [flight EXCEPT !.state = "applied"]
        /\ UNCHANGED <<pending, mirror, timer, notSaved, caller, latest, now>>
    BY DEF Deliver, DeliverFlight
  <1>2. TypeOK /\ flight.rows \in Sheets
    BY DEF Inv, TypeOK, BufferTypeOK
  <1>3. flight'.rows = flight.rows /\ flight'.state = "applied"
    BY <1>1, <1>2 DEF TypeOK, BufferTypeOK
  <1>4. TypeOK'
    <2>1. stored' \in Sheets
      BY <1>1, <1>2, UpsertIsSheet DEF TypeOK, BufferTypeOK
    <2> QED  BY <1>1, <1>2, <2>1 DEF TypeOK, BufferTypeOK
  <1>5. ASSUME NEW q \in Questions
        PROVE  Linked(pending'[q], flight'.rows[q], stored'[q], latest'[q],
                      flight'.state, now')
    <2>1. Linked(pending[q], flight.rows[q], stored[q], latest[q],
                 flight.state, now)
      BY DEF Inv
    <2>2. CASE flight.rows[q] = NoRow
      <3>1. stored'[q] = stored[q]  BY <1>1, <2>2 DEF UpsertSheet
      <3> QED  BY <1>1, <1>3, <2>1, <2>2, <3>1 DEF Linked
    <2>3. CASE flight.rows[q] # NoRow
      <3>1. flight.rows[q] \in Rows /\ pending[q] \in Rows
        BY <1>2, <2>1, <2>3, SlotTypes DEF Linked
      <3>2. stored'[q] = Upserted(stored[q], flight.rows[q])
        BY <1>1, <2>3 DEF UpsertSheet
      <3>3. /\ stored'[q] # NoRow
            /\ stored'[q].stamp = flight.rows[q].stamp
            /\ stored'[q].letter = flight.rows[q].letter
            /\ Carries(stored'[q], flight.rows[q])
        BY <1>2, <3>1, <3>2, SlotTypes, UpsertedCarries, RowTypes DEF Carries
      <3>4. Older(stored'[q], pending[q])
        BY <2>1, <2>3, <3>3 DEF Linked, Older
      <3>5. stored'[q].stamp <= now
        <4>1. /\ flight.rows[q].stamp \in Nat /\ pending[q].stamp \in Nat
              /\ now \in Nat
          BY <1>2, <3>1, RowTypes, SlotTypes
        <4>2. /\ flight.rows[q].stamp <= pending[q].stamp
              /\ pending[q].stamp <= now
          BY <2>1, <2>3 DEF Linked, Older
        <4> QED  BY <3>3, <4>1, <4>2
      <3> QED  BY <1>1, <1>3, <2>1, <2>3, <3>3, <3>4, <3>5 DEF Linked
    <2> QED  BY <2>2, <2>3
  <1> QED  BY <1>1, <1>3, <1>4, <1>5 DEF Inv

(* The row that leaves the queue after a successful flush is the row that  *)
(* the server was sent: same stamp, hence same letter, and same dwell.     *)
LEMMA SucceedKeeps ==
    ASSUME Inv, ~StorageFails, Succeed PROVE Inv'
  <1>1. /\ flight.state = "applied"
        /\ pending' = LeftQueued(flight.rows)
        /\ mirror' = pending'
        /\ flight' = NoFlight
        /\ UNCHANGED <<timer, stored, latest, now>>
    BY DEF Succeed, FlushSucceeds, Persist
  <1>2. TypeOK  BY DEF Inv
  <1>3. TypeOK'
    <2>1. pending' \in Sheets
      BY <1>1, <1>2 DEF LeftQueued, TypeOK, BufferTypeOK, Sheets
    <2>2. NoFlight \in [state : {"none", "sent", "applied"}, rows : Sheets]
      BY DEF NoFlight, EmptySheet, Sheets
    <2>3. /\ caller' \in {"none", "waiting", "saved", "unsaved"}
          /\ notSaved' \in BOOLEAN
      BY <1>2 DEF Succeed, FlushSucceeds, Answered, TypeOK, BufferTypeOK
    <2> QED  BY <1>1, <1>2, <2>1, <2>2, <2>3 DEF TypeOK, BufferTypeOK
  <1>4. ASSUME NEW q \in Questions
        PROVE  Linked(pending'[q], flight'.rows[q], stored'[q], latest'[q],
                      flight'.state, now')
    <2>1. Linked(pending[q], flight.rows[q], stored[q], latest[q],
                 flight.state, now)
      BY DEF Inv
    <2>2. flight'.rows[q] = NoRow
      BY <1>1 DEF NoFlight, EmptySheet
    <2>3. CASE pending'[q] = pending[q]
      BY <1>1, <2>1, <2>2, <2>3 DEF Linked
    <2>4. CASE pending'[q] # pending[q]
      <3> DEFINE p == pending[q]
                 f == flight.rows[q]
                 s == stored[q]
                 l == latest[q]
      <3>1. /\ pending'[q] = NoRow
            /\ f # NoRow /\ p # NoRow
            /\ p.stamp = f.stamp /\ p.dwell = f.dwell
        BY <1>1, <2>4 DEF LeftQueued
      <3>2. f.letter = p.letter /\ Carries(s, f) /\ Carries(p, l)
        BY <1>1, <2>1, <3>1 DEF Linked, Older
      <3>3. Carries(s, l)
        <4>1. CASE l = NoRow
          BY <4>1 DEF Carries
        <4>2. CASE l # NoRow
          <5>1. /\ s # NoRow
                /\ s.letter = l.letter
                /\ s.stamp = l.stamp
                /\ s.dwell >= p.dwell /\ p.dwell >= l.dwell
            BY <3>1, <3>2, <4>2 DEF Carries
          <5>2. s.dwell \in Nat /\ p.dwell \in Nat /\ l.dwell \in Nat
            BY <1>2, <3>1, <4>2, <5>1, SlotTypes, RowTypes
          <5> HIDE DEF p, f, s, l
          <5> QED  BY <5>1, <5>2 DEF Carries
        <4> QED  BY <4>1, <4>2
      <3> QED  BY <1>1, <2>1, <2>2, <3>1, <3>3 DEF Linked
    <2> QED  BY <2>3, <2>4
  <1> QED  BY <1>1, <1>3, <1>4 DEF Inv, NoFlight

LEMMA NextKeeps ==
    ~StorageFails /\ Inv /\ [Next]_vars => Inv'
  <1> SUFFICES ASSUME ~StorageFails, Inv, [Next]_vars PROVE Inv'
    OBVIOUS
  <1>1. CASE UNCHANGED vars
    BY <1>1 DEF vars, bufferVars, Inv, TypeOK, BufferTypeOK, Linked, Carries,
                Older
  <1> QED  BY <1>1, EditKeeps, AskFlushKeeps, TakeAnswerKeeps, DeliverKeeps,
              FireKeeps, SucceedKeeps, FailKeeps, ReloadKeeps DEF Next

LEMMA InitInv == Init => Inv
  <1> SUFFICES ASSUME Init PROVE Inv
    OBVIOUS
  <1>1. EmptySheet \in Sheets /\ \A q \in Questions : EmptySheet[q] = NoRow
    BY DEF EmptySheet, Sheets
  <1>2. TypeOK
    BY <1>1 DEF Init, BufferInit, NoFlight, TypeOK, BufferTypeOK
  <1> QED  BY <1>1, <1>2 DEF Init, BufferInit, NoFlight, Inv, Linked, Carries

LEMMA Invariance == ~StorageFails => (Spec => []Inv)
  <1>1. ~StorageFails /\ Inv /\ [Next]_vars => Inv'
    BY NextKeeps
  <1>2. ASSUME ~StorageFails PROVE Spec => []Inv
    <2>1. Inv /\ [Next]_vars => Inv'
      BY <1>1, <1>2
    <2> QED  BY <2>1, InitInv, PTL DEF Spec
  <1> QED  BY <1>2

-----------------------------------------------------------------------------
(***************************************************************************)
(* The theorems.                                                           *)
(***************************************************************************)

(* Whatever the storage does, the queue, the flight, the mirror and the    *)
(* rows of the server are well-typed.                                      *)
THEOREM BufferTypeCorrect == Spec => []TypeOK
  <1>1. Init => TypeOK  BY InitInv DEF Inv
  <1>2. TypeOK /\ [Next]_vars => TypeOK'
    <2> SUFFICES ASSUME TypeOK, [Next]_vars PROVE TypeOK'
      OBVIOUS
    <2>1. EmptySheet \in Sheets  BY DEF EmptySheet, Sheets
    <2>2. ASSUME NEW q \in Questions, Edit(q) PROVE TypeOK'
      <3>1. PICK letter \in ChosenLetters, dwell \in LastRow(q).dwell..MaxDwell :
               LET row == EditedRow(q, letter, dwell)
               IN  /\ EnqueueRows([EmptySheet EXCEPT ![q] = row])
                   /\ latest' = [latest EXCEPT ![q] = row]
        BY <2>2 DEF Edit
      <3> DEFINE row == EditedRow(q, letter, dwell)
                 rows == [EmptySheet EXCEPT ![q] = row]
      <3>2. row \in Rows  BY EditedRowIsNew
      <3>3. rows \in Sheets  BY <2>1, <3>2 DEF Sheets
      <3>4. UpsertSheet(pending, rows) \in Sheets
        BY <3>3, UpsertIsSheet DEF TypeOK, BufferTypeOK
      <3>5. latest' \in Sheets  BY <3>1, <3>2 DEF TypeOK, Sheets
      <3>6. EnqueueRows(rows)  BY <3>1
      <3> HIDE DEF row, rows
      <3>7. BufferTypeOK'
        <4>1. stored' = stored  BY <2>2 DEF Edit
        <4> QED
          BY <3>4, <3>6, <4>1 DEF TypeOK, BufferTypeOK, EnqueueRows, Persist, bufferVars
      <3> QED  BY <2>2, <3>5, <3>7 DEF Edit, TypeOK
    <2>3. CASE AskFlush
      <3>1. UpsertSheet(pending, EmptySheet) \in Sheets
        BY <2>1, UpsertIsSheet DEF TypeOK, BufferTypeOK
      <3> QED
        BY <2>3, <3>1 DEF TypeOK, BufferTypeOK, AskFlush, FlushNow, FlushRows, Persist
    <2>4. CASE Deliver
      <3>1. UpsertSheet(stored, flight.rows) \in Sheets
        BY UpsertIsSheet DEF TypeOK, BufferTypeOK
      <3> QED  BY <2>4, <3>1 DEF TypeOK, BufferTypeOK, Deliver, DeliverFlight
    <2>5. CASE Succeed
      <3>1. LeftQueued(flight.rows) \in Sheets
        BY DEF TypeOK, BufferTypeOK, Sheets, LeftQueued
      <3>2. pending' = LeftQueued(flight.rows) /\ Persist(pending') /\ flight' = NoFlight
        BY <2>5 DEF Succeed, FlushSucceeds
      <3>3. /\ caller' = Answered(pending') /\ notSaved' = (caller' = "unsaved")
            /\ UNCHANGED <<timer, stored, latest, now>>
        BY <2>5 DEF Succeed, FlushSucceeds
      <3> QED
        BY <2>1, <3>1, <3>2, <3>3
           DEF TypeOK, BufferTypeOK, Persist, Answered, NoFlight
    <2>6. CASE TakeAnswer
      BY <2>6 DEF TypeOK, BufferTypeOK, TakeAnswer
    <2>7. CASE Fire
      BY <2>7 DEF TypeOK, BufferTypeOK, Fire, TimerFires
    <2>8. CASE Fail
      <3>1. /\ timer' = "backoff" /\ flight' = NoFlight /\ caller' = Answered(pending)
            /\ notSaved' = (notSaved \/ caller' = "unsaved")
            /\ UNCHANGED <<pending, mirror, stored, latest, now>>
        BY <2>8 DEF Fail, FlushFails
      <3> QED  BY <2>1, <3>1 DEF TypeOK, BufferTypeOK, Answered, NoFlight
    <2>9. CASE Reload
      BY <2>1, <2>9 DEF TypeOK, BufferTypeOK, Reload, Restart, NoFlight
    <2>10. CASE UNCHANGED vars
      BY <2>10 DEF TypeOK, BufferTypeOK, vars, bufferVars
    <2> QED  BY <2>2, <2>3, <2>4, <2>5, <2>6, <2>7, <2>8, <2>9, <2>10 DEF Next
  <1> QED  BY <1>1, <1>2, PTL DEF Spec

(* FR-36, compare before delete: no edit leaves the queue before the       *)
(* server holds it, whatever is lost, retried, overtaken or reloaded.      *)
THEOREM NothingLost ==
    ASSUME ~StorageFails PROVE Spec => []NoSilentLoss
  <1>1. Inv => NoSilentLoss  BY DEF Inv, Linked, NoSilentLoss
  <1>2. Spec => []Inv  BY Invariance
  <1> QED  BY <1>1, <1>2, PTL

(* FR-36: at every moment the mirror is the queue.                         *)
THEOREM MirrorIsQueue ==
    ASSUME ~StorageFails PROVE Spec => []QueueMirrored
  <1>1. Inv => QueueMirrored  BY DEF Inv, QueueMirrored
  <1>2. Spec => []Inv  BY Invariance
  <1> QED  BY <1>1, <1>2, PTL

-----------------------------------------------------------------------------
(***************************************************************************)
(* The refinement.  durable is Durable, confirmed is caller = "saved".     *)
(***************************************************************************)
Durable == {q \in Questions : Carries(stored[q], latest[q])}
Confirmed == caller = "saved"

(* When the queue is empty everything is durable: what flushNow relies on  *)
(* when it resolves to true.                                               *)
LEMMA EmptyIsDurable ==
    Inv /\ pending = EmptySheet => Durable = Questions
  BY DEF Inv, Linked, EmptySheet, Durable

(* An edit makes its question not durable and disturbs no other.           *)
LEMMA EditMaps ==
    ASSUME Inv, NEW q \in Questions, Edit(q)
    PROVE  Durable' = Durable \ {q} /\ Confirmed' = Confirmed
  <1>1. PICK letter \in ChosenLetters, dwell \in LastRow(q).dwell..MaxDwell :
           /\ EnqueueRows([EmptySheet EXCEPT ![q] = EditedRow(q, letter, dwell)])
           /\ latest' = [latest EXCEPT ![q] = EditedRow(q, letter, dwell)]
           /\ UNCHANGED stored
    BY DEF Edit
  <1> DEFINE row == EditedRow(q, letter, dwell)
  <1>2. TypeOK  BY DEF Inv
  <1>3. row \in Rows /\ row.stamp = now + 1 /\ row # NoRow
    BY <1>2, EditedRowIsNew, RowTypes
  <1>4. UNCHANGED caller
    BY <1>1 DEF EnqueueRows, bufferVars
  <1>5. latest'[q] = row /\ \A p \in Questions : p # q => latest'[p] = latest[p]
    BY <1>1, <1>2 DEF TypeOK, Sheets
  <1>6. ~Carries(stored[q], row)
    <2>1. stored[q] # NoRow => stored[q].stamp <= now /\ stored[q].stamp \in Nat
      BY <1>2, SlotTypes, RowTypes DEF Inv, Linked
    <2>2. now \in Nat  BY <1>2 DEF TypeOK
    <2> HIDE DEF row
    <2> QED  BY <1>3, <2>1, <2>2 DEF Carries
  <1> HIDE DEF row
  <1> QED  BY <1>1, <1>4, <1>5, <1>6 DEF Durable, Confirmed

(* A delivered flight takes durability from no question, not even from one *)
(* that was edited after the flight was sent.                              *)
LEMMA DeliverMaps ==
    ASSUME Inv, Deliver
    PROVE  Durable \subseteq Durable' /\ Confirmed' = Confirmed
  <1>1. /\ flight.state = "sent"
        /\ stored' = UpsertSheet(stored, flight.rows)
        /\ UNCHANGED <<caller, latest>>
    BY DEF Deliver, DeliverFlight
  <1>2. TypeOK  BY DEF Inv
  <1>3. ASSUME NEW q \in Questions, Carries(stored[q], latest[q])
        PROVE  Carries(stored'[q], latest[q])
    <2>1. Linked(pending[q], flight.rows[q], stored[q], latest[q],
                 flight.state, now)
      BY DEF Inv
    <2>2. CASE flight.rows[q] = NoRow \/ latest[q] = NoRow
      BY <1>1, <1>3, <2>2 DEF UpsertSheet, Carries
    <2>3. CASE flight.rows[q] # NoRow /\ latest[q] # NoRow
      <3> DEFINE p == pending[q]
                 f == flight.rows[q]
                 s == stored[q]
                 l == latest[q]
      <3>1. f \in Rows /\ p \in Rows /\ s \in Rows /\ l \in Rows
        BY <1>2, <1>3, <2>1, <2>3, SlotTypes DEF Linked, Carries
      <3>2. /\ s.letter = l.letter /\ s.stamp = l.stamp /\ s.dwell >= l.dwell
            /\ p.stamp = l.stamp
            /\ s.stamp <= f.stamp /\ f.stamp <= p.stamp
            /\ s.stamp = f.stamp => s.letter = f.letter
        BY <1>1, <1>3, <2>1, <2>3, <3>1, RowTypes DEF Linked, Carries, Older
      <3>3. f.stamp = l.stamp /\ f.letter = l.letter
        <4>1. f.stamp \in Nat /\ l.stamp \in Nat
          BY <3>1, RowTypes
        <4> QED  BY <3>2, <4>1
      <3>4. stored'[q] = Upserted(s, f)  BY <1>1, <2>3 DEF UpsertSheet
      <3> HIDE DEF p, f, s, l
      <3>5. /\ Upserted(s, f) \in Rows
            /\ Upserted(s, f).stamp = l.stamp
            /\ Upserted(s, f).letter = l.letter
            /\ Upserted(s, f).dwell >= s.dwell
        BY <3>1, <3>3, UpsertedCarries, RowTypes
      <3>6. Upserted(s, f).dwell >= l.dwell
        BY <3>1, <3>2, <3>5, RowTypes
      <3>7. Carries(Upserted(s, f), l)
        BY <3>5, <3>6, RowTypes DEF Carries
      <3> QED  BY <3>4, <3>7 DEF l
    <2> QED  BY <2>2, <2>3
  <1> QED  BY <1>1, <1>3 DEF Durable, Confirmed

(* A step that touches neither the server's rows nor the edits either      *)
(* leaves the abstract state alone, takes a confirmation back, or confirms *)
(* with an empty queue.                                                    *)
LEMMA AnswerMaps ==
    ASSUME Inv, Inv', UNCHANGED <<stored, latest>>,
           caller' = "saved" => caller = "saved" \/ pending' = EmptySheet
    PROVE  \/ Promise!Confirm \/ Promise!Acknowledge
           \/ UNCHANGED <<Durable, Confirmed>>
  <1>1. Durable' = Durable
    BY DEF Durable
  <1>2. CASE caller' = "saved" /\ caller # "saved"
    <2>1. Durable' = Questions
      BY <1>2, EmptyIsDurable
      DEF Inv, Linked, EmptySheet, Durable
    <2> QED  BY <1>1, <1>2, <2>1 DEF Promise!Confirm, Durable, Confirmed
  <1>3. CASE caller' # "saved"
    BY <1>1, <1>3 DEF Promise!Acknowledge, Durable, Confirmed
  <1>4. CASE caller' = "saved" /\ caller = "saved"
    BY <1>1, <1>4 DEF Confirmed
  <1> QED  BY <1>2, <1>3, <1>4

(* The write buffer implements DurableAnswers: an edit is an Edit, a       *)
(* delivered upsert a Save, a flushNow that resolves to true a Confirm.    *)
THEOREM BufferKeepsPromise ==
    ASSUME ~StorageFails PROVE Spec => KeepsPromise
  <1>1. Init => Promise!Init
    BY DEF Init, BufferInit, Promise!Init, EmptySheet, Carries
  <1>2. Inv /\ Inv' /\ [Next]_vars
          => [Promise!Next]_<<Durable, Confirmed>>
    <2> SUFFICES ASSUME Inv, Inv', [Next]_vars
                 PROVE  Promise!Next \/ UNCHANGED <<Durable, Confirmed>>
      OBVIOUS
    <2>1. ASSUME NEW q \in Questions, Edit(q)
          PROVE  Promise!Next
      BY <2>1, EditMaps DEF Promise!Next, Promise!Edit, Durable, Confirmed
    <2>2. CASE Deliver
      <3>1. Durable' \in SUBSET Questions  BY DEF Durable
      <3>2. Promise!Save(Durable')
        BY <2>2, DeliverMaps DEF Promise!Save, Durable, Confirmed
      <3> QED  BY <3>1, <3>2 DEF Promise!Next
    <2>3. CASE AskFlush \/ TakeAnswer \/ Fire \/ Succeed \/ Fail \/ Reload
      <3>1. UNCHANGED <<stored, latest>>
        BY <2>3 DEF AskFlush, TakeAnswer, Fire, Succeed, Fail, Reload
      <3>2. caller' = "saved" => caller = "saved" \/ pending' = EmptySheet
        BY <2>3 DEF AskFlush, FlushNow, FlushRows, TakeAnswer, Fire,
           TimerFires, Succeed, FlushSucceeds, Fail, FlushFails, Answered,
           Reload, Restart
      <3> QED  BY <3>1, <3>2, AnswerMaps DEF Promise!Next
    <2>4. CASE UNCHANGED vars
      BY <2>4 DEF vars, bufferVars, Durable, Confirmed
    <2> QED  BY <2>1, <2>2, <2>3, <2>4 DEF Next
  <1>3. Spec => []Inv
    BY Invariance
  <1> QED
    BY <1>1, <1>2, <1>3, PTL
       DEF Spec, KeepsPromise, Promise!Spec, Durable, Confirmed
=============================================================================
