--------------------------- MODULE ExamWriteBuffer ---------------------------
(***************************************************************************)
(* The exam write buffer (createExamWriteBuffer): a queue of item rows,    *)
(* mirrored to localStorage, that is flushed to the server by a debounce   *)
(* timer, by a backoff timer after a failure, or by a flushNow call whose  *)
(* caller waits for the answer.                                            *)
(*                                                                         *)
(* The buffer is single-threaded: an action is a run of JavaScript up to   *)
(* the next await that really waits.  What follows an awaited flush runs   *)
(* in microtasks, before any timer or event; a result left in caller is    *)
(* such a pending microtask, and every other action waits for Calm.        *)
(*                                                                         *)
(* Delays are not modelled: an armed timer may fire at any time, so the    *)
(* index into the backoff table (failCount) is left out.  sendBeacon       *)
(* returns false in the browser wiring and changes no state of the buffer. *)
(***************************************************************************)
EXTENDS ExamRows

CONSTANT StorageFails   \* may localStorage.setItem / removeItem throw?

ASSUME BufferAssumption == StorageFails \in BOOLEAN

VARIABLES
    pending,    \* the queue, at most one merged row per question
    mirror,     \* the rows of the localStorage envelope
    timer,      \* the one timer: off, armed as debounce or as backoff
    flight,     \* the upsert in flight: its snapshot and how far it got
    notSaved,   \* notSavedFlag
    caller,     \* the flushNow call: none, waiting, or its result
    stored      \* the server's rows of this section

bufferVars == <<pending, mirror, timer, flight, notSaved, caller>>

NoFlight == [state |-> "none", rows |-> EmptySheet]

BufferTypeOK ==
    /\ pending \in Sheets
    /\ mirror \in Sheets
    /\ timer \in {"off", "debounce", "backoff"}
    /\ flight \in [state : {"none", "sent", "applied"}, rows : Sheets]
    /\ notSaved \in BOOLEAN
    /\ caller \in {"none", "waiting", "saved", "unsaved"}
    /\ stored \in Sheets

BufferInit ==
    /\ pending = EmptySheet
    /\ mirror = EmptySheet
    /\ timer = "off"
    /\ flight = NoFlight
    /\ notSaved = FALSE
    /\ caller = "none"

Calm == caller \notin {"saved", "unsaved"}
InFlight == flight.state # "none"

(* Mutant of Persist: nothing is written to localStorage.                  *)
PersistNothing(queue) == UNCHANGED mirror

(* persist(): the envelope becomes the queue, or stays when storage throws.*)
Persist(queue) ==
    \/ mirror' = queue
    \/ StorageFails /\ UNCHANGED mirror

-----------------------------------------------------------------------------
(* enqueue for every row of a sheet: merge into the queue, persist, re-arm *)
(* the debounce (which cancels a backoff).                                 *)
EnqueueRows(rows) ==
    IF Held(rows) = {}
    THEN UNCHANGED bufferVars
    ELSE /\ pending' = UpsertSheet(pending, rows)
         /\ Persist(pending')
         /\ timer' = "debounce"
         /\ UNCHANGED <<flight, notSaved, caller>>

(* Mutant of FlushRows: no early return for an empty queue.                *)
FlushAndWait(rows) ==
    /\ caller = "none"
    /\ pending' = UpsertSheet(pending, rows)
    /\ IF Held(rows) = {} THEN UNCHANGED mirror ELSE Persist(pending')
    /\ timer' = "off"
    /\ caller' = "waiting"
    /\ flight' = IF InFlight \/ pending' = EmptySheet THEN flight
                 ELSE [state |-> "sent", rows |-> pending']
    /\ UNCHANGED notSaved

(* enqueue for every row of a sheet and then flushNow, in one run: the     *)
(* timer is cancelled; a flush that is already in flight is waited for     *)
(* and no other is started; an empty queue is saved at once.               *)
FlushRows(rows) ==
    /\ caller = "none"
    /\ pending' = UpsertSheet(pending, rows)
    /\ IF Held(rows) = {} THEN UNCHANGED mirror ELSE Persist(pending')
    /\ timer' = "off"
    /\ \/ /\ InFlight
          /\ caller' = "waiting"
          /\ UNCHANGED flight
       \/ /\ ~InFlight /\ pending' = EmptySheet
          /\ caller' = "saved"
          /\ UNCHANGED flight
       \/ /\ ~InFlight /\ pending' # EmptySheet
          /\ caller' = "waiting"
          /\ flight' = [state |-> "sent", rows |-> pending']
    /\ UNCHANGED notSaved

FlushNow == FlushRows(EmptySheet)

(* An armed timer fires: a flush starts unless one is in flight or the     *)
(* queue is empty.                                                         *)
TimerFires ==
    /\ Calm
    /\ timer # "off"
    /\ timer' = "off"
    /\ flight' = IF InFlight \/ pending = EmptySheet
                 THEN flight
                 ELSE [state |-> "sent", rows |-> pending]
    /\ UNCHANGED <<pending, mirror, notSaved, caller>>

(* Mutant of Answered: a flush that is over has saved everything.          *)
AnsweredSaved(queue) == IF caller = "waiting" THEN "saved" ELSE caller

(* The flushNow caller's answer when the flush it waited for is over.      *)
Answered(queue) ==
    IF caller # "waiting" THEN caller
    ELSE IF queue = EmptySheet THEN "saved" ELSE "unsaved"

(* Mutants of LeftQueued: every row that was sent leaves the queue; its    *)
(* slot goes too; nothing leaves.                                          *)
LeftUnsent(snapshot) ==
    [q \in Questions |-> IF snapshot[q] # NoRow THEN NoRow ELSE pending[q]]

LeftSlots(snapshot) == [q \in Questions \ Held(snapshot) |-> pending[q]]

LeftAll(snapshot) == pending

(* The rows that a successful flush of a snapshot leaves in the queue: a   *)
(* row whose updated_at or dwell_ms moved meanwhile stays.                 *)
LeftQueued(snapshot) ==
    [q \in Questions |->
        IF /\ snapshot[q] # NoRow /\ pending[q] # NoRow
           /\ pending[q].stamp = snapshot[q].stamp
           /\ pending[q].dwell = snapshot[q].dwell
        THEN NoRow ELSE pending[q]]

(* The upsert succeeded.                                                   *)
FlushSucceeds ==
    /\ Calm
    /\ flight.state = "applied"
    /\ pending' = LeftQueued(flight.rows)
    /\ Persist(pending')
    /\ flight' = NoFlight
    /\ caller' = Answered(pending')
    /\ notSaved' = (caller' = "unsaved")
    /\ UNCHANGED timer

(* The upsert failed for the client: the request or its reply was lost, or *)
(* the server refused it.                                                  *)
FlushFails ==
    /\ Calm
    /\ InFlight
    /\ timer' = "backoff"
    /\ flight' = NoFlight
    /\ caller' = Answered(pending)
    /\ notSaved' = (notSaved \/ caller' = "unsaved")
    /\ UNCHANGED <<pending, mirror>>

(* The server's side of the flight (upsertExamRunItems), while the section *)
(* accepts writes.                                                         *)
DeliverFlight(accepts) ==
    /\ flight.state = "sent"
    /\ accepts
    /\ stored' = UpsertSheet(stored, flight.rows)
    /\ flight' = [flight EXCEPT !.state = "applied"]
    /\ UNCHANGED <<pending, mirror, timer, notSaved, caller>>

(* The page goes away (dispose, or a crash) and a new buffer is made: the  *)
(* queue is what the mirror held, and a restored queue arms the debounce.  *)
Restart ==
    /\ pending' = mirror
    /\ timer' = IF mirror = EmptySheet THEN "off" ELSE "debounce"
    /\ flight' = NoFlight
    /\ notSaved' = FALSE
    /\ caller' = "none"
    /\ UNCHANGED mirror
=============================================================================
