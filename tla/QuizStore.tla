------------------------------ MODULE QuizStore ------------------------------
(***************************************************************************)
(* What the server keeps of one open practice session, and the statements  *)
(* the engine routes run on it: the session row, its attempt rows and the  *)
(* learner's spaced-repetition card.  A route runs several statements      *)
(* without a transaction, so each statement is an operator of its own.     *)
(*                                                                         *)
(* The questions of the session drill one skill, so there is one card; a   *)
(* card is the sequence of the attempts that were reviewed into it.        *)
(***************************************************************************)
EXTENDS Integers, Sequences, FiniteSets

CONSTANTS
    Questions,      \* the reviewed items the scheduler may serve
    Right,          \* the answer letter, of every question
    Wrongs,         \* the other letters
    NoQuestion,     \* a null question id
    Target          \* target_count of the session

ASSUME QuizAssumption ==
    /\ NoQuestion \notin Questions
    /\ Right \notin Wrongs
    /\ Target \in Nat \ {0}

VARIABLES
    session,        \* the session row
    attempts,       \* its attempt rows
    card            \* the skill's card: the attempts reviewed, in order

storeVars == <<session, attempts, card>>

Letters == Wrongs \cup {Right}

NoRes == "none"
Resolutions == {"first_try", "coached", "walked_through"}

(* created_at and idempotency_key are drawn from the page's clock, which   *)
(* gives every call of record a later time.                                *)
Rows == [q : Questions, key : Nat, letter : Letters,
         res : Resolutions \cup {NoRes}, stamp : Nat]

Scores == [correct : Nat, total : Nat]
ZeroScore == [correct |-> 0, total |-> 0]

StoreTypeOK ==
    /\ session \in [open : BOOLEAN, score : Scores,
                    pointer : Questions \cup {NoQuestion}]
    /\ attempts \in SUBSET Rows
    /\ card \in Seq(Rows)

StoreInit ==
    /\ session = [open |-> TRUE, score |-> ZeroScore, pointer |-> NoQuestion]
    /\ attempts = {}
    /\ card = <<>>

(***************************************************************************)
(* The tally.                                                              *)
(***************************************************************************)
Attempted(rows) == {r.q : r \in rows}

RowsOf(rows, q) == {r \in rows : r.q = q}

(* The resolving attempt of a question is the newest, resolved or not.     *)
Newest(rows, q) ==
    CHOOSE r \in RowsOf(rows, q) :
        \A s \in RowsOf(rows, q) : s.stamp <= r.stamp

CountedAs(rows, kinds) ==
    {q \in Attempted(rows) : Newest(rows, q).res \in kinds}

CommitFirstTally(rows) ==
    [correct |-> Cardinality(CountedAs(rows, {"first_try"})),
     total   |-> Cardinality(CountedAs(rows, Resolutions))]

(* Mutant of IsAtTarget: one question too many.                            *)
IsPastTarget(score) == score.total > Target

IsAtTarget(score) == score.total >= Target

(***************************************************************************)
(* insertAttempt: a row with the question and key of a stored one is not   *)
(* inserted, and the stored one is the answer.                             *)
(***************************************************************************)
SameAnswer(r, s) == r.q = s.q /\ r.key = s.key

Insert(row) ==
    attempts' = IF \E s \in attempts : SameAnswer(row, s)
                THEN attempts ELSE attempts \cup {row}

(* Mutant of StoredFor: the caller gets back what it sent.                 *)
SentRow(row) == row

StoredFor(row) ==
    IF \E s \in attempts : SameAnswer(row, s)
    THEN CHOOSE s \in attempts : SameAnswer(row, s) ELSE row

(***************************************************************************)
(* GET /next: nothing at the target, otherwise any question that has no    *)
(* attempt.  Which one is the scheduler's business.                        *)
(***************************************************************************)
Servable ==
    IF IsAtTarget(CommitFirstTally(attempts)) THEN {}
    ELSE Questions \ Attempted(attempts)

(* patchSessionClose: a second close keeps ended_at, not the score.        *)
PatchClose(score) ==
    session' = [open |-> FALSE, score |-> score, pointer |-> NoQuestion]

SetPointer(q) == session' = [session EXCEPT !.pointer = q]
=============================================================================
