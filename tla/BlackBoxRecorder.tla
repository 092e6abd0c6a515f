--------------------------- MODULE BlackBoxRecorder ---------------------------
(***************************************************************************)
(* The black box of one workflow: trace.jsonl, its recorder and the        *)
(* verification of its hash chain.                                         *)
(*                                                                         *)
(* All recorders of a process write from its event loop, so one record     *)
(* call is one writer; another process that reads the file may see a line  *)
(* half written, and a crash may leave it so.  An event is recorded once,  *)
(* so its id stands for its integrity hash.                                *)
(***************************************************************************)
EXTENDS Integers, Sequences, FiniteSets

CONSTANTS
    Events,         \* what is recorded
    Completions,    \* the task_completed events among them
    Zero,           \* the hash the chain starts from
    Garbled,        \* the id of a line that does not parse
    MaxTorn         \* bound on the crashes in the middle of a line

ASSUME RecorderAssumption ==
    /\ Completions \subseteq Events
    /\ Zero \notin Events /\ Garbled \notin Events
    /\ MaxTorn \in Nat

VARIABLES
    lines,      \* the terminated lines of the file
    tail,       \* what follows the last newline
    recorded,   \* the events record was called with
    torn        \* crashes so far

recorderVars == <<lines, tail, recorded, torn>>

Lines == [id : Events \cup {Garbled}, prev : Events \cup {Zero}]
Unreadable == [id |-> Garbled, prev |-> Zero]

Tails == [st : {"none", "writing", "torn"}, line : Lines]
NoTail == [st |-> "none", line |-> Unreadable]

RecorderTypeOK ==
    /\ lines \in Seq(Lines)
    /\ tail \in Tails
    /\ recorded \subseteq Events
    /\ torn \in Nat

RecorderInit ==
    /\ lines = <<>> /\ tail = NoTail
    /\ recorded = {} /\ torn = 0

(* What a reader of the whole file may find: the tail may be cut within    *)
(* its line or only before its newline.                                    *)
Readings ==
    IF tail.st = "none" THEN {lines}
    ELSE {Append(lines, tail.line), Append(lines, Unreadable)}

(* Mutant of PrevHash: the newest line is not yet seen.                    *)
LateHash(text) ==
    IF Len(text) < 2 \/ text[Len(text)].id = Garbled THEN Zero
    ELSE text[Len(text) - 1].id

(* _prev_hash reads the file's last line, never a memory of its own.       *)
PrevHash(text) ==
    IF text = <<>> \/ text[Len(text)].id = Garbled THEN Zero
    ELSE text[Len(text)].id

(* A line appended to a torn one is no line of its own.                    *)
Written(e, prev) ==
    IF tail.st = "torn" THEN Unreadable ELSE [id |-> e, prev |-> prev]

Record(e) ==
    /\ tail.st # "writing"
    /\ e \notin recorded
    /\ recorded' = recorded \cup {e}
    /\ \E text \in Readings :
          LET line == Written(e, PrevHash(text))
          IN  \/ lines' = Append(lines, line) /\ tail' = NoTail
              \/ tail' = [st |-> "writing", line |-> line] /\ UNCHANGED lines
    /\ UNCHANGED torn

RecordRest ==
    /\ tail.st = "writing"
    /\ lines' = Append(lines, tail.line)
    /\ tail' = NoTail
    /\ UNCHANGED <<recorded, torn>>

CrashRecorder ==
    /\ tail.st = "writing"
    /\ torn < MaxTorn
    /\ tail' = [tail EXCEPT !.st = "torn"]
    /\ torn' = torn + 1
    /\ UNCHANGED <<lines, recorded>>

(***************************************************************************)
(* export: raises at a line that does not parse, else verifies the chain.  *)
(***************************************************************************)
Raises(text) == \E i \in DOMAIN text : text[i].id = Garbled

ChainValid(text) ==
    \A i \in DOMAIN text :
        text[i].prev = IF i = 1 THEN Zero ELSE text[i - 1].id
=============================================================================
