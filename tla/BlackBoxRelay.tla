---------------------------- MODULE BlackBoxRelay ----------------------------
(***************************************************************************)
(* The relay that tails a workflow's black box: readers (the polling loop  *)
(* and the drain at the end of a stream) that take the workflow's lock,    *)
(* read the complete lines past the durable offset, hand each line to the  *)
(* exporter or to the dead-letter file, and then move the offset.          *)
(*                                                                         *)
(* Line numbers stand for byte offsets at line boundaries.  The exporter   *)
(* is a port: it answers, swallows a failure, or raises.                   *)
(***************************************************************************)
EXTENDS BlackBoxRecorder

CONSTANTS
    Suppressed,     \* the events that the curated view keeps back
    Readers,        \* the callers of _process_workflow
    Poll,           \* the one that comes again and again
    NoReader,       \* the owner of a free lock
    MaxRetries,     \* max_retries
    MaxCrashes,     \* bound on the relay's crashes
    MaxErrors       \* bound on its I/O errors

ASSUME RelayAssumption ==
    /\ Suppressed \subseteq Events
    /\ Poll \in Readers /\ NoReader \notin Readers
    /\ MaxRetries \in Nat /\ MaxCrashes \in Nat /\ MaxErrors \in Nat

VARIABLES
    offset,     \* the offset file: lines consumed
    lock,       \* who holds the workflow's lock
    job,        \* what each reader works on
    sent,       \* the lines handed to the exporter, in order
    dead,       \* the dead-letter file: numbers and lines
    published,  \* whether this process published the compliance bundle
    bundles,    \* the bundles published, and what they say of the chain
    high,       \* history: the highest line settled so far
    crashes, errors

relayVars == <<offset, lock, job, sent, dead, published, bundles, high, crashes, errors>>
vars == <<recorderVars, relayVars>>

Jobs == [busy : BOOLEAN, at : Nat, upto : Nat, tries : 0..MaxRetries]
NoJob == [busy |-> FALSE, at |-> 0, upto |-> 0, tries |-> 0]
Work(at, upto, tries) == [busy |-> TRUE, at |-> at, upto |-> upto, tries |-> tries]

TypeOK ==
    /\ RecorderTypeOK
    /\ offset \in Nat
    /\ lock \in Readers \cup {NoReader}
    /\ job \in [Readers -> Jobs]
    /\ sent \in Seq(Nat)
    /\ dead \subseteq (Nat \X Lines)
    /\ published \in BOOLEAN
    /\ bundles \in Seq(BOOLEAN)
    /\ high \in Nat /\ crashes \in Nat /\ errors \in Nat

Init ==
    /\ RecorderInit
    /\ offset = 0 /\ lock = NoReader
    /\ job = [r \in Readers |-> NoJob]
    /\ sent = <<>> /\ dead = {}
    /\ published = FALSE /\ bundles = <<>>
    /\ high = 0 /\ crashes = 0 /\ errors = 0

(***************************************************************************)
(* Taking the lock and reading.                                            *)
(***************************************************************************)
(* Mutant of LockFree: the readers do not exclude each other.              *)
LockIgnored == TRUE

LockFree == lock = NoReader

Take(r) ==
    /\ ~job[r].busy
    /\ LockFree
    /\ offset < Len(lines)
    /\ lock' = r
    /\ job' = [job EXCEPT ![r] = Work(offset + 1, Len(lines), 0)]
    /\ UNCHANGED <<recorderVars, offset, sent, dead, published, bundles,
                   high, crashes, errors>>

(***************************************************************************)
(* One line.                                                               *)
(***************************************************************************)
AtLine(r) == job[r].busy /\ job[r].at <= job[r].upto

Line(r) == lines[job[r].at]

IsSuppressed(line) == line.id \in Suppressed

Exportable(r) == AtLine(r) /\ Line(r).id # Garbled /\ ~IsSuppressed(Line(r))

(* The line is done with; the reader goes on to the next.                  *)
Settled(r) ==
    /\ job' = [job EXCEPT ![r] = Work(job[r].at + 1, job[r].upto, 0)]
    /\ high' = IF job[r].at > high THEN job[r].at ELSE high
    /\ UNCHANGED <<recorderVars, offset, lock, crashes, errors>>

Suppress(r) ==
    /\ AtLine(r) /\ IsSuppressed(Line(r))
    /\ Settled(r)
    /\ UNCHANGED <<sent, dead, published, bundles>>

(* Mutant of Publish: it does not remember.                                *)
PublishAgain ==
    /\ UNCHANGED published
    /\ \E text \in Readings :
          \/ ~Raises(text) /\ bundles' = Append(bundles, ChainValid(text))
          \/ UNCHANGED bundles

(* _publish_compliance_bundle: once for a process, remembered beforehand;  *)
(* a trace that does not parse, or a publisher that fails, is no bundle.   *)
Publish ==
    IF published THEN UNCHANGED <<published, bundles>>
    ELSE /\ published' = TRUE
         /\ \E text \in Readings :
               \/ ~Raises(text) /\ bundles' = Append(bundles, ChainValid(text))
               \/ UNCHANGED bundles

Export(r) ==
    /\ Exportable(r)
    /\ sent' = Append(sent, job[r].at)
    /\ IF Line(r).id \in Completions THEN Publish ELSE UNCHANGED <<published, bundles>>
    /\ Settled(r)
    /\ UNCHANGED dead

(* Mutant of DeadLetter: the line is dropped.                              *)
DropLine(r) ==
    /\ Settled(r)
    /\ UNCHANGED <<sent, dead, published, bundles>>

DeadLetter(r) ==
    /\ dead' = dead \cup {<<job[r].at, Line(r)>>}
    /\ Settled(r)
    /\ UNCHANGED <<sent, published, bundles>>

(* export_event answers False.                                             *)
Swallow(r) == Exportable(r) /\ DeadLetter(r)

MayRetry(r) == job[r].tries < MaxRetries

(* export_event raises, or the dead-letter write of Swallow does.          *)
Retry(r) ==
    /\ Exportable(r)
    /\ MayRetry(r)
    /\ job' = [job EXCEPT ![r] = Work(job[r].at, job[r].upto, job[r].tries + 1)]
    /\ UNCHANGED <<recorderVars, offset, lock, sent, dead, published, bundles,
                   high, crashes, errors>>

(* Out of attempts; a line that does not parse uses them up on its own.    *)
OutOfTries(r) ==
    /\ AtLine(r) /\ ~IsSuppressed(Line(r))
    /\ Line(r).id = Garbled \/ ~MayRetry(r)

Poison(r) == OutOfTries(r) /\ DeadLetter(r)

(***************************************************************************)
(* Moving the offset.                                                      *)
(***************************************************************************)
(* Mutant of Consumed: the size of the file now.                           *)
FileSize(r) == Len(lines)

Consumed(r) == job[r].upto

Commit(r) ==
    /\ job[r].busy /\ job[r].at > job[r].upto
    /\ offset' = Consumed(r)
    /\ lock' = NoReader
    /\ job' = [job EXCEPT ![r] = NoJob]
    /\ UNCHANGED <<recorderVars, sent, dead, published, bundles, high,
                   crashes, errors>>

(* Mutant of Abandon: the exception skips the release.                     *)
AbandonHolding(r) ==
    /\ job' = [job EXCEPT ![r] = NoJob]
    /\ UNCHANGED <<recorderVars, offset, lock, sent, dead, published, bundles,
                   high, crashes>>

Abandon(r) ==
    /\ lock' = NoReader
    /\ job' = [job EXCEPT ![r] = NoJob]
    /\ UNCHANGED <<recorderVars, offset, sent, dead, published, bundles, high,
                   crashes>>

(* The dead-letter write or the offset write raises: the exception leaves  *)
(* _process_workflow, which gives the lock back.                           *)
WriteFails(r) ==
    /\ OutOfTries(r) \/ (job[r].busy /\ job[r].at > job[r].upto)
    /\ errors < MaxErrors
    /\ errors' = errors + 1
    /\ Abandon(r)

CrashRelay ==
    /\ crashes < MaxCrashes
    /\ crashes' = crashes + 1
    /\ lock' = NoReader
    /\ job' = [r \in Readers |-> NoJob]
    /\ published' = FALSE
    /\ UNCHANGED <<recorderVars, offset, sent, dead, bundles, high, errors>>

(***************************************************************************)
(* The specification.                                                      *)
(***************************************************************************)
Recorder == (\E e \in Events : Record(e)) \/ RecordRest \/ CrashRecorder

Works(r) ==
    \/ Suppress(r) \/ Export(r) \/ Swallow(r) \/ Retry(r) \/ Poison(r)
    \/ Commit(r) \/ WriteFails(r)

Next ==
    \/ Recorder /\ UNCHANGED relayVars
    \/ \E r \in Readers : Take(r) \/ Works(r)
    \/ CrashRelay

Spec == Init /\ [][Next]_vars

(* The loop polls for ever, and a reader that has begun goes on.           *)
FairSpec ==
    /\ Spec
    /\ WF_vars(Take(Poll))
    /\ \A r \in Readers : WF_vars(Works(r))

(***************************************************************************)
(* Properties.                                                             *)
(***************************************************************************)
SentLines == {sent[k] : k \in DOMAIN sent}

IsSettled(i) ==
    \/ i \in SentLines
    \/ <<i, lines[i]>> \in dead
    \/ IsSuppressed(lines[i])

(* A line before the offset was exported, dead-lettered as it stands, or   *)
(* kept back by the curated view: nothing is skipped.                      *)
NothingSkipped ==
    offset <= Len(lines) /\ \A i \in 1..offset : IsSettled(i)

(* Without a crash or a failed write no line is exported twice (I8).       *)
ExportedOnce ==
    crashes + errors = 0 => \A j, k \in DOMAIN sent : sent[j] = sent[k] => j = k

(* A bundle that is published finds the chain intact, whatever was torn,   *)
(* joined or being written, and there is one for each life of the relay.   *)
BundlesVerify == \A k \in DOMAIN bundles : bundles[k]

BundlesOnce == Len(bundles) <= 1 + crashes

Outbox == INSTANCE AtLeastOnceLog
            WITH Entries <- Lines, log <- lines, settled <- high, acked <- offset

(* The relay is an at-least-once reader of the file.                       *)
KeepsOutbox == Outbox!LogSpec

(* Every complete line is consumed, whatever the exporter does.            *)
EventuallyConsumed ==
    \A i \in 1..Cardinality(Events) : Len(lines) >= i ~> offset >= i
=============================================================================
