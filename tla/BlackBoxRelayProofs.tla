------------------------- MODULE BlackBoxRelayProofs -------------------------
(***************************************************************************)
(* Theorems about the black box and its relay, for any events, readers,    *)
(* numbers of retries, crashes and I/O errors.                             *)
(*                                                                         *)
(* The file only grows, so what has been settled stays settled; a reader   *)
(* that works holds the lock, and works on a window of lines that starts   *)
(* past the offset (Window).                                               *)
(***************************************************************************)
EXTENDS BlackBoxRelay, TLAPS

-----------------------------------------------------------------------------
(***************************************************************************)
(* Types.                                                                  *)
(***************************************************************************)

(* What a reader of the file may find is a sequence of lines.              *)
LEMMA ReadingIsText ==
    ASSUME RecorderTypeOK, NEW text \in Readings
    PROVE  text \in Seq(Lines)
  <1>1. tail.line \in Lines /\ Unreadable \in Lines
    BY DEF RecorderTypeOK, Tails, Unreadable, Lines
  <1>2. lines \in Seq(Lines)  BY DEF RecorderTypeOK
  <1>3. Append(lines, tail.line) \in Seq(Lines) /\ Append(lines, Unreadable) \in Seq(Lines)
    BY <1>1, <1>2
  <1> QED  BY <1>2, <1>3 DEF Readings

(* What record writes is a line.                                           *)
LEMMA WrittenIsLine ==
    ASSUME RecorderTypeOK, NEW e \in Events, NEW text \in Readings
    PROVE  Written(e, PrevHash(text)) \in Lines
  <1>1. text \in Seq(Lines)  BY ReadingIsText
  <1>2. PrevHash(text) \in Events \cup {Zero}
    <2>1. CASE text = <<>> \/ text[Len(text)].id = Garbled
      BY <2>1 DEF PrevHash
    <2>2. CASE text # <<>> /\ text[Len(text)].id # Garbled
      <3>1. text[Len(text)] \in Lines  BY <1>1, <2>2
      <3> QED  BY <2>2, <3>1 DEF PrevHash, Lines
    <2> QED  BY <2>1, <2>2
  <1> QED  BY <1>2 DEF Written, Lines, Unreadable

(* The recorder keeps its types, and the file only grows.                  *)
LEMMA RecorderKeeps ==
    ASSUME RecorderTypeOK, Recorder
    PROVE  /\ RecorderTypeOK'
           /\ lines' = lines \/ \E line \in Lines : lines' = Append(lines, line)
  <1> USE DEF RecorderTypeOK
  <1>0. NoTail \in Tails  BY DEF NoTail, Tails, Unreadable, Lines
  <1>1. ASSUME NEW e \in Events, Record(e)
        PROVE  /\ RecorderTypeOK'
               /\ lines' = lines \/ \E line \in Lines : lines' = Append(lines, line)
    <2>1. PICK text \in Readings :
             LET line == Written(e, PrevHash(text))
             IN  \/ lines' = Append(lines, line) /\ tail' = NoTail
                 \/ tail' = [st |-> "writing", line |-> line] /\ UNCHANGED lines
      BY <1>1 DEF Record
    <2>2. Written(e, PrevHash(text)) \in Lines  BY WrittenIsLine
    <2>3. [st |-> "writing", line |-> Written(e, PrevHash(text))] \in Tails
      BY <2>2 DEF Tails
    <2> QED  BY <1>0, <1>1, <2>1, <2>2, <2>3 DEF Record
  <1>2. CASE RecordRest
    <2>1. tail.line \in Lines  BY DEF Tails
    <2> QED  BY <1>0, <1>2, <2>1 DEF RecordRest
  <1>3. CASE CrashRecorder
    BY <1>3 DEF CrashRecorder, Tails
  <1> QED  BY <1>1, <1>2, <1>3 DEF Recorder

(* Publishing keeps the types of what it changes.                          *)
LEMMA PublishKeeps ==
    ASSUME published \in BOOLEAN, bundles \in Seq(BOOLEAN), Publish
    PROVE  published' \in BOOLEAN /\ bundles' \in Seq(BOOLEAN)
  <1>1. ASSUME NEW text  PROVE ChainValid(text) \in BOOLEAN  BY DEF ChainValid
  <1>2. CASE published  BY <1>2 DEF Publish
  <1>3. CASE ~published
    <2>1. PICK text \in Readings :
            \/ ~Raises(text) /\ bundles' = Append(bundles, ChainValid(text))
            \/ UNCHANGED bundles
      BY <1>3 DEF Publish
    <2>2. published' = TRUE  BY <1>3 DEF Publish
    <2> QED  BY <1>1, <2>1, <2>2
  <1> QED  BY <1>2, <1>3

-----------------------------------------------------------------------------
(***************************************************************************)
(* The inductive invariant.                                                *)
(***************************************************************************)

(* A reader at work holds the lock; its window starts past the offset, and *)
(* all before the line it is at has been settled.                          *)
Window(r) ==
    job[r].busy =>
        /\ lock = r
        /\ offset < job[r].at /\ offset < job[r].upto
        /\ job[r].at <= job[r].upto + 1 /\ job[r].upto <= Len(lines)
        /\ job[r].at <= high + 1

Inv ==
    /\ TypeOK
    /\ offset <= high /\ high <= Len(lines)
    /\ \A i \in 1..high : IsSettled(i)
    /\ \A r \in Readers : Window(r)

LEMMA InitInv == Init => Inv
  <1> SUFFICES ASSUME Init PROVE Inv  OBVIOUS
  <1>1. RecorderTypeOK
    BY DEF Init, RecorderInit, RecorderTypeOK, NoTail, Tails, Lines, Unreadable
  <1>2. NoJob \in Jobs  BY RelayAssumption DEF NoJob, Jobs
  <1>3. job \in [Readers -> Jobs]  BY <1>2 DEF Init
  <1>a. sent \in Seq(Nat) /\ bundles \in Seq(BOOLEAN)  BY DEF Init
  <1>b. TypeOK  BY <1>1, <1>3, <1>a DEF Init, TypeOK
  <1>4. \A r \in Readers : ~job[r].busy  BY DEF Init, NoJob
  <1> QED  BY <1>b, <1>4 DEF Init, RecorderInit, Inv, Window

(* The recorder disturbs nothing of the relay.                             *)
LEMMA RecorderInv ==
    ASSUME Inv, Recorder, UNCHANGED relayVars
    PROVE  Inv'
  <1>1. RecorderTypeOK' /\ (lines' = lines \/ \E line \in Lines : lines' = Append(lines, line))
    BY RecorderKeeps DEF Inv, TypeOK
  <1>2. lines \in Seq(Lines) /\ lines' \in Seq(Lines)
    BY <1>1 DEF Inv, TypeOK, RecorderTypeOK
  <1>3. /\ Len(lines) \in Nat /\ Len(lines') \in Nat /\ Len(lines) <= Len(lines')
        /\ \A i \in 1..Len(lines) : lines'[i] = lines[i]
    BY <1>1, <1>2
  <1>4. TypeOK'  BY <1>1 DEF Inv, TypeOK, relayVars
  <1>5. \A i \in 1..high : lines'[i] = lines[i]
    BY <1>3 DEF Inv, TypeOK
  <1>6. (\A i \in 1..high : IsSettled(i))'
    BY <1>5 DEF Inv, IsSettled, SentLines, IsSuppressed, relayVars
  <1>7. (\A r \in Readers : Window(r))'
    BY <1>3 DEF Inv, TypeOK, Window, Jobs, relayVars
  <1>8. (offset <= high /\ high <= Len(lines))'
    BY <1>3 DEF Inv, TypeOK, relayVars
  <1> QED  BY <1>4, <1>6, <1>7, <1>8 DEF Inv

(* A reader that settles the line it is at, in whichever way, keeps the    *)
(* invariant, as long as what was settled before stays so.                 *)
LEMMA SettledInv ==
    ASSUME Inv, NEW r \in Readers, AtLine(r), Settled(r),
           sent' \in Seq(Nat), dead' \subseteq (Nat \X Lines),
           published' \in BOOLEAN, bundles' \in Seq(BOOLEAN),
           SentLines \subseteq SentLines', dead \subseteq dead',
           NEW at, at = job[r].at, IsSettled(at)'
    PROVE  Inv'
  <1> USE DEF Inv
  <1>1. job \in [Readers -> Jobs] /\ job[r] \in Jobs  BY DEF TypeOK
  <1>2. job' = [job EXCEPT ![r] = Work(job[r].at + 1, job[r].upto, 0)]
    BY DEF Settled
  <1>3. Work(job[r].at + 1, job[r].upto, 0) \in Jobs
    BY <1>1, RelayAssumption DEF Jobs, Work
  <1>4. UNCHANGED <<recorderVars, offset, lock, crashes, errors>>
    BY DEF Settled
  <1>5. high' \in Nat  BY <1>1 DEF Settled, TypeOK, Jobs
  <1>6. TypeOK'
    BY <1>1, <1>2, <1>3, <1>4, <1>5 DEF TypeOK, recorderVars, RecorderTypeOK
  <1>7. lines' = lines  BY <1>4 DEF recorderVars
  <1>8. /\ job[r].at \in Nat /\ job[r].upto \in Nat /\ high \in Nat /\ offset \in Nat
        /\ Len(lines) \in Nat
    BY <1>1 DEF TypeOK, Jobs, RecorderTypeOK
  <1>9. /\ job[r].busy /\ job[r].at <= job[r].upto /\ Window(r)
    BY DEF AtLine
  <1>10. /\ high <= high' /\ at <= high' /\ high' <= Len(lines')
         /\ \A i \in 1..high' : i \in 1..high \/ i = at
    <2>1. high' = IF at > high THEN at ELSE high  BY DEF Settled
    <2>2. at <= high + 1 /\ at <= Len(lines) /\ high <= Len(lines)
      BY <1>8, <1>9 DEF Window
    <2> QED  BY <1>7, <1>8, <2>1, <2>2
  <1>11. (\A i \in 1..high : IsSettled(i))'
    <2>1. ASSUME NEW i \in 1..high, IsSettled(i) PROVE IsSettled(i)'
      BY <1>7, <2>1 DEF IsSettled, IsSuppressed
    <2>2. ASSUME NEW i \in 1..high' PROVE IsSettled(i)'
      <3>1. CASE i \in 1..high  BY <2>1, <3>1
      <3>2. CASE i = at  BY <3>2
      <3> QED  BY <1>10, <3>1, <3>2
    <2> QED  BY <2>2
  <1>12. ASSUME NEW s \in Readers PROVE Window(s)'
    <2>1. CASE s = r
      <3>1. job'[r].busy = job[r].busy /\ job'[r].at = job[r].at + 1 /\ job'[r].upto = job[r].upto
        BY <1>1, <1>2, <1>9 DEF Jobs, Work
      <3> QED
        BY <1>4, <1>5, <1>7, <1>8, <1>9, <1>10, <2>1, <3>1, SMTT(60) DEF Window
    <2>2. CASE s # r
      <3>1. job'[s] = job[s]  BY <1>1, <1>2, <2>2
      <3>2. ~job[s].busy  BY <1>9, <2>2 DEF Window
      <3> QED  BY <3>1, <3>2 DEF Window
    <2> QED  BY <2>1, <2>2
  <1>13. (offset <= high /\ high <= Len(lines))'
    BY <1>4, <1>5, <1>8, <1>10
  <1> QED  BY <1>6, <1>11, <1>12, <1>13

(* The line a reader is at is a line of the file.                          *)
LEMMA LineIsLine ==
    ASSUME Inv, NEW r \in Readers, AtLine(r)
    PROVE  job[r].at \in Nat /\ job[r].at \in 1..Len(lines) /\ Line(r) \in Lines
  <1>1. job[r] \in Jobs  BY DEF Inv, TypeOK
  <1>2. lines \in Seq(Lines)  BY DEF Inv, TypeOK, RecorderTypeOK
  <1>3. job[r].at \in 1..Len(lines)
    BY <1>1, <1>2 DEF Inv, TypeOK, Window, AtLine, Jobs
  <1> QED  BY <1>2, <1>3 DEF Line

LEMMA DeadLetterInv ==
    ASSUME Inv, NEW r \in Readers, AtLine(r), DeadLetter(r)
    PROVE  Inv'
  <1>1. job[r].at \in Nat /\ Line(r) \in Lines  BY LineIsLine
  <1>2. dead' = dead \cup {<<job[r].at, Line(r)>>}  BY DEF DeadLetter
  <1>3. dead' \subseteq (Nat \X Lines)  BY <1>1, <1>2 DEF Inv, TypeOK
  <1>4. Settled(r) /\ UNCHANGED <<sent, published, bundles>>  BY DEF DeadLetter
  <1>5. lines' = lines  BY <1>4 DEF Settled, recorderVars
  <1>6. ASSUME NEW at, at = job[r].at  PROVE IsSettled(at)'
    BY <1>2, <1>5, <1>6 DEF IsSettled, Line
  <1>7. SentLines' = SentLines  BY <1>4 DEF SentLines
  <1>8. /\ sent' \in Seq(Nat) /\ published' \in BOOLEAN /\ bundles' \in Seq(BOOLEAN)
    BY <1>4 DEF Inv, TypeOK
  <1> QED  BY <1>2, <1>3, <1>4, <1>6, <1>7, <1>8, SettledInv

LEMMA SuppressInv ==
    ASSUME Inv, NEW r \in Readers, Suppress(r)
    PROVE  Inv'
  <1>1. AtLine(r) /\ Settled(r) /\ UNCHANGED <<sent, dead, published, bundles>>
    BY DEF Suppress
  <1>2. lines' = lines  BY <1>1 DEF Settled, recorderVars
  <1>3. ASSUME NEW at, at = job[r].at  PROVE IsSettled(at)'
    BY <1>2, <1>3 DEF Suppress, IsSettled, IsSuppressed, Line
  <1>4. SentLines' = SentLines  BY <1>1 DEF SentLines
  <1>5. /\ sent' \in Seq(Nat) /\ published' \in BOOLEAN /\ bundles' \in Seq(BOOLEAN)
        /\ dead' \subseteq (Nat \X Lines)
    BY <1>1 DEF Inv, TypeOK
  <1> QED  BY <1>1, <1>3, <1>4, <1>5, SettledInv

(* What an export does to the exported lines.                              *)
LEMMA ExportSends ==
    ASSUME Inv, NEW r \in Readers, Export(r)
    PROVE  /\ sent' \in Seq(Nat)
           /\ Len(sent') = Len(sent) + 1
           /\ \A k \in 1..Len(sent) : sent'[k] = sent[k]
           /\ sent'[Len(sent) + 1] = job[r].at
  <1>1. job[r].at \in Nat  BY LineIsLine DEF Export, Exportable
  <1>2. sent \in Seq(Nat)  BY DEF Inv, TypeOK
  <1> QED  BY <1>1, <1>2 DEF Export

LEMMA ExportInv ==
    ASSUME Inv, NEW r \in Readers, Export(r)
    PROVE  Inv'
  <1>1. AtLine(r) /\ Settled(r) /\ UNCHANGED dead  BY DEF Export, Exportable
  <1>2. /\ sent' \in Seq(Nat) /\ Len(sent') = Len(sent) + 1
        /\ \A k \in 1..Len(sent) : sent'[k] = sent[k]
        /\ sent'[Len(sent) + 1] = job[r].at
    BY ExportSends
  <1>3. sent \in Seq(Nat)  BY DEF Inv, TypeOK
  <1>4. Len(sent) \in Nat /\ DOMAIN sent = 1..Len(sent) /\ DOMAIN sent' = 1..(Len(sent) + 1)
    BY <1>2, <1>3
  <1>5. SentLines \subseteq SentLines' /\ job[r].at \in SentLines'
    BY <1>2, <1>4 DEF SentLines
  <1>6. ASSUME NEW at, at = job[r].at  PROVE IsSettled(at)'
    BY <1>5, <1>6 DEF IsSettled
  <1>7. published' \in BOOLEAN /\ bundles' \in Seq(BOOLEAN)
    BY PublishKeeps DEF Export, Inv, TypeOK
  <1>8. dead' \subseteq (Nat \X Lines)  BY <1>1 DEF Inv, TypeOK
  <1> QED  BY <1>1, <1>2, <1>5, <1>6, <1>7, <1>8, SettledInv

(* The other steps of the relay give one reader another job and settle     *)
(* nothing; what has to be shown is the new job's window.                  *)
LEMMA NewJobInv ==
    ASSUME Inv, NEW r \in Readers, NEW j \in Jobs, job' = [job EXCEPT ![r] = j],
           UNCHANGED <<recorderVars, sent, dead, published, bundles, high, crashes>>,
           errors' \in Nat, lock' \in Readers \cup {NoReader},
           offset' \in Nat, offset' <= high,
           Window(r)', \A s \in Readers \ {r} : ~job[s].busy
    PROVE  Inv'
  <1> USE DEF Inv
  <1>1. job \in [Readers -> Jobs]  BY DEF TypeOK
  <1>2. job' \in [Readers -> Jobs]  BY <1>1
  <1>3. TypeOK'  BY <1>2 DEF TypeOK, recorderVars, RecorderTypeOK
  <1>4. (\A i \in 1..high : IsSettled(i))'
    BY DEF IsSettled, SentLines, IsSuppressed, recorderVars
  <1>5. ASSUME NEW s \in Readers \ {r} PROVE Window(s)'
    BY <1>1 DEF Window
  <1>6. (offset <= high /\ high <= Len(lines))'  BY DEF recorderVars
  <1> QED  BY <1>3, <1>4, <1>5, <1>6

(* Nobody else works while a reader holds the lock.                        *)
LEMMA OthersRest ==
    ASSUME Inv, NEW r \in Readers, job[r].busy \/ lock = NoReader
    PROVE  \A s \in Readers \ {r} : ~job[s].busy
  BY RelayAssumption DEF Inv, Window

LEMMA TakeInv ==
    ASSUME Inv, NEW r \in Readers, Take(r)
    PROVE  Inv'
  <1> DEFINE j == Work(offset + 1, Len(lines), 0)
  <1>1. /\ lock = NoReader /\ offset < Len(lines) /\ lock' = r
        /\ job' = [job EXCEPT ![r] = j]
        /\ UNCHANGED <<recorderVars, offset, sent, dead, published, bundles,
                       high, crashes, errors>>
    BY DEF Take, LockFree
  <1>2. /\ offset \in Nat /\ Len(lines) \in Nat /\ high \in Nat /\ errors \in Nat
        /\ offset <= high /\ job \in [Readers -> Jobs]
    BY DEF Inv, TypeOK, RecorderTypeOK
  <1>3. j \in Jobs  BY <1>2, RelayAssumption DEF Jobs, Work
  <1>4. job'[r] = j  BY <1>1, <1>2
  <1>5. Window(r)'  BY <1>1, <1>2, <1>4 DEF Window, Work, recorderVars
  <1>6. \A s \in Readers \ {r} : ~job[s].busy  BY <1>1, OthersRest
  <1> QED  BY <1>1, <1>2, <1>3, <1>5, <1>6, NewJobInv

LEMMA RetryInv ==
    ASSUME Inv, NEW r \in Readers, Retry(r)
    PROVE  Inv'
  <1> DEFINE j == Work(job[r].at, job[r].upto, job[r].tries + 1)
  <1>1. /\ job[r].busy /\ job[r].tries < MaxRetries
        /\ job' = [job EXCEPT ![r] = j]
        /\ UNCHANGED <<recorderVars, offset, lock, sent, dead, published, bundles,
                       high, crashes, errors>>
    BY DEF Retry, MayRetry, Exportable, AtLine
  <1>2. /\ offset \in Nat /\ errors \in Nat /\ offset <= high /\ Window(r)
        /\ lock \in Readers \cup {NoReader} /\ job \in [Readers -> Jobs]
    BY DEF Inv, TypeOK
  <1>3. j \in Jobs  BY <1>1, <1>2, RelayAssumption DEF Jobs, Work
  <1>4. job'[r] = j  BY <1>1, <1>2
  <1>5. Window(r)'  BY <1>1, <1>2, <1>4 DEF Window, Work, recorderVars
  <1>6. \A s \in Readers \ {r} : ~job[s].busy  BY <1>1, OthersRest
  <1> QED  BY <1>1, <1>2, <1>3, <1>5, <1>6, NewJobInv

(* A reader that stops gives the lock back and leaves an offset up to      *)
(* which everything is settled.                                            *)
LEMMA StopInv ==
    ASSUME Inv, NEW r \in Readers, job[r].busy,
           lock' = NoReader, job' = [job EXCEPT ![r] = NoJob],
           UNCHANGED <<recorderVars, sent, dead, published, bundles, high, crashes>>,
           errors' \in Nat, offset' \in Nat, offset' <= high
    PROVE  Inv'
  <1>1. NoJob \in Jobs  BY RelayAssumption DEF NoJob, Jobs
  <1>2. job'[r] = NoJob  BY DEF Inv, TypeOK
  <1>3. Window(r)'  BY <1>2 DEF Window, NoJob
  <1>4. \A s \in Readers \ {r} : ~job[s].busy  BY OthersRest
  <1> QED  BY <1>1, <1>3, <1>4, NewJobInv

(* What a commit does to the offset.                                       *)
LEMMA CommitMoves ==
    ASSUME Inv, NEW r \in Readers, Commit(r)
    PROVE  offset' \in Nat /\ offset < offset' /\ offset' <= high
  <1>1. job[r] \in Jobs /\ high \in Nat /\ offset \in Nat  BY DEF Inv, TypeOK
  <1>2. /\ job[r].busy /\ job[r].at > job[r].upto /\ offset' = job[r].upto
    BY DEF Commit, Consumed
  <1> QED  BY <1>1, <1>2 DEF Inv, Window, Jobs

LEMMA CommitInv ==
    ASSUME Inv, NEW r \in Readers, Commit(r)
    PROVE  Inv'
  <1>1. offset' \in Nat /\ offset' <= high  BY CommitMoves
  <1>2. errors \in Nat  BY DEF Inv, TypeOK
  <1> QED  BY <1>1, <1>2, StopInv DEF Commit

LEMMA WriteFailsInv ==
    ASSUME Inv, NEW r \in Readers, WriteFails(r)
    PROVE  Inv'
  <1>1. job[r].busy  BY DEF WriteFails, OutOfTries, AtLine
  <1>2. errors' \in Nat /\ offset' \in Nat /\ offset' <= high
    BY DEF WriteFails, Abandon, Inv, TypeOK
  <1> QED  BY <1>1, <1>2, StopInv DEF WriteFails, Abandon

LEMMA CrashInv ==
    ASSUME Inv, CrashRelay
    PROVE  Inv'
  <1>1. NoJob \in Jobs /\ ~NoJob.busy  BY RelayAssumption DEF NoJob, Jobs
  <1>2. TypeOK'
    <2>1. job' \in [Readers -> Jobs]  BY <1>1 DEF CrashRelay
    <2>2. RecorderTypeOK'
      BY DEF Inv, TypeOK, CrashRelay, recorderVars, RecorderTypeOK
    <2>3. /\ lock' \in Readers \cup {NoReader}
          /\ crashes' \in Nat
      BY DEF CrashRelay, Inv, TypeOK
    <2>6. published' \in BOOLEAN  BY DEF CrashRelay
    <2>4. UNCHANGED <<offset, sent, dead, bundles, high, errors>>  BY DEF CrashRelay
    <2>5. dead' \subseteq (Nat \X Lines)  BY <2>4 DEF Inv, TypeOK
    <2> QED  BY <2>1, <2>2, <2>3, <2>4, <2>5, <2>6 DEF Inv, TypeOK
  <1>3. (\A i \in 1..high : IsSettled(i))'
    BY DEF Inv, CrashRelay, IsSettled, SentLines, IsSuppressed, recorderVars
  <1>4. (\A r \in Readers : Window(r))'
    BY <1>1 DEF CrashRelay, Window
  <1>5. (offset <= high /\ high <= Len(lines))'
    BY DEF Inv, CrashRelay, recorderVars
  <1> QED  BY <1>2, <1>3, <1>4, <1>5 DEF Inv

LEMMA NextInv == Inv /\ [Next]_vars => Inv'
  <1> SUFFICES ASSUME Inv, [Next]_vars PROVE Inv'  OBVIOUS
  <1>1. CASE Recorder /\ UNCHANGED relayVars
    BY <1>1, RecorderInv
  <1>2. ASSUME NEW r \in Readers, Take(r) \/ Works(r)  PROVE Inv'
    <2>1. CASE Take(r)  BY <2>1, TakeInv
    <2>2. CASE Suppress(r)  BY <2>2, SuppressInv
    <2>3. CASE Export(r)  BY <2>3, ExportInv
    <2>4. CASE Swallow(r)  BY <2>4, DeadLetterInv DEF Swallow, Exportable
    <2>5. CASE Retry(r)  BY <2>5, RetryInv
    <2>6. CASE Poison(r)  BY <2>6, DeadLetterInv DEF Poison, OutOfTries
    <2>7. CASE Commit(r)  BY <2>7, CommitInv
    <2>8. CASE WriteFails(r)  BY <2>8, WriteFailsInv
    <2> QED  BY <1>2, <2>1, <2>2, <2>3, <2>4, <2>5, <2>6, <2>7, <2>8 DEF Works
  <1>3. CASE CrashRelay  BY <1>3, CrashInv
  <1>4. CASE UNCHANGED vars
    <2>1. UNCHANGED <<recorderVars, relayVars>>  BY <1>4 DEF vars
    <2> QED
      BY <2>1 DEF Inv, TypeOK, RecorderTypeOK, recorderVars, relayVars, IsSettled,
                  SentLines, IsSuppressed, Window
  <1> QED  BY <1>1, <1>2, <1>3, <1>4 DEF Next

LEMMA Invariance == Spec => []Inv
  BY InitInv, NextInv, PTL DEF Spec

(* The relay and the file keep their types.                                *)
THEOREM RelayTypeCorrect == Spec => []TypeOK
  <1>1. Inv => TypeOK  BY DEF Inv
  <1> QED  BY <1>1, Invariance, PTL

(* Nothing before the offset is skipped, whatever crashes and fails and    *)
(* whoever else reads (black_box_to_telemetry.py, _process_workflow).      *)
THEOREM NoLineSkipped == Spec => []NothingSkipped
  <1>1. Inv => NothingSkipped
    BY DEF Inv, TypeOK, RecorderTypeOK, NothingSkipped
  <1> QED  BY <1>1, Invariance, PTL

-----------------------------------------------------------------------------
(***************************************************************************)
(* The relay implements AtLeastOnceLog.                                    *)
(***************************************************************************)

(* Settling the line a reader is at settles the next entry of the log, or  *)
(* one that was settled before.                                            *)
LEMMA SettledMaps ==
    ASSUME Inv, NEW r \in Readers, AtLine(r), Settled(r)
    PROVE  Outbox!Settle \/ UNCHANGED Outbox!logVars
  <1>1. job[r] \in Jobs /\ high \in Nat /\ Len(lines) \in Nat
    BY DEF Inv, TypeOK, RecorderTypeOK
  <1>2. job[r].at <= high + 1 /\ job[r].at <= Len(lines)
    BY <1>1 DEF Inv, AtLine, Window, Jobs
  <1>3. lines' = lines /\ offset' = offset
        /\ high' = IF job[r].at > high THEN job[r].at ELSE high
    BY DEF Settled, recorderVars
  <1>4. CASE job[r].at > high
    BY <1>1, <1>2, <1>3, <1>4 DEF Jobs, Outbox!Settle
  <1>5. CASE ~(job[r].at > high)
    BY <1>1, <1>3, <1>5 DEF Jobs, Outbox!logVars
  <1> QED  BY <1>4, <1>5

LEMMA NextMaps ==
    ASSUME Inv, [Next]_vars
    PROVE  [Outbox!LogNext]_(Outbox!logVars)
  <1> USE DEF Outbox!LogNext
  <1>1. CASE Recorder /\ UNCHANGED relayVars
    <2>1. lines' = lines \/ \E line \in Lines : lines' = Append(lines, line)
      BY <1>1, RecorderKeeps DEF Inv, TypeOK
    <2>2. high' = high /\ offset' = offset  BY <1>1 DEF relayVars
    <2> QED  BY <2>1, <2>2 DEF Outbox!AppendEntry, Outbox!logVars
  <1>2. ASSUME NEW r \in Readers, Take(r) \/ Works(r)
        PROVE  [Outbox!LogNext]_(Outbox!logVars)
    <2>1. CASE Take(r) \/ Retry(r) \/ WriteFails(r)
      BY <2>1 DEF Take, Retry, WriteFails, Abandon, recorderVars, Outbox!logVars
    <2>2. CASE Suppress(r)  BY <2>2, SettledMaps DEF Suppress
    <2>3. CASE Export(r)  BY <2>3, SettledMaps DEF Export, Exportable
    <2>4. CASE Swallow(r)  BY <2>4, SettledMaps DEF Swallow, DeadLetter, Exportable
    <2>5. CASE Poison(r)  BY <2>5, SettledMaps DEF Poison, DeadLetter, OutOfTries
    <2>6. CASE Commit(r)
      <3>1. offset' \in (offset + 1)..high
        BY <2>6, CommitMoves DEF Inv, TypeOK
      <3> QED  BY <2>6, <3>1 DEF Commit, recorderVars, Outbox!Ack
    <2> QED  BY <1>2, <2>1, <2>2, <2>3, <2>4, <2>5, <2>6 DEF Works
  <1>3. CASE CrashRelay
    BY <1>3 DEF CrashRelay, recorderVars, Outbox!logVars
  <1>4. CASE UNCHANGED vars
    BY <1>4 DEF vars, recorderVars, relayVars, Outbox!logVars
  <1> QED  BY <1>1, <1>2, <1>3, <1>4 DEF Next

(* The relay is an at-least-once reader of the black box: every entry is   *)
(* settled in order before the reader forgets it, across crashes, failed   *)
(* writes and concurrent readers.                                          *)
THEOREM RelayKeepsOutbox == Spec => KeepsOutbox
  <1>1. Init => Outbox!LogInit
    BY DEF Init, RecorderInit, Outbox!LogInit
  <1>2. Inv /\ [Next]_vars => [Outbox!LogNext]_(Outbox!logVars)
    BY NextMaps
  <1> QED
    BY <1>1, <1>2, Invariance, PTL DEF Spec, KeepsOutbox, Outbox!LogSpec

-----------------------------------------------------------------------------
(***************************************************************************)
(* No line is exported twice.                                              *)
(***************************************************************************)

(* The readers are past line n: it will not be looked at again, unless a   *)
(* crash or a failed write takes a reader back.                            *)
Past(n) == n <= offset \/ \E r \in Readers : job[r].busy /\ n < job[r].at

ExportInvariant ==
    crashes + errors = 0 =>
        /\ \A j, k \in DOMAIN sent : sent[j] = sent[k] => j = k
        /\ \A k \in DOMAIN sent : Past(sent[k])

(* A reader that works leaves every line behind that it has passed.        *)
LEMMA SettledPasses ==
    ASSUME Inv, NEW r \in Readers, AtLine(r), Settled(r), NEW n \in Nat
    PROVE  /\ Past(n) => Past(n)'
           /\ n = job[r].at => ~Past(n) /\ Past(n)'
  <1>1. /\ job \in [Readers -> Jobs] /\ job[r] \in Jobs /\ job[r].busy /\ Window(r)
        /\ offset \in Nat
    BY DEF Inv, TypeOK, AtLine
  <1>2. /\ offset' = offset
        /\ job' = [job EXCEPT ![r] = Work(job[r].at + 1, job[r].upto, 0)]
    BY DEF Settled
  <1>3. job'[r].busy /\ job'[r].at = job[r].at + 1
    BY <1>1, <1>2 DEF Work
  <1>4. \A s \in Readers \ {r} : ~job[s].busy  BY <1>1, OthersRest
  <1>5. Past(n) <=> n <= offset \/ n < job[r].at
    BY <1>1, <1>4 DEF Past
  <1>6. n < job'[r].at => Past(n)'
    BY <1>3 DEF Past
  <1>7. n <= offset => Past(n)'
    BY <1>2 DEF Past
  <1>8. job[r].at \in Nat /\ offset < job[r].at
    BY <1>1 DEF Jobs, Window
  <1> QED  BY <1>1, <1>3, <1>5, <1>6, <1>7, <1>8

(* The other steps, but for a crash and a failed write, take none back.    *)
LEMMA OthersPass ==
    ASSUME Inv, NEW r \in Readers, Take(r) \/ Retry(r) \/ Commit(r), NEW n \in Nat, Past(n)
    PROVE  Past(n)'
  <1>1. /\ job \in [Readers -> Jobs] /\ job[r] \in Jobs /\ offset \in Nat
        /\ Window(r)
    BY DEF Inv, TypeOK
  <1>2. CASE Take(r)
    <2>1. \A s \in Readers : ~job[s].busy
      BY <1>2, RelayAssumption DEF Take, LockFree, Inv, Window
    <2>2. n <= offset  BY <2>1 DEF Past
    <2> QED  BY <1>2, <2>2 DEF Take, Past
  <1>3. CASE Retry(r)
    <2>1. job' = [job EXCEPT ![r] = Work(job[r].at, job[r].upto, job[r].tries + 1)]
          /\ offset' = offset
      BY <1>3 DEF Retry
    <2>2. \A s \in Readers : job[s].busy => job'[s].busy /\ job'[s].at = job[s].at
      BY <1>1, <2>1 DEF Work
    <2> QED  BY <2>1, <2>2 DEF Past
  <1>4. CASE Commit(r)
    <2>1. job[r].busy /\ job[r].at > job[r].upto /\ offset' = job[r].upto
      BY <1>4 DEF Commit, Consumed
    <2>2. \A s \in Readers \ {r} : ~job[s].busy  BY <2>1, OthersRest
    <2>3. n <= offset \/ n < job[r].at  BY <2>2 DEF Past
    <2>4. n <= offset'
      BY <1>1, <2>1, <2>3 DEF Window, Jobs
    <2> QED  BY <2>4 DEF Past
  <1> QED  BY <1>2, <1>3, <1>4

LEMMA ExportedOnceStep == Inv /\ ExportInvariant /\ [Next]_vars => ExportInvariant'
  <1> SUFFICES ASSUME Inv, ExportInvariant, [Next]_vars, crashes' + errors' = 0
               PROVE  /\ \A j, k \in DOMAIN sent' : sent'[j] = sent'[k] => j = k
                      /\ \A k \in DOMAIN sent' : Past(sent[k])'
    BY DEF ExportInvariant
  <1>0. /\ sent \in Seq(Nat) /\ crashes \in Nat /\ errors \in Nat
        /\ \A k \in DOMAIN sent : sent[k] \in Nat
    BY DEF Inv, TypeOK
  <1>1. ASSUME sent' = sent, crashes' = crashes, errors' = errors,
               \A n \in Nat : Past(n) => Past(n)'
        PROVE  /\ \A j, k \in DOMAIN sent' : sent'[j] = sent'[k] => j = k
               /\ \A k \in DOMAIN sent' : Past(sent[k])'
    <2>1. /\ \A j, k \in DOMAIN sent : sent[j] = sent[k] => j = k
          /\ \A k \in DOMAIN sent : Past(sent[k])
      BY <1>1 DEF ExportInvariant
    <2>2. ASSUME NEW k \in DOMAIN sent' PROVE Past(sent[k])'
      <3>1. sent[k] \in Nat /\ Past(sent[k])  BY <1>0, <1>1, <2>1
      <3>2. ASSUME NEW n \in Nat, n = sent[k] PROVE Past(n)'
        BY <1>1, <3>1, <3>2
      <3> QED  BY <1>1, <3>1, <3>2
    <2> QED  BY <1>1, <2>1, <2>2
  <1>2. CASE Recorder /\ UNCHANGED relayVars
    BY <1>1, <1>2 DEF relayVars, Past
  <1>3. ASSUME NEW r \in Readers, Export(r)
        PROVE  /\ \A j, k \in DOMAIN sent' : sent'[j] = sent'[k] => j = k
               /\ \A k \in DOMAIN sent' : Past(sent[k])'
    <2>1. AtLine(r) /\ Settled(r)  BY <1>3 DEF Export, Exportable
    <2>2. crashes' = crashes /\ errors' = errors  BY <2>1 DEF Settled
    <2>3. /\ \A j, k \in DOMAIN sent : sent[j] = sent[k] => j = k
          /\ \A k \in DOMAIN sent : Past(sent[k])
      BY <2>2 DEF ExportInvariant
    <2>4. /\ sent' \in Seq(Nat) /\ Len(sent') = Len(sent) + 1
          /\ \A k \in 1..Len(sent) : sent'[k] = sent[k]
          /\ sent'[Len(sent) + 1] = job[r].at
      BY <1>3, ExportSends
    <2>5. Len(sent) \in Nat /\ DOMAIN sent = 1..Len(sent) /\ DOMAIN sent' = 1..(Len(sent) + 1)
      BY <1>0, <2>4
    <2>6. \A k \in DOMAIN sent' : k \in DOMAIN sent \/ k = Len(sent) + 1
      BY <2>5
    <2>7. job[r].at \in Nat  BY <2>1, LineIsLine
    <2>8. \A k \in DOMAIN sent : sent[k] # job[r].at
      BY <1>0, <2>1, <2>3, <2>7, SettledPasses
    <2>9. ASSUME NEW n \in Nat, Past(n) \/ n = job[r].at PROVE Past(n)'
      BY <2>1, <2>9, SettledPasses
    <2>10. ASSUME NEW k \in DOMAIN sent' PROVE Past(sent[k])'
      <3>1. ASSUME NEW n \in Nat, n = sent'[k] PROVE Past(n)'
        <4>1. CASE k \in DOMAIN sent
          <5>1. n = sent[k]  BY <2>4, <2>5, <3>1, <4>1
          <5> QED  BY <2>3, <2>9, <4>1, <5>1
        <4>2. CASE k = Len(sent) + 1
          BY <2>4, <2>9, <3>1, <4>2
        <4> QED  BY <2>6, <4>1, <4>2
      <3>2. sent'[k] \in Nat  BY <2>4, <2>5
      <3> QED  BY <3>1, <3>2
    <2>11. ASSUME NEW j \in DOMAIN sent', NEW k \in DOMAIN sent', sent'[j] = sent'[k]
           PROVE  j = k
      BY <2>3, <2>4, <2>5, <2>6, <2>8, <2>11
    <2> QED  BY <2>10, <2>11
  <1>4. ASSUME NEW r \in Readers, Suppress(r) \/ Swallow(r) \/ Poison(r)
        PROVE  /\ \A j, k \in DOMAIN sent' : sent'[j] = sent'[k] => j = k
               /\ \A k \in DOMAIN sent' : Past(sent[k])'
    <2>1. AtLine(r) /\ Settled(r) /\ sent' = sent
      BY <1>4 DEF Suppress, Swallow, Poison, DeadLetter, Exportable, OutOfTries
    <2>2. crashes' = crashes /\ errors' = errors  BY <2>1 DEF Settled
    <2>3. \A n \in Nat : Past(n) => Past(n)'  BY <2>1, SettledPasses
    <2> QED  BY <1>1, <2>1, <2>2, <2>3
  <1>5. ASSUME NEW r \in Readers, Take(r) \/ Retry(r) \/ Commit(r)
        PROVE  /\ \A j, k \in DOMAIN sent' : sent'[j] = sent'[k] => j = k
               /\ \A k \in DOMAIN sent' : Past(sent[k])'
    <2>1. sent' = sent /\ crashes' = crashes /\ errors' = errors
      BY <1>5 DEF Take, Retry, Commit
    <2>2. \A n \in Nat : Past(n) => Past(n)'  BY <1>5, OthersPass
    <2> QED  BY <1>1, <2>1, <2>2
  <1>6. ~CrashRelay /\ \A r \in Readers : ~WriteFails(r)
    BY <1>0 DEF CrashRelay, WriteFails, Abandon
  <1>7. CASE UNCHANGED vars
    BY <1>1, <1>7 DEF vars, relayVars, Past
  <1> QED  BY <1>2, <1>3, <1>4, <1>5, <1>6, <1>7 DEF Next, Works

(* I8: the readers of a workflow export no line twice, unless a crash or a *)
(* failed write has taken one back, for any number of readers.             *)
THEOREM LinesExportedOnce == Spec => []ExportedOnce
  <1>1. Init => ExportInvariant
    BY DEF Init, ExportInvariant
  <1>2. ExportInvariant => ExportedOnce  BY DEF ExportInvariant, ExportedOnce
  <1> QED
    BY <1>1, <1>2, ExportedOnceStep, Invariance, PTL DEF Spec

-----------------------------------------------------------------------------
(***************************************************************************)
(* The hash chain and the bundles.                                         *)
(***************************************************************************)

(* A line that parses carries the hash of the one before it; after a line  *)
(* that does not, the chain starts anew.                                   *)
Before(text, i) == IF i = 1 \/ text[i - 1].id = Garbled THEN Zero ELSE text[i - 1].id

Chained(text) ==
    \A i \in DOMAIN text : text[i].id # Garbled => text[i].prev = Before(text, i)

ChainInvariant == \A text \in Readings : Chained(text)

(* A trace that parses throughout is one chain.                            *)
LEMMA ChainedIsValid ==
    ASSUME NEW text \in Seq(Lines), Chained(text), ~Raises(text)
    PROVE  ChainValid(text)
  <1>1. \A i \in DOMAIN text : text[i].prev = Before(text, i)
    BY DEF Chained, Raises
  <1>2. \A i \in DOMAIN text : i # 1 => i - 1 \in DOMAIN text
    OBVIOUS
  <1> QED  BY <1>1, <1>2 DEF Before, ChainValid, Raises

(* A line that is garbled or carries the hash of the tail goes on with the *)
(* chain.                                                                  *)
LEMMA AppendChained ==
    ASSUME NEW text \in Seq(Lines), Chained(text), NEW line \in Lines,
           line.id = Garbled \/ line.prev = PrevHash(text)
    PROVE  Chained(Append(text, line))
  <1> DEFINE longer == Append(text, line)
  <1>1. Len(text) \in Nat /\ DOMAIN longer = 1..(Len(text) + 1) /\ DOMAIN text = 1..Len(text)
    OBVIOUS
  <1>2. /\ \A i \in 1..Len(text) : longer[i] = text[i]
        /\ longer[Len(text) + 1] = line
    OBVIOUS
  <1>3. ASSUME NEW i \in 1..Len(text), longer[i].id # Garbled
        PROVE  longer[i].prev = Before(longer, i)
    BY <1>1, <1>2, <1>3 DEF Chained, Before
  <1>4. ASSUME line.id # Garbled
        PROVE  line.prev = Before(longer, Len(text) + 1)
    <2>1. CASE Len(text) = 0
      <3>1. text = <<>>  BY <2>1
      <3> QED  BY <1>4, <2>1, <3>1 DEF PrevHash, Before
    <2>2. CASE Len(text) # 0
      <3>1. Len(text) \in 1..Len(text) /\ text # <<>>  BY <1>1, <2>2
      <3>2. longer[Len(text)] = text[Len(text)]  BY <1>2, <3>1
      <3> QED  BY <1>1, <1>4, <2>2, <3>1, <3>2 DEF PrevHash, Before
    <2> QED  BY <2>1, <2>2
  <1> QED  BY <1>1, <1>2, <1>3, <1>4 DEF Chained

LEMMA LinesChained ==
    ASSUME RecorderTypeOK, ChainInvariant
    PROVE  Chained(lines)
  <1>1. CASE tail.st = "none"  BY <1>1 DEF ChainInvariant, Readings
  <1>2. CASE tail.st # "none"
    <2> DEFINE longer == Append(lines, Unreadable)
    <2>1. Chained(longer)  BY <1>2 DEF ChainInvariant, Readings
    <2>2. lines \in Seq(Lines)  BY DEF RecorderTypeOK
    <2>3. /\ Len(lines) \in Nat /\ DOMAIN lines = 1..Len(lines)
          /\ DOMAIN longer = 1..(Len(lines) + 1)
          /\ \A i \in 1..Len(lines) : longer[i] = lines[i]
      BY <2>2
    <2>4. ASSUME NEW i \in 1..Len(lines)  PROVE Before(longer, i) = Before(lines, i)
      BY <2>3 DEF Before
    <2> QED  BY <2>1, <2>3, <2>4 DEF Chained
  <1> QED  BY <1>1, <1>2

LEMMA ChainStep == Inv /\ ChainInvariant /\ [Next]_vars => ChainInvariant'
  <1> SUFFICES ASSUME Inv, ChainInvariant, [Next]_vars PROVE ChainInvariant'
    OBVIOUS
  <1>0. RecorderTypeOK /\ lines \in Seq(Lines) /\ tail.line \in Lines
    BY DEF Inv, TypeOK, RecorderTypeOK, Tails
  <1>1. Chained(lines) /\ Unreadable \in Lines /\ Unreadable.id = Garbled
    BY <1>0, LinesChained DEF Unreadable, Lines
  <1>2. Chained(Append(lines, Unreadable))  BY <1>0, <1>1, AppendChained
  <1>3. ASSUME NEW e \in Events, Record(e)  PROVE ChainInvariant'
    <2>1. PICK text \in Readings :
             LET line == Written(e, PrevHash(text))
             IN  \/ lines' = Append(lines, line) /\ tail' = NoTail
                 \/ tail' = [st |-> "writing", line |-> line] /\ UNCHANGED lines
      BY <1>3 DEF Record
    <2> DEFINE line == Written(e, PrevHash(text))
    <2>2. line \in Lines  BY <1>0, WrittenIsLine
    <2>3. line.id = Garbled \/ line.prev = PrevHash(lines)
      <3>1. CASE tail.st = "torn"  BY <3>1 DEF Written, Unreadable
      <3>2. CASE tail.st # "torn"
        <4>1. tail.st = "none"
          BY <1>3, <3>2 DEF Record, Inv, TypeOK, RecorderTypeOK, Tails
        <4>2. text = lines  BY <2>1, <4>1 DEF Readings
        <4> QED  BY <3>2, <4>2 DEF Written
      <3> QED  BY <3>1, <3>2
    <2>4. Chained(Append(lines, line))  BY <1>0, <1>1, <2>2, <2>3, AppendChained
    <2>5. CASE lines' = Append(lines, line) /\ tail' = NoTail
      BY <2>4, <2>5 DEF ChainInvariant, Readings, NoTail
    <2>6. CASE tail' = [st |-> "writing", line |-> line] /\ UNCHANGED lines
      BY <1>2, <2>4, <2>6 DEF ChainInvariant, Readings
    <2> QED  BY <2>1, <2>5, <2>6
  <1>4. CASE RecordRest
    <2>1. Append(lines, tail.line) \in Readings  BY <1>4 DEF RecordRest, Readings
    <2>2. Chained(Append(lines, tail.line))  BY <2>1 DEF ChainInvariant
    <2> QED  BY <1>4, <2>2 DEF RecordRest, ChainInvariant, Readings, NoTail
  <1>5. CASE CrashRecorder
    <2>1. tail'.st = "torn" /\ tail'.line = tail.line /\ lines' = lines /\ tail.st = "writing"
      BY <1>5 DEF CrashRecorder, Inv, TypeOK, RecorderTypeOK, Tails
    <2> QED  BY <2>1 DEF ChainInvariant, Readings
  <1>6. CASE UNCHANGED <<lines, tail>>
    BY <1>6 DEF ChainInvariant, Readings
  <1>7. ASSUME NEW r \in Readers, Take(r) \/ Works(r)  PROVE UNCHANGED <<lines, tail>>
    BY <1>7 DEF Take, Works, Suppress, Export, Swallow, Retry, Poison, Commit, WriteFails,
                Abandon, DeadLetter, Settled, recorderVars
  <1>8. CASE CrashRelay \/ UNCHANGED vars
    BY <1>6, <1>8 DEF CrashRelay, vars, recorderVars
  <1> QED  BY <1>3, <1>4, <1>5, <1>6, <1>7, <1>8 DEF Next, Recorder

(* What a step may do to the bundles: only Publish adds one.               *)
LEMMA BundleStep ==
    ASSUME Inv, [Next]_vars
    PROVE  \/ UNCHANGED bundles /\ (CrashRelay \/ UNCHANGED <<published, crashes>>)
           \/ Publish /\ UNCHANGED crashes
  <1>1. ASSUME NEW r \in Readers, Take(r) \/ Works(r)
        PROVE  UNCHANGED crashes /\ (UNCHANGED <<bundles, published>> \/ Publish)
    BY <1>1 DEF Take, Works, Suppress, Export, Swallow, Retry, Poison, Commit, WriteFails,
                Abandon, DeadLetter, Settled
  <1>2. CASE CrashRelay  BY <1>2 DEF CrashRelay
  <1>3. CASE Recorder /\ UNCHANGED relayVars  BY <1>3 DEF relayVars
  <1>4. CASE UNCHANGED vars  BY <1>4 DEF vars, relayVars
  <1> QED  BY <1>1, <1>2, <1>3, <1>4 DEF Next

BundleInvariant ==
    /\ BundlesVerify
    /\ Len(bundles) <= crashes + (IF published THEN 1 ELSE 0)

LEMMA BundleInvariantStep ==
    Inv /\ ChainInvariant /\ BundleInvariant /\ [Next]_vars => BundleInvariant'
  <1> SUFFICES ASSUME Inv, ChainInvariant, BundleInvariant, [Next]_vars
               PROVE  BundleInvariant'
    OBVIOUS
  <1>1. /\ bundles \in Seq(BOOLEAN) /\ Len(bundles) \in Nat /\ crashes \in Nat
        /\ published \in BOOLEAN /\ RecorderTypeOK
    BY DEF Inv, TypeOK
  <1>2. CASE UNCHANGED bundles /\ UNCHANGED <<published, crashes>>
    BY <1>2 DEF BundleInvariant, BundlesVerify
  <1>3. CASE UNCHANGED bundles /\ CrashRelay
    <2>1. crashes' = crashes + 1 /\ published' = FALSE  BY <1>3 DEF CrashRelay
    <2>2. Len(bundles) <= crashes + 1  BY <1>1 DEF BundleInvariant
    <2> QED  BY <1>1, <1>3, <2>1, <2>2 DEF BundleInvariant, BundlesVerify
  <1>4. CASE Publish /\ UNCHANGED crashes
    <2>1. CASE published
      BY <1>4, <2>1 DEF Publish, BundleInvariant, BundlesVerify
    <2>2. CASE ~published
      <3>1. published' = TRUE  BY <1>4, <2>2 DEF Publish
      <3>2. PICK text \in Readings :
              \/ ~Raises(text) /\ bundles' = Append(bundles, ChainValid(text))
              \/ UNCHANGED bundles
        BY <1>4, <2>2 DEF Publish
      <3>3. Len(bundles) <= crashes  BY <1>1, <2>2 DEF BundleInvariant
      <3>4. CASE ~Raises(text) /\ bundles' = Append(bundles, ChainValid(text))
        <4>1. ChainValid(text) = TRUE
          <5>1. text \in Seq(Lines)  BY <1>1, ReadingIsText
          <5>2. Chained(text)  BY <3>2 DEF ChainInvariant
          <5>3. ChainValid(text)  BY <3>4, <5>1, <5>2, ChainedIsValid
          <5> QED  BY <5>3 DEF ChainValid
        <4>2. bundles' = Append(bundles, TRUE)  BY <3>4, <4>1
        <4>3. /\ Len(bundles') = Len(bundles) + 1
              /\ \A k \in DOMAIN bundles' : bundles'[k]
          BY <1>1, <4>2 DEF BundleInvariant, BundlesVerify
        <4> QED  BY <1>1, <1>4, <3>1, <3>3, <4>3 DEF BundleInvariant, BundlesVerify
      <3>5. CASE UNCHANGED bundles
        BY <1>1, <1>4, <3>1, <3>3, <3>5 DEF BundleInvariant, BundlesVerify
      <3> QED  BY <3>2, <3>4, <3>5
    <2> QED  BY <2>1, <2>2
  <1> QED  BY <1>2, <1>3, <1>4, BundleStep

LEMMA BundleInvariance == Spec => []BundleInvariant
  <1>1. Init => ChainInvariant
    BY DEF Init, RecorderInit, ChainInvariant, Readings, NoTail, Chained
  <1>2. Init => BundleInvariant
    BY DEF Init, BundleInvariant, BundlesVerify
  <1> QED
    BY <1>1, <1>2, ChainStep, BundleInvariantStep, Invariance, PTL DEF Spec

(* The recorder never forks the chain (black_box.py, _prev_hash): a bundle *)
(* that is published finds it intact, whatever was torn and joined.        *)
THEOREM BundlesFindChain == Spec => []BundlesVerify
  <1>1. BundleInvariant => BundlesVerify  BY DEF BundleInvariant
  <1> QED  BY <1>1, BundleInvariance, PTL

(* One bundle for each life of the relay, however often the completion is  *)
(* exported.                                                               *)
THEOREM BundlePublishedOnce == Spec => []BundlesOnce
  <1>1. Inv /\ BundleInvariant => BundlesOnce
    BY DEF Inv, TypeOK, BundleInvariant, BundlesOnce
  <1> QED  BY <1>1, Invariance, BundleInvariance, PTL
=============================================================================
