# TLA+ models of AgentsFramework

Specifications, model-checking configurations and machine-checked proofs for
the parts of this repository in which several actors change shared state under
failure:

* the **timed exam** of the learning front end: a page that queues rows,
  mirrors the queue in `localStorage` and flushes it over an unreliable
  network, and repository code that closes and scores a section by several
  database requests;
* the **practice quiz**: a page that grades an answer at once and saves it
  afterwards, with retries, a priced escape, a session that closes itself and
  reloads that resume it;
* the **black box and its relay**: a hash-chained trace file and the readers
  that tail it to an exporter under a lock and a durable offset;
* the **agent thread**: the ReAct graph over channels that outlive a turn, a
  cancelled stream and a crash of the process.

Paths below are relative to the repository root. `PROJECT.json` links every
definition to the lines it models, every run to its properties, every property
to a mutant of the model that breaks it, and every hazard to the properties
that cover it.

## 1. Inventory

### Exam

| component | source | state | operations |
|---|---|---|---|
| row merge | `frontend/components/exam/exam_dwell_merge.ts` | none | `mergeExamDwell`, used by the client queue and by the server upsert |
| write buffer | `frontend/components/exam/exam_write_buffer.ts` | `pending` map, `localStorage` mirror, debounce/backoff timer, `inFlight`, `notSavedFlag` | `enqueue`, `flushNow`, timer, `doFlush` success/failure, gate, load, dispose |
| section reducer | `frontend/components/exam/exam_section_reducer.ts` | phase, finish status, items, current question, visit start, hidden, blank confirmation | begin, tick, navigate, answer, clear, flag, submit / confirm / cancel, visibility |
| section session | `frontend/components/exam/use_exam_section.ts` | reducer state, save notice, queue of operations (`tail`) | `begin`, `dispatch`, `reconnect`, lifecycle handlers |
| section page | `frontend/app/(coach)/learn/exam/[runId]/[section]/page.tsx`, `ExamSectionLive.tsx` | loaded attempt and items | load, begin, one-second tick |
| exam tables | `frontend/lib/adapters/engine/db/drizzle_engine_db.ts`, `in_memory_engine_db.ts` | attempts, item rows, composite | begin, upsert, finish, composite, bookmark transactions |
| scoring | `frontend/components/exam/exam_scoring.ts`, `frontend/lib/adapters/engine/exam_server_grade.ts` | none | section score, composite, grading of rows |
| run repository | `frontend/lib/adapters/engine/repos/drizzle_exam_run_repo.ts` | what it has read and not yet used | `beginSection`, `upsertItems`, `finishSection`, `setBookmark` |

The page **calls** the session; the session runs its operations one after the
other through a promise chain, runs the **reducer**, and **enqueues** every row
the reducer rebuilt. The buffer **sends** rows through `repo.upsertItems`.
`pagehide`, `visibilitychange` and the buffer's timers are **callbacks** that
run while an operation awaits. The repository makes **several requests** per
call, and the database **locks the run row** within one transaction only.

Hard: an edit made while the flush that carries its older version is in flight;
a caller that joins a flush that does not carry its rows; a lifecycle handler
between a submit's flush and its finish; lost requests and replies; a reload
anywhere; a deadline that passes while operations queue; two callers inside
`finishSection`, or one that goes away in the middle of it.

Correct means: replaying or reordering rows never lowers a counter or drops a
row; no edit leaves the queue before the server has it, the mirror is the queue
and a flush that is answered with success is true; no answer is lost,
"submitted" is never a lie, a finished section stays finished, the deadline ends
the section on the page; one section of a run is in progress, deadlines are
kept, results are frozen, scores fit rows, a composite is never partial.

### Practice quiz

| component | source | state | operations |
|---|---|---|---|
| page | `frontend/app/(coach)/learn/quiz/page.tsx`, `frontend/components/quiz/use_quiz.ts`, `quiz_screen_reducer.ts` | phase, item, coached loop, score, pending answer and its key, persist notice, `closing` | resume, load, submit, retry, escape, next, finish, end session, completion effect |
| engine routes | `frontend/app/api/engine/next`, `session/active`, `session/current`, `session/close`, `db/[method]` | none | next item and tally, resume, pointer write, close, attempt write (answers and escapes) |
| tally | `frontend/lib/bff/engine_tally.ts`, `frontend/lib/translators/resolving_attempt.ts` | none | newest attempt of each question decides |
| attempt and session rows | `frontend/lib/adapters/engine/repos/drizzle_attempt_repo.ts`, `frontend/lib/adapters/engine/db/` | attempts with idempotency key, session row with score and pointer | insert if new, patch close, set pointer |
| review | `frontend/lib/adapters/engine/scheduler/fsrs_scheduler.ts` | the skill's card | review |

The page shows the verdict **before** it writes. A write is one request, its
review a second; the pointer's is not waited for. Every request may be lost
before or after it takes effect. Hard: the screen, the tally of the server and
the card drifting apart; a retry under the key of another answer; a reload with
requests under way; the effect that closes the session racing a failed write and
a second close. Correct means: only stored attempts move a card, the screen
claims no first try that the server does not count, no page asks a question
twice, the session does not run past its target, a write is acknowledged or reported,
and a complete session closes.

### Black box and relay

| component | source | state | operations |
|---|---|---|---|
| recorder | `services/governance/black_box.py` | `trace.jsonl` of a workflow | `record` (tail read, then write), `export` with the check of the chain |
| relay | `middleware/sidecars/black_box_to_telemetry.py` | offset file, dead-letter file, per-workflow lock, bundles published | `run_forever` poll, drain after a stream, export with retries, dead letter, offset, compliance bundle |

The recorder **appends** while the relay **reads** the same file, and the poll
and a request's drain are two callers of `_process_workflow`. Hard: half a line
at the end of the file, a crash between exporting lines and moving the offset,
an exporter that swallows its failure, a dead-letter write that fails too.
Correct means: no line is skipped, a line is sent twice only after a crash or a
failed write, a published bundle finds the chain intact, every line is consumed
in the end.

### Agent thread

| component | source | state | operations |
|---|---|---|---|
| graph | `orchestration/react_loop.py`, `orchestration/state.py` | the thread's channels, the checkpointed next node, `_completion_emitted` in memory | guard, route, model call, authorization, tools, evaluation, reflection, recap |
| rules | `components/evaluator.py`, `reflexion.py`, `router.py` | none | `check_continuation`, `classify_outcome`, `evaluate_task_outcome`, `reflections_for_task` |
| runtime | `agent_ui_adapter/adapters/runtime/langgraph_runtime.py` | none | new turn, resume |

A turn's input goes **over** the channels that the turns before it left; nothing
resets them. Hard: a guard that must run on a new turn and not on a resume,
verdicts and counters of an earlier turn read as this one's, a node that is cut
off after its side effects, limits that are looked at after the fact, model
calls that no budget knows. Correct means: the guard comes before the model in
every turn, steps, spend and reflections are bounded over the whole thread, a
completion is recorded once, a thread rests on a failure only with the turn's own
reflections used, its budget spent or its input rejected, every stream ends.

### Not modelled

| component | source | why |
|---|---|---|
| exam home | `frontend/components/exam/use_exam_home.ts` | lists the runs and starts one in two requests; no rule of the server makes the run unique, so there is no promise to check. Once a run exists, the repository's guard is modelled |
| forms, review, analytics, item and hint banks | `frontend/components/exam/exam_forms/`, `exam_analytics.ts`, `frontend/lib/adapters/engine/_hint_bank.ts`, `_test_item_bank.ts` | static content and pure projections; the two banks alone are two thirds of the repository's source lines |
| coach and chat front end | `frontend/components/coach`, `chat`, `frontend/app/chat-shell.tsx` | view models of what a stream sends |
| telemetry bridge, middleware server | `middleware/` | per-trace buffers of concurrent streams; next in the plan |
| approval gate, supervisor, workers | `orchestration/` | an interrupt inside one tool node, and a fan-out that is off by default; next in the plan |
| FSRS arithmetic, selection among items | `frontend/lib/adapters/engine/scheduler` | reals; the choice is left open |
| services, trust kernel | `services/`, `trust/` | stateless checks and data types |
| reasoning tools, dashboards, evaluation, infrastructure | `StructuredReasoning/`, `explainability_app/`, `meta/`, `infra/`, … | offline, read-only or data |

## 2. Modules

```
ExamRows ──────────┬── ExamStore ── ExamRunRepo ── MCExamRunRepo
 rows and merge    │    tables,       callers        ExamRunRepoProofs
                   │    scoring
                   ├── ExamWriteBuffer ─┬─ ExamBufferUse ── MCExamBufferUse
                   │    the buffer      │   buffer + server  ExamBufferProofs
                   │                    │      implements DurableAnswers
                   │                    └─ ExamSection ── MCExamSection
                   │                        page +          ExamSectionProofs
                   │                        session + buffer + server
                   └── ExamRowsProofs

QuizStore ── QuizSession ── MCQuizSession, QuizSessionProofs ── QuizScoreProofs
 rows, tally   pages, requests, server      types, rows, keys     the tally

BlackBoxRecorder ── BlackBoxRelay ── MCBlackBoxRelay, BlackBoxRelayProofs
 file and chain      readers, lock, offset
                       implements AtLeastOnceLog

AgentThread ── AgentThreadProofs
```

* **`ExamRows`** — a row is `letter`, `dwell`, `first` answer time, `stamp`
  (`updated_at`), `correct` verdict, `bookmarked`. A *sheet* gives every
  question a row or `NoRow`; it stands for the `pending` map, for the request
  body and for the rows of one section. `MergeExamDwell` is the shared merge,
  `UpsertSheet` the server's upsert.
* **`ExamStore`** — `attempt`, `item`, `composite` and one operator per
  transaction, written in the code's guards. `begin`, `upsert` and `finish`
  lock the run row, so a transaction is one atomic step.
* **`ExamRunRepo`** — `call[d]` is what caller `d` is doing and what it has
  read. `finishSection` is six steps: first read (`FinishSection`), read and
  grade (`ReadAndGrade`), write verdicts (`GradedUpsert`), close
  (`CloseRequest`), read again (`Reread`) and write the composite (`Compose`).
  `Drop` lets a caller vanish between two requests; an upsert whose reply is
  lost is sent again. The deadline and the final status come from the caller's
  own clock, as in the code.
* **`ExamWriteBuffer`** — actions of the buffer without the one who uses it:
  `EnqueueRows`, `FlushRows` (enqueue and `flushNow` in one JavaScript turn),
  `TimerFires`, `FlushSucceeds` with compare-before-delete (`LeftQueued`),
  `FlushFails`, `Restart`. `flight` is the request and whether it has been
  applied; `caller` is the one that awaits `flushNow`.
* **`ExamBufferUse`** — the buffer, a page that edits and asks for flushes at
  any time, and the server's rows. `latest` is a history variable.
* **`DurableAnswers`** — the abstract specification: edits become durable in
  any order and any number; an acknowledgement says that everything edited so
  far is durable.
* **`ExamSection`** — the reducer's state (`phase`, `finishStatus`, `cur`,
  `live`, `visit`, `hidden`, `blank`), the running operation `op` with the
  state `next` a submit will switch to, the save notice, the buffer and the
  server's attempt. Learner actions need `op` at rest; timers and lifecycle
  handlers do not. A request is sent, applied, and answered in separate steps,
  and may be lost at each. `Reload` builds a new page from the server's rows
  and a new buffer from the mirror. `chosen` is a history variable.
* **`QuizStore`** — the session row, the attempt rows, the card, and one
  operator per statement, since the routes use no transaction. The tally takes
  the newest row of each question (`Newest`), and `Insert` keeps the row that
  has the key already.
* **`QuizSession`** — `page[t]` is what a tab knows; `net` is the set of
  requests, each of which is served, may fail before or after, and is heard of.
  The learner's actions are `OnSubmit`, `OnRetryPersist`, `OnEscape`, `OnNext`,
  `OnFinish`, `OnEndSession` and `Reload`, which orphans the page's requests;
  the page's own are `GetActive`, `GetNext`, `Show`, `CloseExhausted` and
  `CompletionEffect`. `GetActive` and `GetNext` are what the server reads,
  `Show` and `CloseExhausted` what the page does when it hears of it, and
  `ReadFails` may come before either: between them answers land and the page may
  be reloaded. A close is two statements (`TallyForClose`, `ServeClose`), as in
  its route. `asked` is a history variable: what a page has asked, and what was
  answered when it was mounted.
* **`BlackBoxRecorder`** — the file as terminated lines and a tail that may be
  half written or torn; `Record` reads the last line's hash and begins a line,
  `RecordRest` ends it, `CrashRecorder` tears it, and the next line is joined to
  it (a line that does not parse). `ChainValid` is the check of the export.
* **`BlackBoxRelay`** — each reader takes the lock and the window up to the
  last newline (`Take`), settles line after line (`Suppress`, `Export`,
  `Swallow`, `Retry`, `Poison`), and moves the offset (`Commit`); a write may
  raise, the process may die anywhere. `high` is a history variable.
* **`AtLeastOnceLog`** — the abstract specification: entries are settled for the
  first time in order, and the reader forgets only settled ones.
* **`AgentThread`** — `ch` is the record of channels, one action per node. A
  node ends by `Finish`: its result is checkpointed, or it is cut off after its
  side effects by a cancelled stream (the process keeps `emitted`) or by a crash
  (it does not). `NewTurn` keeps every channel but the message, `Resume` goes on
  at the checkpointed node. `cleared`, `completed`, `billed` and `aside` are
  history variables. `billed` is what the calls of `call_llm` cost, the only
  calls that the code adds to `total_cost_usd`; `aside` counts the rounds of the
  others (`CallAside`), which the provider charges and the code counts nowhere.

Letters, questions, events and sections are model values; times are small
naturals. Where two definitions of one idea exist in the code (the Drizzle and
the in-memory database), the model is what both do.

## 3. Runs

Runs that pass:

| run | properties | what it shows |
|---|---|---|
| `repo_sections` | `TypeOK`, `OneSectionRuns`, `CompositeHonest`, `ResultFrozen`, `DwellMonotone` | two callers over two sections, requests interleaved, callers vanishing: never two running sections; a composite that is shown is right, although it is written from an old read; nothing finished changes and no counter goes back |
| `repo_solo` | `ScoreMatchesItems`, `CompositePersisted`, `DeadlineKept` | one caller, all requests arrive, a clock: score, verdicts, composite and deadline are right |
| `buffer_safety` | `TypeOK`, `NoSilentLoss`, `QueueMirrored`, `KeepsPromise` | the buffer loses nothing and implements `DurableAnswers` |
| `buffer_progress` | `FlushAnswered`, `DrainedIfAsked` | with a failing storage too, callers are answered and a queue whose caller keeps asking drains |
| `section_safety` | `TypeOK`, `NoAnswerLost`, `SubmittedIsDurable`, `FinishedWithAllAnswers` | the whole page without reloads |
| `section_reload` | `NeverReopened`, `DeadlineExpires` | a reload at any moment; the deadline ends the section on the page, however the network behaves |
| `quiz_faults` | `ReviewsBacked`, `NoFalseFirstTry`, `OverrunNeedsReload`, `AsksTheUnanswered`, `SolvedIsStored` | a fault and a reload anywhere: screen, server and card do not drift apart |
| `quiz_progress` | `AnswerSettles`, `CompletionCloses` | with requests that settle, an answer is acknowledged or reported and a complete session closes |
| `relay_log` | `NothingSkipped`, `ExportedOnce`, `BundlesVerify`, `BundlesOnce`, `KeepsOutbox`, `EventuallyConsumed` | two readers, a torn line, a failed write and a crash: the relay implements `AtLeastOnceLog`, and every line is consumed |
| `agent_thread` | `GuardedBeforeModel`, `StepsBounded`, `SpendBounded`, `ReflexionBounded`, `FailureReflected`, `CompletionOnce`, `RunEnds` | two turns with any replies, a cancelled stream and a crash in any node: every limit holds over the thread, and no failure rests unreflected for what another turn did |

Runs in which TLC finds a behaviour that a document or a comment of the
repository rules out (quoted in `PROJECT.json`):

| run | property | the behaviour |
|---|---|---|
| `section_restored_answer` | `NoAnswerLost` | after a reload the queue has the newer letter, the page the older one, and the next dwell of that question queues the older one |
| `agent_rejection_sticks` | `AcceptedTurnProceeds` | the outcome `rejected` of one turn stays in its channel; the guard accepts the next turn's input, writes no outcome, and the branch after it ends the turn without a model call |

Five of these say how far a promise goes, because the code does not keep it
further. `SpendBounded` says by how much the budget may be passed: a call of
`call_llm` that is cut off before its checkpoint is paid again. It also bounds
what the budget does not know. The guard's judge (`react_loop.py:1453`), the
planner and its understanding (`:1838`, `:1917`), the judge of the goal
(`:3371`), the critique (`:3604-3608`) and the recap (`:1063`) are charged by the
provider and are neither in `total_cost_usd` nor looked at; there are at most
three such rounds in a turn, and one more for each step, reflection and cut. The
bound is reached in the run. A round may be several calls (the planner and two
tries of the understanding) or, where a flag is off or the guard decides by
rules, none. `FailureReflected` names the three ways in which a thread may rest
on a failure: the turn's own reflections are used up, `call_llm` found the budget
spent and ended the turn, or the guard halted it. The verdict is the channel's,
which may be an earlier turn's. `AsksTheUnanswered` says that a page asks nothing
twice, and nothing that had an answer when it was mounted. An answer that a page
before a reload had under way, and that lands between the server's read and the
display or later, does not keep its question from being asked.
`OverrunNeedsReload` says when
the target may be passed: an answer under way at a reload is counted beside what
the resumed page counts. It names no number, for `Target + reloads` would be
wrong: a wrong answer that is retried after the escape is newer than the stored
escape and leaves its question uncounted when a page resumes. `NoFalseFirstTry`
looks at a screen up to the second reload: a page that resumed with a first try
of the page before it is left behind by a late wrong answer of the page between.

### Differences met without a run of their own

Exam (against `docs/plan/exam-module-official-rules.spec.md`):

* An upsert of a second device between the read and the close of
  `finishSection` is not in the score (`ScoreMatchesItems` holds for one caller
  only).
* A caller that vanishes before the composite leaves it `null` for ever: later
  calls return early. With two callers the one that read first may write its
  `null` last.
* A `flushNow` that cancels the timer and joins a flush without the newest row
  leaves that row without a timer until the next edit or reconnect.
* A persist or finish that fails after the local expiry is never tried again:
  the server keeps the section in progress, where it blocks the other sections,
  the home offers what the server refuses, and a bookmark of its review is
  refused.
* A lost reply of `finishSection` makes the next submit flush a row that the
  server refuses; the page says "not saved" until it is reloaded.
* The merge takes the incoming letter whatever its `updated_at`; the dwell that
  hiding the page queues while `finishSection` runs is unflushed when the
  section is shown as submitted; `answer` does not look at the clock.

Quiz:

* After a failed write another letter goes out under the failed answer's key
  (`page.tsx:646-652`); `use_quiz.ts:297-299` promises one key per answer
  action. The server answers with the row it has.
* The reply of an escape names no question (`page.tsx:719-722`): a late one
  resolves whatever item is in a coached loop by then.
* A wrong answer that is retried after the escape is the newest row and takes
  the item out of the tally again.
* A second close, or one that a reload left behind, overwrites the score with
  its own tally (`session/close/route.ts:38-48`); an attempt written after the
  close is stored.
* A review whose reply is lost is applied again by the retry (FR-12).
* The page "never re-serves a question already answered this session"
  (`page.tsx:389-390`); an answer of the page before a reload that lands after
  the server's read is not seen, and its question is served again.

Relay:

* Without an offset file the relay is to seek to the end of the file
  ("Forward-only on startup", `docs/plans/blackbox_to_langfuse.plan.md:177`);
  the code starts at 0 (`black_box_to_telemetry.py:204-208`), and so does the
  model. `NothingSkipped` is about the code's start.
* The bundle is remembered before it is exported: a trace that does not parse
  just then costs the bundle for the life of the process.
* An exception for one workflow ends the scan (`:136`); the workflows after it
  wait for the next poll.

Agent:

* A run that stops at the budget after a call, at the hard limit with an old
  verdict, or by the sticky rejection has no `TASK_COMPLETED` of its own.
* A denied call is to be evaluated as an error (docstring at
  `react_loop.py:2763-2767`); `evaluate_node` overwrites the outcome.
* At the hard limit the reflection is decided on whatever verdict the channel
  has; an old `backoff_until` and `no_progress_directive_sent` outlive their
  turn too.

### Bounds

| bound | values | why enough |
|---|---|---|
| exam questions, letters | 1 or 2 (and blank) | rows interact only in one snapshot, one queue and navigation; two letters tell older from newer |
| callers (`Devices`), sections | 1 or 2 | every race is between two; one running beside another, one composite of two; the theorems hold for any number, but those of `repo_solo` about scores for one caller |
| `MaxTime`, `Minutes`, `MaxEdits`, `MaxDwell` | up to 2, 2, 3, 1 | before, at and after the deadline; one row before, in and after a snapshot; a smaller and a larger counter |
| `MaxReloads` | 0 or 1 | a second reload starts from a state of the first kind |
| quiz questions, `Target` | 3 and 2, or 2 and 2 | one question beyond the target for the overrun; the last of two for the closing |
| `Tabs`, `MaxFaults`, `MaxCalls` | 1, 1, 3 or 4 | one page with its predecessor's requests under way; one fault against each request; an answer, its retry and another letter. The theorems hold for any number, but the score theorems for one page |
| `Events`, `Readers` | 3, 2 | a plain line, a suppressed one and the completion; a poll and a drain |
| `MaxTorn`, `MaxRetries`, `MaxCrashes`, `MaxErrors` | 1 | each fault once, in every combination |
| `MaxSteps`, `MaxCost`, `MaxReflexions`, `MaxTurns`, `MaxCuts` | 2, 2, 1, 2, 1 | a limit reached within a turn and one carried over; a cancellation and a crash in any node |

`section_safety` has no reload because `NoAnswerLost` fails with one
(`section_restored_answer`). `repo_solo` has one caller and no vanishing because
`ScoreMatchesItems` fails with two callers and `CompositePersisted` also when
the one vanishes. `quiz_faults` has one tab: two pages may answer one question,
and the later answer is the one that counts. `relay_log` records each event once.

The `repo_*` runs use symmetry under permutation of the callers,
`buffer_safety` of the questions and letters and `quiz_faults` of the questions:
none is named in the specification, and no symmetric run checks a leads-to.
`CHECK_DEADLOCK FALSE` stands where a run may really end: every section
finished and no caller busy (`repo_*`), the summary shown (`quiz_*`), all events
consumed (`relay_log`), the thread at rest after its last turn (`agent_*`). The
other runs check deadlock.

### Fairness

* `ExamBufferUse!FairSpec`: armed timers fire and promises settle (weak); a
  request that is sent again and again gets through in the end (strong). The
  page owes nothing: `DrainedIfAsked` is about callers that keep asking.
* `ExamSection!FairSpec`: microtasks run, requests settle one way or the other,
  and the tick is not overtaken for ever, since the session's queue is
  first-in first-out. It does not assume that any request succeeds.
* `QuizSession!FairSpec`: requests are handled and heard of, and the page's
  effects run. The learner owes nothing, and a pointer write, which nobody waits
  for, may hang for ever.
* `BlackBoxRelay!FairSpec`: `run_forever` polls at every interval, so the poll
  takes the lock when it stays free; a reader that has begun goes on, since it
  runs to its end without awaiting. The exporter may fail every time.
* `AgentThread!FairSpec`: the event loop drives a stream that was begun. Nobody
  owes a new turn or a resume.

That requests settle is an assumption about `fetch`: `http_engine_db.ts` sets no
timeout, and a request that hangs for ever stops the exam session's queue, ticks
included, and keeps the quiz page at "saving".

## 4. Proofs

TLAPS checks these for every value of the constants that satisfies the named
assumptions (`RowAssumption`, `NoRowAssumption`, `StoreAssumption`,
`RepoAssumption`, `BufferAssumption`, `UseAssumption`, `SectionAssumption`,
`QuizAssumption`, `LetterAssumption`, `SessionAssumption`, `RecorderAssumption`,
`RelayAssumption`, `AgentAssumption`). Where a theorem needs more, the third
column says what. TLC finds each of these properties violated when the hypothesis
is dropped (two callers or pages, a caller that vanishes, a storage that throws,
one reload), but for `Devices # {}`, which only says that somebody calls.

| theorem | says | needs |
|---|---|---|
| `ReplayChangesNothing` | upserting a sheet twice is upserting it once | |
| `TypeCorrect`, `BufferTypeCorrect`, `SectionTypeCorrect`, `QuizTypeCorrect`, `RelayTypeCorrect`, `AgentTypeCorrect` | `Spec => []TypeOK` of repository, buffer, section, quiz, relay, thread | |
| `OneSectionAtATime` | `Spec => []OneSectionRuns` | |
| `DeadlinesKept`, `ResultsFrozen`, `DwellNeverShrinks` | `Spec => DeadlineKept`, `ResultFrozen`, `DwellMonotone` | |
| `CompositesHonest` | `Spec => []CompositeHonest` | |
| `ScoresMatchItems` | `Spec => []ScoreMatchesItems` | `OneCaller` |
| `CompositesPersisted` | `Spec => []CompositePersisted` | `OneCaller`, `~MayDrop`, `Devices # {}` |
| `NothingLost`, `MirrorIsQueue` | `Spec => []NoSilentLoss`, `[]QueueMirrored` of the buffer | `~StorageFails` |
| `BufferKeepsPromise` | `Spec => KeepsPromise`: the buffer implements `DurableAnswers` | `~StorageFails` |
| `FinishIsFinal` | `Spec => NeverReopened` | |
| `SectionQueueMirrored` | `Spec => []QueueMirrored` of the section | `~StorageFails` |
| `FirstLoadKeepsAnswers`, `FirstLoadSubmitsDurably` | `Spec => [](reloads = 0 => NoAnswerLost)`, `[](reloads = 0 => SubmittedIsDurable)` | `reloads = 0`, inside the formula |
| `FinishesWithAllAnswers` | `Spec => FinishedWithAllAnswers` | `MaxReloads = 0` |
| `CardMovedByStoredAttempts` | `Spec => []ReviewsBacked` | |
| `NeverAsksAgain`, `SolvedAnswersAreStored` | `Spec => AsksTheUnanswered`, `SolvedIsStored` | |
| `NoFirstTryIsFalse`, `OverrunsNeedReload` | `Spec => []NoFalseFirstTry`, `[]OverrunNeedsReload` | `OnePage` |
| `NoLineSkipped`, `LinesExportedOnce` | `Spec => []NothingSkipped`, `[]ExportedOnce` | |
| `BundlesFindChain`, `BundlePublishedOnce` | `Spec => []BundlesVerify`, `[]BundlesOnce` | |
| `RelayKeepsOutbox` | `Spec => KeepsOutbox`: the relay implements `AtLeastOnceLog` | |
| `GuardComesFirst` | `Spec => []GuardedBeforeModel` | |
| `StepsStayBounded`, `SpendStaysBounded`, `ReflexionsStayBounded` | `Spec => []StepsBounded`, `[]SpendBounded`, `[]ReflexionBounded` | |
| `FailuresAreReflected`, `CompletionRecordedOnce` | `Spec => []FailureReflected`, `[]CompletionOnce` | |

**Repository.** `StepIsTransaction` reduces every step of every caller to one
of the five transactions or no change of the tables. Facts about the tables are
then proved once per transaction. `OneSectionRuns` is inductive together with
the types. `DeadlineKept` needs *a deadline that is set belongs to a section
that was begun* (`DeadlineMeansBegun`). `CompositeHonest` is not inductive: a
caller may hold attempts read long ago. What makes it so is `SeenIsFinal`:
sections that a caller has seen finished are still what it saw. A composite is
non-null only when all of them were finished, so what is written is right
whenever it is written.

Two properties hold for one caller (`OneCaller`), and their invariants say what
that caller holds in hand. `ScoreMatchesItems` is inductive with `InHand`: the
rows it has graded are those of the table, before it writes them and when it
closes; an upsert of another caller between the two would not be in the score.
`CompositePersisted` is inductive with `Composed`: a composite that is out of
date has this caller about to read again or about to write what the table says
now. It needs that the caller does not vanish in between (`MayDrop`); of two
callers, the one that read first may write its `null` last.

**Buffer.** The invariant `Inv` follows an edit through the queue, the flight
and the server (`Linked`): the server's row is never ahead of the flight's, nor
the flight's of the queue's; a queued row stands for the last edit; a row that
is not queued is on the server; an applied flight has reached it. That order is
why comparing `updated_at` and `dwell_ms` before deleting is enough. The other
buffer theorems assume `~StorageFails`: while `localStorage` throws, the mirror
differs from the queue and a reload may lose rows, which is the documented limit
of the mirror. `BufferTypeCorrect` needs no such assumption.

**Section.** The argument has two layers. `Flow` ties the session's operation to
the buffer's caller, to the page's phase and to the attempt's status: the finish
is asked for from the section only, what was answered has been applied, and a
page that shows the section as finished while the server does not has its
deadline behind it. `Flow` holds across reloads and with a failing storage, and
gives the types and `NeverReopened`, since a reload opens the section only for an
attempt in progress whose time is not up. `Trace` follows the letter that was
chosen last through the queue, the flight and the server's row of each question
(`Traced`, the section's form of the buffer's `Linked`), says that the page
shows these letters, and what the caller of a flush may conclude (`CallerKnows`:
after success the queue is empty until the operation goes on, so a finish is
sent when every letter is stored). It rests on an edit always differing from the
row under way in `updated_at` (`FlightIsPast`). `Trace` ends at the first reload,
when the page may show an older letter than the queue holds; that is the finding
of `section_restored_answer`, and with it `NoAnswerLost`, `SubmittedIsDurable`
and `FinishedWithAllAnswers` end there too.

**Quiz.** `Inv` adds to the types that every request carries what the server
has: the rows of a review under way are stored, and so is the row of an answer
whose reply is under way (`Backed`). Rows are never removed, so this survives
every reload and every fault; `ReviewsBacked` follows because only a served
review moves the card.

`AsksTheUnanswered` cannot rest on what the server saw when it chose: by the time
the page shows the question, rows may have landed. It rests on `Asking`, which
follows what a page has asked. All of it has a row on the server whenever the
page reads, since the page leaves a solved question only with its row stored
(`SolvedIsStored`, so `Answers` is needed), and rows are never removed. What is
offered then has no row at that moment, so it was not asked; and nothing is asked
until the page shows it.

`SolvedIsStored` needs `Answers`, which follows an idempotency key. A page that
owes nothing has an answer to its item on the server (`Kept`); a page that owes
one has at most one request about it, under its own key (`OwedFor`); two pages
never hold one key (`KeysApart`); and when the page shows a first try, everything
under its key is a first try (`OwnKey`), so the row that the server already has
is as good as the one that is sent. It holds for any number of pages and reloads.

The two properties about the tally count, and hold for one page (`OnePage`). Rows
are stamped when they are sent, and the newest of a question counts. A first try
*lasts* if no later row of its question, stored or under way, takes it back.
`Lasts` says that a page counts lasting first tries and the one it shows
(`Credited`), and that only the question it shows is ever taken back (`Spoilt`);
the server counts every lasting one, so the page claims no more. The page may
resume over a row that is still under way, which is why `Lasts` ends at the
second reload. `Scored`, before the first reload, says more: a first try is then
all there is to its question (`FirstIsAll`); the questions with a row are those
the page has resolved and the one it shows (`Past`), which keeps them within the
target (`Within`); and a close tallies what the page shows (`Closing`).

**Relay.** The invariant says what a working reader knows (`Window`): it holds
the lock, its window ends within the file, the offset is before the line it is
at, and it is never more than one line past the highest settled one. Then
`offset <= high`, every line up to `high` is settled, and the refinement to
`AtLeastOnceLog` maps `Commit` to `Ack`, a line settled for the first time to
`Settle`, and everything else to a stutter. `ExportedOnce` needs more: a line
that was sent is behind the offset or behind a reader at work (`Past`), which a
crash or a failed write undoes. `BundlesVerify` rests on `ChainInvariant`: any
reading of the file that parses is a chain, since a torn line and what is joined
to it never parse again.

**Thread.** `Inv` says of the channels *and the node they go to* what each limit
needs (`Sound`). Between a lap and its count there is room for one step more,
between the look at the budget and the call for one unit more (`Counts`), before
`reflect` for one reflection more of this turn (`Reflected`), and the guard's
identity is never ahead of the turn's (`Guarded`). A failed verdict at `recap`
has all of the turn's reflections behind it, and at the end these, the budget or
the guard (`Settled`): the edges into `recap` and those past it are proved
apart. Since a cut leaves the channels and the node as they were, `Sound` is kept
by every cancellation and crash; what is not in the channels is bounded by the
number of cuts (`Recorded`, `Charged`). The rounds aside are paid from a turn's
three (`Due`: guard, plan and recap that are still before it) or by a lap
(`Laps`), so `aside` and what is due never exceed the laps and the cuts
(`Aside`); a node that is cut off repeats one round (`Accounted`).

The type invariants of quiz, relay and thread are proved and no run repeats
them. Every invariant and every action property of a passing run is stated by a
theorem, with the hypotheses of the table. Only model-checked is liveness
(`FlushAnswered`, `DrainedIfAsked`, `DeadlineExpires`, `AnswerSettles`,
`CompletionCloses`, `EventuallyConsumed`, `RunEnds`), which with ENABLED is out
of the prover's reach.

## 5. Abstractions

Exam:

* Visits, answer changes and the flag of a row are not carried: the merge treats
  them as it does dwell and the letter. A change of the flag is an edit that
  changes only the stamp. `ExamSection` does not carry the first answer either.
* The failure count and the length of the backoff: the timer is armed or not.
* The beacon: `ExamSectionLive.tsx` returns false without sending, and the
  buffer keeps its queue whatever the beacon returns.
* `ExamSection` takes the requests inside `finishSection` as one;
  `ExamRunRepo` takes them apart.
* A request that outlives its page is another caller's late upsert in
  `ExamRunRepo`; in `ExamBufferUse` and `ExamSection` a request in flight ends
  with the page.
* One clock for wall clock, monotonic clock and server clock: skew is not
  modelled. Authorisation and unknown runs or sections are errors that change
  nothing and are left out.

Quiz:

* The durable engine and the commit-first flow are switched on; the session is
  open when the first page mounts; the session drills one skill, so there is one
  card. The legacy path and the drill and review modes are left out, and a page
  that would open another session stops (`fresh`).
* The rungs of the hint ladder, nudge, try again and the selection of a letter
  are merged into the coached loop's letter (`active`). `solved` is the reducer's
  reviewing phase, or answering with the confirmation panel, in which the view
  hides the submit button.
* Which unattempted item the scheduler serves is left open. A review's reads are
  one step with its write, and so are the guard and the write of the pointer, and
  the server's reads within one GET. The resumed page's GET of its pointer's
  question is part of the display. A read that fails shows the error.

Recorder and relay:

* One workflow. Line numbers stand for byte offsets at line boundaries, an event
  id for its integrity hash, an absent offset file for 0. Modification times are
  kept by the code and never read; delays and jitter are left out.
* Poll and drain run on one event loop as deployed; the model checks the
  stronger environment of two threads that the lock is there for (I8 in the
  module's comments). A recorder in another process than the relay is what makes
  half a line visible and their crashes separate.
* A publisher that fails means no bundle; an export that raises or answers False
  has not delivered.

Agent:

* A node is its side effects and then its checkpoint, which LangGraph writes at
  the node's end; a call's cost is 0 or 1 unit; repeated tools are few, many or
  stuck. A partial verdict is a failed one, as wherever the code reads it. The
  rounds aside are counted and not priced; the coach's leakage gate and the
  compaction's summaries, off by default, are not counted. Model, tool, synthesis
  and authorization errors that send the loop round again are one kind
  (`recoverable`); the repetition of prose is left open.
* The input always has a workflow id, and a turn always appends a message. Two
  runs on one thread at a time, the approval interrupt, memory, compaction and the
  fan-out are left out, and of planning all but when it calls a model; a
  recursion limit ends the stream as a cut does.

## 6. Plan

1. *done* — `ExamRows`, `ExamStore`, `ExamRunRepo`: runs and proofs.
2. *done* — `ExamWriteBuffer`, `ExamBufferUse`, `DurableAnswers`: runs,
   refinement, proofs.
3. *done* — `ExamSection`: runs.
4. *done* — `QuizStore`, `QuizSession`: runs, liveness, proofs.
5. *done* — `BlackBoxRecorder`, `BlackBoxRelay`, `AtLeastOnceLog`: run,
   liveness, refinement, proofs.
6. *done* — `AgentThread`: runs, liveness, proofs.
7. *done* — proofs for `ExamSection`, for the scores of `ExamRunRepo` and
   `QuizSession`, and for `SolvedIsStored`.
8. Two buffers over one storage key, and requests that outlive their page.
9. The approval gate and the fan-out of the graph (workers that append to one
   channel which the join reads); the telemetry bridge's per-trace buffers under
   concurrent streams; recorders of several processes on one file.
10. What holds beyond the hypotheses of section 4, stated and proved: the score
    of a section finished by several callers (every graded row bears its verdict),
    the answers of a section after a reload (what the queue or the server has is
    a letter the learner chose), the scores of several pages that never show the
    same question.
