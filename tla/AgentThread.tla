----------------------------- MODULE AgentThread -----------------------------
(***************************************************************************)
(* One chat thread of the agent: the ReAct graph that runs over the        *)
(* thread's checkpointed channels, turn after turn.  A turn may be cut off *)
(* in the middle of a node (the stream is cancelled, or the process dies)  *)
(* and be resumed from the checkpoint, or be left for the next turn.       *)
(*                                                                         *)
(* No channel is reset between the turns.  Models, tools, guard and judges *)
(* may answer anything.                                                    *)
(***************************************************************************)
EXTENDS Naturals, Sequences, FiniteSets

CONSTANTS
    MaxSteps,       \* max_steps
    MaxCost,        \* max_cost_usd, in units of the dearest model call
    MaxReflexions,  \* max_reflexion_attempts
    Reflexion,      \* reflexion_enabled
    MaxTurns,       \* bound on the turns of the thread
    MaxCuts         \* bound on the cancellations and on the crashes

ASSUME AgentAssumption ==
    /\ MaxSteps \in Nat \ {0} /\ MaxCost \in Nat \ {0}
    /\ MaxReflexions \in Nat /\ Reflexion \in BOOLEAN
    /\ MaxTurns \in Nat /\ MaxCuts \in Nat

VARIABLES
    ch,         \* the checkpointed channels
    next,       \* the checkpointed next node
    live,       \* whether a stream drives the graph
    turn,       \* workflow_id and task_id: the number of the turn
    emitted,    \* _completion_emitted, in the process's memory
    cleared,    \* history: the guard's verdict on this turn's input
    completed,  \* history: COMPLETION phases recorded for this turn
    billed,     \* history: what the calls of call_llm cost
    aside,      \* history: the rounds of the other model calls
    cancels, crashes

bounds == <<cancels, crashes>>
vars == <<ch, next, live, turn, emitted, cleared, completed, billed, aside, bounds>>

Nodes == {"guard_input", "route", "call_llm", "verify", "execute_tool",
          "evaluate", "reflect", "recap", "end"}
Errors == {"none", "retryable", "recoverable", "terminal"}
Channels ==
    [guarded : Nat,                                   \* guarded_workflow_id
     planned : Nat,                                   \* plan_artifact_task_id
     outcome : {"none", "success", "failure", "rejected", "budget_exceeded"},
     error : Errors,                                  \* last_error_type
     llmError : Errors,                               \* last_llm_error(_code)
     steps : Nat, cost : Nat,
     waits : BOOLEAN,                                 \* backoff_until is ahead
     tail : {"none", "human", "answer", "calls", "tool", "tool_error"},
     repeats : {"few", "many", "stuck"},              \* trailing tool repeats
     directed : BOOLEAN,                              \* no_progress_directive_sent
     reflections : Seq(Nat),                          \* each one's task_id
     verdict : {"none", "success", "failed"}]         \* last_task_outcome

TypeOK ==
    /\ ch \in Channels
    /\ next \in Nodes
    /\ live \in BOOLEAN /\ cleared \in BOOLEAN
    /\ turn \in Nat /\ completed \in Nat
    /\ billed \in Nat /\ aside \in Nat
    /\ emitted \subseteq Nat
    /\ cancels \in Nat /\ crashes \in Nat

Init ==
    /\ ch = [guarded |-> 0, planned |-> 0, outcome |-> "none", error |-> "none",
             llmError |-> "none", steps |-> 0, cost |-> 0, waits |-> FALSE,
             tail |-> "none", repeats |-> "few", directed |-> FALSE,
             reflections |-> <<>>, verdict |-> "none"]
    /\ next = "end" /\ live = FALSE /\ turn = 0
    /\ emitted = {} /\ cleared = FALSE /\ completed = 0
    /\ billed = 0 /\ aside = 0
    /\ cancels = 0 /\ crashes = 0

(***************************************************************************)
(* How a node ends: its result is checkpointed, or it is cut off, after    *)
(* its side effects, by a cancelled stream or by the end of the process.   *)
(***************************************************************************)
At(node) == live /\ next = node

(* The node's result c, the next node n, the process's memory m.           *)
Finish(c, n, m) ==
    /\ UNCHANGED turn
    /\ \/ /\ ch' = c /\ next' = n /\ live' = (n # "end") /\ emitted' = m
          /\ UNCHANGED bounds
       \/ /\ cancels < MaxCuts /\ cancels' = cancels + 1
          /\ live' = FALSE /\ emitted' = m
          /\ UNCHANGED <<ch, next, crashes>>
       \/ /\ crashes < MaxCuts /\ crashes' = crashes + 1
          /\ live' = FALSE /\ emitted' = {}
          /\ UNCHANGED <<ch, next, cancels>>

(* Mutant of Remember: the completion is not remembered.                   *)
ForgetCompletion == emitted

Remember == emitted \cup {turn}

(* _emit_completion_once.                                                  *)
EmitCompletion ==
    completed' = IF turn \in emitted THEN completed ELSE completed + 1

(* A round of model calls whose cost no channel keeps: the guard's judge,  *)
(* the planner and its understanding, the judge of the goal, the critique, *)
(* the recap.                                                              *)
CallAside == aside' = aside + 1

(***************************************************************************)
(* The stream.                                                             *)
(***************************************************************************)
(* A new message: the input goes over the channels, and whatever an        *)
(* earlier turn left pending is dropped.                                   *)
NewTurn ==
    /\ ~live /\ turn < MaxTurns
    /\ turn' = turn + 1
    /\ ch' = [ch EXCEPT !.tail = "human"]
    /\ next' = "guard_input" /\ live' = TRUE
    /\ cleared' = FALSE /\ completed' = 0
    /\ UNCHANGED <<emitted, billed, aside, bounds>>

Resume ==
    /\ ~live /\ next # "end"
    /\ live' = TRUE
    /\ UNCHANGED <<ch, next, turn, emitted, cleared, completed, billed, aside,
                   bounds>>

BackoffPasses ==
    /\ ch.waits
    /\ ch' = [ch EXCEPT !.waits = FALSE]
    /\ UNCHANGED <<next, live, turn, emitted, cleared, completed, billed, aside,
                   bounds>>

(***************************************************************************)
(* The guard.                                                              *)
(***************************************************************************)
(* Mutant of AlreadyGuarded: the guard is skipped once steps were taken.   *)
GuardedByStepCount == ch.steps > 0

AlreadyGuarded == ch.guarded = turn

(* _guard_routing.                                                         *)
GuardRouting(c) == IF c.outcome = "rejected" THEN "end" ELSE "route"

GuardInput ==
    /\ At("guard_input")
    /\ IF AlreadyGuarded
       THEN /\ Finish(ch, GuardRouting(ch), emitted)
            /\ UNCHANGED <<cleared, completed, aside>>
       ELSE /\ CallAside
            /\ \/ /\ cleared' = TRUE
                  /\ LET c == [ch EXCEPT !.guarded = turn]
                     IN  Finish(c, GuardRouting(c), emitted)
                  /\ UNCHANGED completed
               \/ /\ cleared' = FALSE
                  /\ LET c == [ch EXCEPT !.guarded = turn, !.outcome = "rejected"]
                     IN  Finish(c, GuardRouting(c), Remember)
                  /\ EmitCompletion
    /\ UNCHANGED billed

(***************************************************************************)
(* The loop.                                                               *)
(***************************************************************************)
(* The plan is made once in a turn.  A spent budget is recorded here       *)
(* instead, and the model is called all the same.                          *)
Route ==
    /\ At("route")
    /\ IF ch.cost >= MaxCost
       THEN /\ Finish([ch EXCEPT !.outcome = "budget_exceeded"], "call_llm", Remember)
            /\ EmitCompletion
            /\ UNCHANGED aside
       ELSE /\ Finish([ch EXCEPT !.planned = turn], "call_llm", emitted)
            /\ IF ch.planned = turn THEN UNCHANGED aside ELSE CallAside
            /\ UNCHANGED completed
    /\ UNCHANGED <<cleared, billed>>

(* Mutant of OverBudget: only a cost beyond the limit counts.              *)
BeyondBudget(c) == c.cost > MaxCost

OverBudget(c) == c.cost >= MaxCost

(* _parse_response.                                                        *)
ParseResponse(c) ==
    CASE OverBudget(c) -> "end"
      [] ~OverBudget(c) /\ c.tail = "calls" -> "verify"
      [] OTHER -> "evaluate"

(* The wrap-up directive takes the tools away.                             *)
WrapUp == ch.repeats # "few" /\ ~ch.directed

CallLlm ==
    /\ At("call_llm")
    /\ \E cost \in 0..1, tail \in {"answer", "calls"} :
          LET c == [ch EXCEPT !.tail = tail, !.cost = ch.cost + cost,
                              !.directed = ch.directed \/ WrapUp]
          IN  /\ WrapUp => tail = "answer"
              /\ billed' = billed + cost
              /\ Finish(c, ParseResponse(c), emitted)
    /\ UNCHANGED <<cleared, completed, aside>>

(* The model's error is kept for the evaluation; no message is added.      *)
CallFails ==
    /\ At("call_llm")
    /\ \E error \in Errors \ {"none"} :
          LET c == [ch EXCEPT !.llmError = error,
                              !.directed = ch.directed \/ WrapUp]
          IN  Finish(c, ParseResponse(c), emitted)
    /\ UNCHANGED <<cleared, completed, billed, aside>>

Verify ==
    /\ At("verify")
    /\ \/ Finish(ch, "execute_tool", emitted)
       \/ Finish([ch EXCEPT !.outcome = "rejected", !.error = "recoverable"],
                 "evaluate", emitted)
    /\ UNCHANGED <<cleared, completed, billed, aside>>

ExecuteTool ==
    /\ At("execute_tool")
    /\ \E tail \in {"tool", "tool_error"}, repeats \in {"few", "many", "stuck"} :
          Finish([ch EXCEPT !.tail = tail, !.repeats = repeats], "evaluate", emitted)
    /\ UNCHANGED <<cleared, completed, billed, aside>>

(***************************************************************************)
(* The evaluation and where it leads.                                      *)
(***************************************************************************)
HasToolResult(c) == c.tail \in {"tool", "tool_error"}

NoProgress(c) == c.repeats = "stuck" \/ (c.repeats = "many" /\ c.directed)

(* Mutant of OutOfSteps: one step too many.                                *)
StepsBeyond(c) == c.steps > MaxSteps

OutOfSteps(c) == c.steps >= MaxSteps

(* check_continuation.                                                     *)
Continues(c, stuck, waits) ==
    /\ ~OutOfSteps(c) /\ ~(c.cost >= MaxCost)
    /\ c.error # "terminal"
    /\ ~stuck
    /\ waits \/ c.outcome # "success" \/ HasToolResult(c)

(* reflections_for_task.                                                   *)
Critiques(c, task) ==
    Cardinality({i \in DOMAIN c.reflections : c.reflections[i] = task})

(* Mutant of Attempts: the reflections of every turn count.                *)
AllAttempts(c) == Len(c.reflections)

(* _task_reflections: this turn's only.                                    *)
Attempts(c) == Critiques(c, turn)

(* _should_continue_or_escalate; prose: the answers repeat each other.     *)
AfterEvaluation(c, prose) ==
    IF Continues(c, NoProgress(c), c.waits) THEN "route"
    ELSE IF /\ Reflexion /\ Attempts(c) < MaxReflexions
            /\ c.verdict = "failed" \/ prose
         THEN "reflect" ELSE "recap"

(* Mutant of Evaluated: the step is not counted.                           *)
EvaluatedUncounted(error) ==
    [ch EXCEPT !.error = error, !.llmError = "none",
               !.outcome = IF error = "none" THEN "success" ELSE "failure",
               !.waits = ch.waits \/ error = "retryable"]

Evaluated(error) ==
    [ch EXCEPT !.steps = ch.steps + 1, !.error = error, !.llmError = "none",
               !.outcome = IF error = "none" THEN "success" ELSE "failure",
               !.waits = ch.waits \/ error = "retryable"]

(* classify_outcome and validate_synthesis.                                *)
StepErrors ==
    CASE ch.llmError # "none" -> {ch.llmError}
      [] ch.llmError = "none" /\ ch.tail = "tool_error" -> {"recoverable"}
      [] OTHER -> {"none", "recoverable"}

(* evaluate_task_outcome and the judge: only a clean end is a success, and *)
(* a partial one counts as failed wherever the verdict is read.            *)
Verdicts(c) ==
    IF /\ c.outcome = "success" /\ ~OutOfSteps(c) /\ ~(c.cost >= MaxCost)
       /\ ~c.directed /\ c.repeats = "few"
    THEN {"success", "failed"} ELSE {"failed"}

(* Goes on by its own reckoning, which knows neither of the repeats nor of *)
(* an earlier backoff, or completes the task; then the route is chosen.    *)
Evaluate ==
    /\ At("evaluate")
    /\ \E error \in StepErrors, prose \in BOOLEAN :
          LET c == Evaluated(error)
          IN  IF Continues(c, FALSE, error = "retryable")
              THEN /\ Finish(c, AfterEvaluation(c, prose), emitted)
                   /\ UNCHANGED <<completed, aside>>
              ELSE /\ CallAside
                   /\ \E v \in Verdicts(c) :
                         LET judged == [c EXCEPT !.verdict = v]
                         IN  Finish(judged, AfterEvaluation(judged, prose), Remember)
                   /\ EmitCompletion
    /\ UNCHANGED <<cleared, billed>>

(* Mutant of Tagged: the reflection carries no task.                       *)
Untagged == 0

Tagged == turn

Reflect ==
    /\ At("reflect")
    /\ Finish([ch EXCEPT !.reflections = Append(ch.reflections, Tagged)], "route", emitted)
    /\ CallAside
    /\ UNCHANGED <<cleared, completed, billed>>

Recap ==
    /\ At("recap")
    /\ Finish(ch, "end", emitted)
    /\ CallAside
    /\ UNCHANGED <<cleared, completed, billed>>

Node ==
    \/ GuardInput \/ Route \/ CallLlm \/ CallFails \/ Verify \/ ExecuteTool
    \/ Evaluate \/ Reflect \/ Recap

Next == NewTurn \/ Resume \/ BackoffPasses \/ Node

Spec == Init /\ [][Next]_vars

(* A stream that was begun is driven by the event loop to its end.         *)
FairSpec == Spec /\ WF_vars(Node)

(***************************************************************************)
(* Properties.                                                             *)
(***************************************************************************)
Loop == {"route", "call_llm", "verify", "execute_tool", "evaluate", "reflect"}

(* No model call and no tool sees the input of a turn that the guard did   *)
(* not accept, however the turns before it ended and wherever this one was *)
(* cut off: the guard is re-armed by the turn's own identity.              *)
GuardedBeforeModel == next \in Loop => cleared

(* The steps of a thread never exceed the limit by more than one lap for   *)
(* each turn after the first and one for each reflection: the limit is     *)
(* looked at only when a lap has been counted.                             *)
StepsBounded == ch.steps < MaxSteps + turn + Len(ch.reflections)

(* What the calls of call_llm cost, the only ones the budget knows,        *)
(* exceeds it by one call for each later turn, and one for each call whose *)
(* result was cut off before the checkpoint: a resumed turn pays again.    *)
(* No budget knows the rounds of the other model calls, but the laps bound *)
(* them: three for each turn (guard, plan, recap), one for each step       *)
(* judged, each reflection and each cut.                                   *)
SpendBounded ==
    /\ billed < MaxCost + turn + cancels + crashes
    /\ aside <= 3 * turn + ch.steps + Len(ch.reflections) + cancels + crashes

(* A turn reflects at most as often as it may, whatever other turns of the *)
(* thread reflected and however often it was resumed.                      *)
ReflexionBounded ==
    \A task \in 0..turn : Critiques(ch, task) <= MaxReflexions

(* A thread does not come to rest on a failed or partial verdict while the *)
(* turn has reflections of its own left, however the other turns used      *)
(* theirs: unless the budget was spent, where call_llm ends the turn at    *)
(* once, or the guard halted it.  The verdict may be one that an earlier   *)
(* turn left in the channel.                                               *)
FailureReflected ==
    /\ next = "end" /\ Reflexion /\ ch.verdict = "failed"
    => \/ Critiques(ch, turn) = MaxReflexions
       \/ OverBudget(ch)
       \/ ch.outcome = "rejected"

(* The COMPLETION phase of a turn is recorded once, over every reflection  *)
(* and every resumed node, and again only after the process died.          *)
CompletionOnce == completed <= 1 + crashes

(* A stream ends: no answer of the models, the tools and the judges keeps  *)
(* the loop going for ever.                                                *)
RunEnds == live ~> ~live

(* The guard halts a turn only for that turn's own input                   *)
(* (_guard_routing: "Branch on guard rejection").                          *)
AcceptedTurnProceeds ==
    [][next = "guard_input" /\ next' = "end" => ~cleared']_vars
=============================================================================
