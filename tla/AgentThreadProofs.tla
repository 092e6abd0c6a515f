-------------------------- MODULE AgentThreadProofs --------------------------
(***************************************************************************)
(* Theorems about the agent's thread, for any limits, answers, turns and   *)
(* cuts.                                                                   *)
(*                                                                         *)
(* Every node finishes with channels and a next node, which are either     *)
(* checkpointed or lost.  So what is shown of a node is that its result    *)
(* is sound for the turn; that the checkpoint then is follows once.        *)
(***************************************************************************)
EXTENDS AgentThread, FiniteSetTheorems, TLAPS

-----------------------------------------------------------------------------
(***************************************************************************)
(* The inductive invariant.                                                *)
(***************************************************************************)

Uncounted == {"guard_input", "route", "call_llm", "verify", "execute_tool", "evaluate"}
Unpaid == {"guard_input", "route", "call_llm"}
Paid == {"verify", "execute_tool", "evaluate", "reflect", "recap"}

(* The steps and the cost that the thread's budgets leave to turn t.       *)
Counts(c, n, t) ==
    /\ c.steps < MaxSteps + t + Len(c.reflections)
    /\ n \in Uncounted => c.steps + 1 < MaxSteps + t + Len(c.reflections)
    /\ c.cost < MaxCost + t
    /\ n \in Unpaid => c.cost + 1 < MaxCost + t
    /\ n \in Paid => c.cost < MaxCost

Reflected(c, n, t) ==
    /\ \A task \in Nat : Critiques(c, task) <= MaxReflexions
    /\ n = "reflect" => Critiques(c, t) < MaxReflexions

Guarded(c, n, t) ==
    /\ c.guarded <= t
    /\ n = "guard_input" => c.guarded < t
    /\ n # "end" => t > 0

(* A failed verdict with which the thread is about to rest.                *)
Settled(c, n, t) ==
    Reflexion /\ c.verdict = "failed" =>
        /\ n = "recap" => Critiques(c, t) = MaxReflexions
        /\ n = "end" => \/ Critiques(c, t) = MaxReflexions
                        \/ OverBudget(c)
                        \/ c.outcome = "rejected"

Sound(c, n, t) ==
    /\ c \in Channels /\ n \in Nodes
    /\ Counts(c, n, t) /\ Reflected(c, n, t) /\ Guarded(c, n, t)
    /\ Settled(c, n, t)

(* The rounds of calls that turn t has still before it, of its guard, its  *)
(* plan and its recap, and those that the laps allow for.                  *)
Due(c, n, t) ==
    (IF c.guarded = t THEN 0 ELSE 1) + (IF c.planned = t THEN 0 ELSE 1)
        + (IF n = "end" THEN 0 ELSE 1)
Laps(c, t) == 3 * t + c.steps + Len(c.reflections)

(* What the channels do not hold: the guard's verdict, the completions     *)
(* recorded and the money spent.                                           *)
Recorded == completed <= crashes + (IF turn \in emitted THEN 1 ELSE 0)
Charged == billed <= ch.cost + cancels + crashes
Aside == aside + Due(ch, next, turn) <= Laps(ch, turn) + cancels + crashes

Inv ==
    /\ TypeOK
    /\ Sound(ch, next, turn)
    /\ GuardedBeforeModel
    /\ Recorded
    /\ Charged
    /\ Aside

(* What a node spends is in its result; a cut loses one call and one round.*)
Accounted(c, n) ==
    /\ billed' \in Nat /\ aside' \in Nat
    /\ billed' <= c.cost + cancels + crashes
    /\ billed' <= ch.cost + cancels + crashes + 1
    /\ aside' + Due(c, n, turn) <= Laps(c, turn) + cancels + crashes
    /\ aside' <= aside + 1

-----------------------------------------------------------------------------
(***************************************************************************)
(* Lemmas about the channels.                                              *)
(***************************************************************************)

(* Channels that count the same are as sound, at a node of the same kind.  *)
LEMMA SoundAlike ==
    ASSUME NEW c, NEW n, NEW t \in Nat, Sound(c, n, t),
           NEW d \in Channels, NEW m \in Nodes,
           d.steps = c.steps, d.cost = c.cost, d.guarded = c.guarded,
           d.reflections = c.reflections,
           m \in Uncounted => n \in Uncounted,
           m \in Unpaid => n \in Unpaid,
           m \in Paid => n \in Paid \/ c.cost < MaxCost,
           m = "guard_input" => n = "guard_input",
           m # "end" => n # "end",
           m # "reflect",
           Settled(d, m, t)
    PROVE  Sound(d, m, t)
  <1>1. Counts(d, m, t)  BY DEF Sound, Counts
  <1>2. Reflected(d, m, t)  BY DEF Sound, Reflected, Critiques
  <1>3. Guarded(d, m, t)  BY DEF Sound, Guarded
  <1> QED  BY <1>1, <1>2, <1>3 DEF Sound

(* The critiques of a task are finitely many.                              *)
LEMMA CritiquesTyped ==
    ASSUME NEW c \in Channels, NEW task
    PROVE  /\ IsFiniteSet({i \in DOMAIN c.reflections : c.reflections[i] = task})
           /\ Critiques(c, task) \in Nat
  <1>1. c.reflections \in Seq(Nat) /\ Len(c.reflections) \in Nat  BY DEF Channels
  <1>2. DOMAIN c.reflections = 1..Len(c.reflections)  BY <1>1
  <1>3. IsFiniteSet(DOMAIN c.reflections)  BY <1>1, <1>2, FS_Interval
  <1>4. IsFiniteSet({i \in DOMAIN c.reflections : c.reflections[i] = task})
    BY <1>3, FS_Subset
  <1> QED  BY <1>4, FS_CardinalityType DEF Critiques

(* A reflection is one critique more for its own task, and for no other.   *)
LEMMA CritiqueAppended ==
    ASSUME NEW c \in Channels, NEW d \in Channels, NEW t \in Nat, NEW task,
           d.reflections = Append(c.reflections, t)
    PROVE  Critiques(d, task) = Critiques(c, task) + (IF task = t THEN 1 ELSE 0)
  <1> DEFINE old == {i \in DOMAIN c.reflections : c.reflections[i] = task}
             new == {i \in DOMAIN d.reflections : d.reflections[i] = task}
             last == Len(c.reflections) + 1
  <1>1. c.reflections \in Seq(Nat) /\ Len(c.reflections) \in Nat  BY DEF Channels
  <1>2. DOMAIN c.reflections = 1..Len(c.reflections)  BY <1>1
  <1>3. DOMAIN d.reflections = 1..last  BY <1>1
  <1>4. \A i \in 1..Len(c.reflections) : d.reflections[i] = c.reflections[i]  BY <1>1
  <1>5. d.reflections[last] = t  BY <1>1
  <1>6. IsFiniteSet(old) /\ Cardinality(old) \in Nat
    BY CritiquesTyped DEF Critiques
  <1>7. last \notin old  BY <1>1, <1>2
  <1>8. CASE task = t
    <2>1. new = old \cup {last}
      BY <1>1, <1>2, <1>3, <1>4, <1>5, <1>8, SMTT(60)
    <2>2. Critiques(d, task) = Cardinality(new)  BY DEF Critiques
    <2>3. Critiques(c, task) = Cardinality(old)  BY DEF Critiques
    <2> HIDE DEF old, new, last
    <2>4. Cardinality(old \cup {last}) = Cardinality(old) + 1
      BY <1>6, <1>7, FS_AddElement
    <2> QED  BY <1>8, <2>1, <2>2, <2>3, <2>4
  <1>9. CASE task # t
    <2>1. new = old  BY <1>1, <1>2, <1>3, <1>4, <1>5, <1>9, SMTT(60)
    <2>2. Critiques(d, task) = Cardinality(new)  BY DEF Critiques
    <2>3. Critiques(c, task) = Cardinality(old)  BY DEF Critiques
    <2> HIDE DEF old, new
    <2> QED  BY <1>6, <1>9, <2>1, <2>2, <2>3
  <1> QED  BY <1>8, <1>9

LEMMA DueTyped ==
    ASSUME NEW c, NEW n, NEW t
    PROVE  /\ Due(c, n, t) \in Nat /\ Due(c, n, t) <= 3
           /\ n = "end" => Due(c, n, t) <= 2
  BY DEF Due

LEMMA LapsTyped ==
    ASSUME NEW c \in Channels, NEW t \in Nat
    PROVE  Laps(c, t) \in Nat
  <1>1. c.steps \in Nat /\ c.reflections \in Seq(Nat)  BY DEF Channels
  <1>2. Len(c.reflections) \in Nat  BY <1>1
  <1> QED  BY <1>1, <1>2 DEF Laps

-----------------------------------------------------------------------------
(***************************************************************************)
(* How a node ends.                                                        *)
(***************************************************************************)

(* If what a node hands over is sound, what is checkpointed is; the money  *)
(* of a call that is cut off is accounted for by the cut.                  *)
LEMMA FinishSound ==
    ASSUME Inv, NEW c, NEW n, NEW m, Finish(c, n, m),
           Sound(c, n, turn), m \subseteq Nat
    PROVE  /\ Sound(ch', next', turn')
           /\ ch' \in Channels /\ next' \in Nodes /\ turn' = turn /\ turn' \in Nat
           /\ live' \in BOOLEAN /\ emitted' \subseteq Nat
           /\ cancels' \in Nat /\ crashes' \in Nat
           /\ next' \in {next, n}
           /\ \/ ch' = c /\ next' = n /\ cancels' = cancels /\ crashes' = crashes
              \/ /\ ch' = ch /\ next' = next
                 /\ \/ cancels' = cancels + 1 /\ crashes' = crashes
                    \/ cancels' = cancels /\ crashes' = crashes + 1
           /\ \/ emitted' = m /\ crashes' = crashes
              \/ emitted' = {} /\ crashes' = crashes + 1
  <1>1. /\ Sound(ch, next, turn) /\ ch \in Channels /\ next \in Nodes
        /\ turn \in Nat /\ cancels \in Nat /\ crashes \in Nat
        /\ c \in Channels /\ n \in Nodes
    BY DEF Inv, TypeOK, Sound
  <1>2. turn' = turn  BY DEF Finish
  <1>3. CASE ch' = c /\ next' = n /\ live' = (n # "end") /\ emitted' = m
             /\ UNCHANGED bounds
    <2>1. live' \in BOOLEAN  BY <1>3
    <2> QED  BY <1>1, <1>2, <1>3, <2>1 DEF bounds
  <1>4. CASE /\ cancels' = cancels + 1 /\ live' = FALSE /\ emitted' = m
             /\ UNCHANGED <<ch, next, crashes>>
    <2>1. ch' = ch /\ next' = next /\ crashes' = crashes  BY <1>4
    <2>2. cancels' \in Nat
      BY <1>1, <1>4, <2>1
    <2> QED  BY <1>1, <1>2, <1>4, <2>1, <2>2
  <1>5. CASE /\ crashes' = crashes + 1 /\ live' = FALSE /\ emitted' = {}
             /\ UNCHANGED <<ch, next, cancels>>
    <2>1. ch' = ch /\ next' = next /\ cancels' = cancels  BY <1>5
    <2>2. crashes' \in Nat
      BY <1>1, <1>5, <2>1
    <2> QED  BY <1>1, <1>2, <1>5, <2>1, <2>2
  <1> QED  BY <1>3, <1>4, <1>5 DEF Finish

(* A node that keeps the rest keeps the invariant.                         *)
LEMMA FinishKeeps ==
    ASSUME Inv, NEW c, NEW n, NEW m, Finish(c, n, m), At(next),
           Sound(c, n, turn), m \subseteq Nat,
           cleared' \in BOOLEAN, completed' \in Nat, Accounted(c, n),
           next' \in Loop => cleared',
           \/ emitted \subseteq m /\ completed' = completed
           \/ m = Remember /\ EmitCompletion
    PROVE  Inv'
  <1>1. /\ Sound(ch', next', turn')
        /\ ch' \in Channels /\ next' \in Nodes /\ turn' = turn /\ turn' \in Nat
        /\ live' \in BOOLEAN /\ emitted' \subseteq Nat
        /\ cancels' \in Nat /\ crashes' \in Nat
        /\ \/ ch' = c /\ next' = n /\ cancels' = cancels /\ crashes' = crashes
           \/ /\ ch' = ch /\ next' = next
              /\ \/ cancels' = cancels + 1 /\ crashes' = crashes
                 \/ cancels' = cancels /\ crashes' = crashes + 1
        /\ \/ emitted' = m /\ crashes' = crashes
           \/ emitted' = {} /\ crashes' = crashes + 1
    BY FinishSound
  <1>2. TypeOK'  BY <1>1 DEF TypeOK, Accounted
  <1>3. Sound(ch, next, turn)'
    BY <1>1 DEF Sound, Counts, Reflected, Guarded, Critiques, Settled, OverBudget
  <1>4. GuardedBeforeModel'  BY DEF GuardedBeforeModel
  <1>5. Recorded'
    <2>1. /\ completed <= crashes + (IF turn \in emitted THEN 1 ELSE 0)
          /\ completed \in Nat /\ crashes \in Nat
      BY DEF Inv, TypeOK, Recorded
    <2>2. completed' <= crashes + (IF turn \in m THEN 1 ELSE 0)
      <3>1. CASE emitted \subseteq m /\ completed' = completed
        <4>1. CASE turn \in m  BY <2>1, <3>1, <4>1
        <4>2. CASE turn \notin m  BY <2>1, <3>1, <4>2
        <4> QED  BY <4>1, <4>2
      <3>2. CASE m = Remember /\ EmitCompletion
        BY <2>1, <3>2 DEF Remember, EmitCompletion
      <3> QED  BY <3>1, <3>2
    <2>3. CASE emitted' = m /\ crashes' = crashes
      BY <1>1, <2>2, <2>3 DEF Recorded
    <2>4. CASE emitted' = {} /\ crashes' = crashes + 1
      BY <1>1, <2>1, <2>2, <2>4 DEF Recorded
    <2> QED  BY <1>1, <2>3, <2>4
  <1>6. Charged'
    <2>1. ch.cost \in Nat /\ c.cost \in Nat /\ billed' \in Nat
          /\ cancels \in Nat /\ crashes \in Nat
          /\ billed' <= c.cost + cancels + crashes
          /\ billed' <= ch.cost + cancels + crashes + 1
      BY DEF Inv, TypeOK, Sound, Channels, Accounted
    <2>2. CASE ch' = c /\ cancels' = cancels /\ crashes' = crashes
      BY <2>1, <2>2 DEF Charged
    <2>3. CASE /\ ch' = ch
               /\ \/ cancels' = cancels + 1 /\ crashes' = crashes
                  \/ cancels' = cancels /\ crashes' = crashes + 1
      <3>1. CASE cancels' = cancels + 1 /\ crashes' = crashes
        BY <2>1, <2>3, <3>1 DEF Charged
      <3>2. CASE cancels' = cancels /\ crashes' = crashes + 1
        BY <2>1, <2>3, <3>2 DEF Charged
      <3> QED  BY <2>3, <3>1, <3>2
    <2> QED  BY <1>1, <2>2, <2>3
  <1>7. Aside'
    <2> DEFINE due == Due(ch, next, turn)
               laps == Laps(ch, turn)
               due1 == Due(c, n, turn)
               laps1 == Laps(c, turn)
    <2>1. /\ due \in Nat /\ laps \in Nat /\ due1 \in Nat /\ laps1 \in Nat
          /\ aside \in Nat /\ cancels \in Nat /\ crashes \in Nat
      BY DueTyped, LapsTyped DEF Inv, TypeOK, Sound
    <2>2. /\ aside' \in Nat /\ aside' <= aside + 1
          /\ aside' + due1 <= laps1 + cancels + crashes
          /\ aside + due <= laps + cancels + crashes
      BY DEF Accounted, Inv, Aside
    <2>3. CASE ch' = c /\ next' = n /\ cancels' = cancels /\ crashes' = crashes
      <3>1. Due(ch, next, turn)' = due1 /\ Laps(ch, turn)' = laps1
        BY <1>1, <2>3 DEF Due, Laps
      <3> HIDE DEF due, laps, due1, laps1
      <3> QED  BY <2>2, <2>3, <3>1 DEF Aside
    <2>4. CASE /\ ch' = ch /\ next' = next
               /\ cancels' + crashes' = cancels + crashes + 1
               /\ cancels' \in Nat /\ crashes' \in Nat
      <3>1. Due(ch, next, turn)' = due /\ Laps(ch, turn)' = laps
        BY <1>1, <2>4 DEF Due, Laps
      <3> HIDE DEF due, laps, due1, laps1
      <3>2. aside' + due <= laps + cancels' + crashes'
        <4> DEFINE paid == aside'
                   cuts == cancels + crashes
        <4>1. /\ paid \in Nat /\ cuts \in Nat /\ paid <= aside + 1
              /\ aside + due <= laps + cuts
          BY <2>1, <2>2
        <4>2. laps + cancels' + crashes' = laps + cuts + 1
          <5> DEFINE x == cancels'
                     y == crashes'
          <5>1. x \in Nat /\ y \in Nat /\ x + y = cuts + 1  BY <2>4
          <5>2. laps \in Nat /\ cuts \in Nat  BY <2>1
          <5> HIDE DEF x, y, cuts
          <5>3. laps + x + y = laps + cuts + 1  BY <5>1, <5>2
          <5> QED  BY <5>3 DEF x, y
        <4> HIDE DEF paid, cuts
        <4>3. paid + due <= laps + cuts + 1  BY <2>1, <4>1
        <4> QED  BY <4>2, <4>3 DEF paid
      <3> QED  BY <3>1, <3>2 DEF Aside
    <2>5. CASE /\ ch' = ch /\ next' = next
               /\ \/ cancels' = cancels + 1 /\ crashes' = crashes
                  \/ cancels' = cancels /\ crashes' = crashes + 1
      <3>1. /\ cancels' + crashes' = cancels + crashes + 1
            /\ cancels' \in Nat /\ crashes' \in Nat
        BY <2>1, <2>5
      <3> QED  BY <2>4, <2>5, <3>1
    <2> QED  BY <1>1, <2>3, <2>5
  <1> QED  BY <1>2, <1>3, <1>4, <1>5, <1>6, <1>7 DEF Inv

-----------------------------------------------------------------------------
(***************************************************************************)
(* The steps.                                                              *)
(***************************************************************************)

(* What every node may use.                                                *)
LEMMA Facts ==
    ASSUME Inv
    PROVE  /\ Sound(ch, next, turn) /\ ch \in Channels /\ next \in Nodes
           /\ turn \in Nat /\ emitted \subseteq Nat /\ Remember \subseteq Nat
           /\ cleared \in BOOLEAN /\ completed \in Nat /\ billed \in Nat
           /\ cancels \in Nat /\ crashes \in Nat /\ ch.cost \in Nat
           /\ billed <= ch.cost + cancels + crashes
           /\ aside \in Nat
           /\ aside + Due(ch, next, turn) <= Laps(ch, turn) + cancels + crashes
           /\ next \in Loop => cleared
  <1>1. ch.cost \in Nat  BY DEF Inv, TypeOK, Channels
  <1> QED
    BY <1>1 DEF Inv, TypeOK, Charged, Aside, Remember, GuardedBeforeModel

(* A node whose own model call, if any, is one aside, accounts for it if   *)
(* its result is nearer the turn's end by that round or one lap further.   *)
LEMMA Accounts ==
    ASSUME Inv, NEW d \in Channels, NEW n, NEW r \in {0, 1},
           billed' = billed, d.cost = ch.cost, aside' = aside + r,
           Due(d, n, turn) + r + Laps(ch, turn) <= Due(ch, next, turn) + Laps(d, turn)
    PROVE  Accounted(d, n)
  <1> DEFINE due == Due(ch, next, turn)
             laps == Laps(ch, turn)
             due1 == Due(d, n, turn)
             laps1 == Laps(d, turn)
  <1>1. /\ due \in Nat /\ laps \in Nat /\ due1 \in Nat /\ laps1 \in Nat
        /\ aside \in Nat /\ cancels \in Nat /\ crashes \in Nat
        /\ billed \in Nat /\ ch.cost \in Nat
        /\ billed <= ch.cost + cancels + crashes
        /\ aside + due <= laps + cancels + crashes
        /\ due1 + r + laps <= due + laps1
    BY Facts, DueTyped, LapsTyped
  <1> HIDE DEF due, laps, due1, laps1
  <1>2. aside' \in Nat /\ aside' <= aside + 1
        /\ aside' + due1 <= laps1 + cancels + crashes
    BY <1>1
  <1>3. billed' \in Nat /\ billed' <= d.cost + cancels + crashes
        /\ billed' <= ch.cost + cancels + crashes + 1
    BY <1>1
  <1> QED  BY <1>2, <1>3 DEF Accounted, due1, laps1

(* A node that calls no model.                                             *)
LEMMA QuietAccounts ==
    ASSUME Inv, NEW d \in Channels, NEW n, next # "end",
           billed' = billed, aside' = aside, d.cost = ch.cost, d.steps = ch.steps,
           d.guarded = ch.guarded, d.planned = ch.planned,
           d.reflections = ch.reflections
    PROVE  Accounted(d, n)
  <1>1. Due(d, n, turn) <= Due(ch, next, turn)  BY DEF Due
  <1>2. Laps(d, turn) = Laps(ch, turn) /\ Laps(ch, turn) \in Nat
    BY Facts, LapsTyped DEF Laps
  <1>3. aside' = aside + 0  BY Facts
  <1>4. Due(d, n, turn) \in Nat /\ Due(ch, next, turn) \in Nat  BY DueTyped
  <1>5. Due(d, n, turn) + 0 + Laps(ch, turn) <= Due(ch, next, turn) + Laps(d, turn)
    BY <1>1, <1>2, <1>4
  <1> QED  BY <1>3, <1>5, Accounts

LEMMA EmitTyped ==
    ASSUME Inv, EmitCompletion
    PROVE  completed' \in Nat
  BY Facts DEF EmitCompletion

LEMMA NewTurnStep == Inv /\ NewTurn => Inv'
  <1> SUFFICES ASSUME Inv, NewTurn PROVE Inv'  OBVIOUS
  <1> DEFINE d == [ch EXCEPT !.tail = "human"]
  <1>1. /\ d \in Channels /\ d.steps = ch.steps /\ d.cost = ch.cost
        /\ d.guarded = ch.guarded /\ d.planned = ch.planned
        /\ d.reflections = ch.reflections
        /\ ch.steps \in Nat /\ ch.cost \in Nat /\ ch.guarded \in Nat
        /\ Len(ch.reflections) \in Nat
    <2>1. ch \in Channels  BY Facts
    <2>2. d \in Channels  BY <2>1 DEF Channels
    <2>3. /\ d.steps = ch.steps /\ d.cost = ch.cost
          /\ d.guarded = ch.guarded /\ d.planned = ch.planned
          /\ d.reflections = ch.reflections
      BY <2>1 DEF Channels
    <2>4. /\ ch.steps \in Nat /\ ch.cost \in Nat /\ ch.guarded \in Nat
          /\ ch.reflections \in Seq(Nat)
      BY <2>1 DEF Channels
    <2> QED  BY <2>2, <2>3, <2>4
  <1> HIDE DEF d
  <1>2. /\ ch' = d /\ next' = "guard_input" /\ turn' = turn + 1 /\ live' = TRUE
        /\ completed' = 0 /\ cleared' = FALSE /\ emitted' = emitted /\ billed' = billed
        /\ aside' = aside
        /\ cancels' = cancels /\ crashes' = crashes
    BY DEF NewTurn, d, bounds
  <1>3. Counts(d, "guard_input", turn + 1)
    <2>1. /\ ch.steps < MaxSteps + turn + Len(ch.reflections)
          /\ ch.cost < MaxCost + turn
      BY Facts DEF Sound, Counts
    <2>2. turn \in Nat /\ MaxSteps \in Nat /\ MaxCost \in Nat  BY Facts, AgentAssumption
    <2> DEFINE l == Len(ch.reflections)
    <2>3. ch.steps \in Nat /\ l \in Nat /\ ch.steps < MaxSteps + turn + l  BY <1>1, <2>1
    <2> HIDE DEF l
    <2>4. /\ ch.steps + 1 < MaxSteps + (turn + 1) + l
          /\ ch.steps < MaxSteps + (turn + 1) + l
      BY <2>2, <2>3
    <2>5. ch.cost + 1 < MaxCost + (turn + 1) /\ ch.cost < MaxCost + (turn + 1)
      BY <1>1, <2>1, <2>2
    <2> QED  BY <1>1, <2>4, <2>5 DEF Counts, Uncounted, Unpaid, Paid, l
  <1>4. Reflected(d, "guard_input", turn + 1)
    BY <1>1, Facts DEF Sound, Reflected, Critiques
  <1>5. Guarded(d, "guard_input", turn + 1)
    BY <1>1, Facts DEF Sound, Guarded
  <1>6. Sound(ch', next', turn')
    <2>1. Settled(d, "guard_input", turn + 1)  BY DEF Settled
    <2> QED  BY <1>1, <1>2, <1>3, <1>4, <1>5, <2>1 DEF Sound, Nodes
  <1>7. TypeOK'
    <2>1. turn + 1 \in Nat /\ "guard_input" \in Nodes  BY Facts DEF Nodes
    <2>2. /\ emitted \subseteq Nat /\ billed \in Nat /\ aside \in Nat
          /\ cancels \in Nat /\ crashes \in Nat
      BY Facts
    <2> QED  BY <1>1, <1>2, <2>1, <2>2 DEF TypeOK
  <1>8. Sound(ch, next, turn)'
    BY <1>6 DEF Sound, Counts, Reflected, Guarded, Critiques, Settled, OverBudget
  <1>9. GuardedBeforeModel'  BY <1>2 DEF GuardedBeforeModel, Loop
  <1>10. Recorded'  BY <1>2, Facts DEF Recorded
  <1>11. Charged'  BY <1>1, <1>2, Facts DEF Charged
  <1>12. Aside'
    <2> DEFINE due == Due(ch, next, turn)
               due1 == Due(d, "guard_input", turn + 1)
               laps == Laps(ch, turn)
               laps1 == Laps(d, turn + 1)
    <2>1. due \in Nat /\ due1 \in Nat /\ due1 <= 3  BY DueTyped
    <2>2. laps \in Nat /\ laps1 = laps + 3
      <3>1. turn \in Nat /\ laps \in Nat  BY Facts, LapsTyped
      <3>2. 3 * (turn + 1) = 3 * turn + 3  BY <3>1
      <3> QED  BY <1>1, <3>1, <3>2 DEF Laps
    <2>3. /\ aside + due <= laps + cancels + crashes
          /\ aside \in Nat /\ cancels \in Nat /\ crashes \in Nat
      BY Facts
    <2>4. Due(ch, next, turn)' = due1 /\ Laps(ch, turn)' = laps1
      BY <1>2 DEF Due, Laps
    <2> HIDE DEF due, due1, laps, laps1
    <2>5. aside + due1 <= laps1 + cancels + crashes  BY <2>1, <2>2, <2>3
    <2> QED  BY <1>2, <2>4, <2>5 DEF Aside
  <1> QED  BY <1>7, <1>8, <1>9, <1>10, <1>11, <1>12 DEF Inv

LEMMA ResumeStep == Inv /\ Resume => Inv'
  <1> SUFFICES ASSUME Inv, Resume PROVE Inv'  OBVIOUS
  <1>1. /\ ch' = ch /\ next' = next /\ turn' = turn /\ live' = TRUE
        /\ completed' = completed /\ cleared' = cleared /\ emitted' = emitted
        /\ billed' = billed /\ aside' = aside /\ cancels' = cancels /\ crashes' = crashes
    BY DEF Resume, bounds
  <1>2. TypeOK'  BY <1>1 DEF Inv, TypeOK
  <1>3. Sound(ch, next, turn)'
    BY <1>1 DEF Inv, Sound, Counts, Reflected, Guarded, Critiques, Settled, OverBudget
  <1>4. GuardedBeforeModel' /\ Recorded' /\ Charged' /\ Aside'
    BY <1>1 DEF Inv, GuardedBeforeModel, Recorded, Charged, Aside, Due, Laps
  <1> QED  BY <1>2, <1>3, <1>4 DEF Inv

LEMMA BackoffStep == Inv /\ BackoffPasses => Inv'
  <1> SUFFICES ASSUME Inv, BackoffPasses PROVE Inv'  OBVIOUS
  <1> DEFINE d == [ch EXCEPT !.waits = FALSE]
  <1>1. /\ d \in Channels /\ d.steps = ch.steps /\ d.cost = ch.cost
        /\ d.guarded = ch.guarded /\ d.planned = ch.planned
        /\ d.reflections = ch.reflections
        /\ d.verdict = ch.verdict /\ d.outcome = ch.outcome
    BY Facts DEF Channels
  <1> HIDE DEF d
  <1>2. /\ ch' = d /\ next' = next /\ turn' = turn /\ live' = live
        /\ completed' = completed /\ cleared' = cleared /\ emitted' = emitted
        /\ billed' = billed /\ aside' = aside /\ cancels' = cancels /\ crashes' = crashes
    BY DEF BackoffPasses, d, bounds
  <1>3. Counts(d, next, turn) /\ Reflected(d, next, turn) /\ Guarded(d, next, turn)
    BY <1>1, Facts DEF Sound, Counts, Reflected, Guarded, Critiques
  <1>4. Sound(ch', next', turn')
    <2>1. Settled(d, next, turn)
      BY <1>1, Facts DEF Sound, Settled, Critiques, OverBudget
    <2> QED  BY <1>1, <1>2, <1>3, <2>1, Facts DEF Sound
  <1>5. TypeOK'  BY <1>1, <1>2 DEF Inv, TypeOK
  <1>6. Sound(ch, next, turn)'
    BY <1>4 DEF Sound, Counts, Reflected, Guarded, Critiques, Settled, OverBudget
  <1>7. GuardedBeforeModel'  BY <1>2 DEF Inv, GuardedBeforeModel
  <1>8. Recorded' /\ Charged'  BY <1>1, <1>2 DEF Inv, Recorded, Charged
  <1>9. Aside'  BY <1>1, <1>2 DEF Inv, Aside, Due, Laps
  <1> QED  BY <1>5, <1>6, <1>7, <1>8, <1>9 DEF Inv

LEMMA GuardInputStep == Inv /\ GuardInput => Inv'
  <1> SUFFICES ASSUME Inv, GuardInput PROVE Inv'  OBVIOUS
  <1>1. At(next) /\ next = "guard_input" /\ billed' = billed  BY DEF GuardInput, At
  <1>2. ~AlreadyGuarded /\ CallAside
    <2>1. ~AlreadyGuarded
      BY <1>1, Facts DEF AlreadyGuarded, Sound, Guarded, Channels
    <2> QED  BY <2>1 DEF GuardInput
  <1>3. ASSUME NEW d \in Channels, d.steps = ch.steps, d.cost = ch.cost,
               d.guarded = turn, d.planned = ch.planned,
               d.reflections = ch.reflections,
               NEW n \in {"route", "end"}, n = "end" => d.outcome = "rejected"
        PROVE  Sound(d, n, turn) /\ Accounted(d, n)
    <2>1. Counts(d, n, turn)
      BY <1>1, <1>3, Facts DEF Sound, Counts, Uncounted, Unpaid, Paid
    <2>2. Reflected(d, n, turn)  BY <1>3, Facts DEF Sound, Reflected, Critiques
    <2>3. Guarded(d, n, turn)  BY <1>1, <1>3, Facts DEF Sound, Guarded
    <2>4. Settled(d, n, turn)  BY <1>3 DEF Settled
    <2>5. Accounted(d, n)
      <3>1. Due(d, n, turn) + 1 <= Due(ch, next, turn)
        BY <1>1, <1>2, <1>3 DEF Due, AlreadyGuarded
      <3>2. Laps(d, turn) = Laps(ch, turn) /\ Laps(ch, turn) \in Nat
        BY <1>3, Facts, LapsTyped DEF Laps
      <3>3. Due(d, n, turn) \in Nat /\ Due(ch, next, turn) \in Nat  BY DueTyped
      <3>4. Due(d, n, turn) + 1 + Laps(ch, turn) <= Due(ch, next, turn) + Laps(d, turn)
        BY <3>1, <3>2, <3>3
      <3> QED  BY <1>1, <1>2, <1>3, <3>4, Accounts DEF CallAside
    <2> QED  BY <1>3, <2>1, <2>2, <2>3, <2>4, <2>5 DEF Sound, Nodes
  <1>4. CASE /\ cleared' = TRUE
             /\ LET c == [ch EXCEPT !.guarded = turn]
                IN  Finish(c, GuardRouting(c), emitted)
             /\ UNCHANGED completed
    <2> DEFINE d == [ch EXCEPT !.guarded = turn]
               n == GuardRouting(d)
    <2>1. /\ d \in Channels /\ d.steps = ch.steps /\ d.cost = ch.cost
          /\ d.guarded = turn /\ d.planned = ch.planned
          /\ d.reflections = ch.reflections
      BY Facts DEF Channels
    <2>2. n \in {"route", "end"} /\ (n = "end" => d.outcome = "rejected")
      BY DEF GuardRouting
    <2>3. Finish(d, n, emitted) /\ completed' = completed /\ cleared' = TRUE  BY <1>4
    <2> HIDE DEF d, n
    <2>4. Sound(d, n, turn) /\ Accounted(d, n)  BY <1>3, <2>1, <2>2
    <2> QED  BY <1>1, <2>1, <2>3, <2>4, Facts, FinishKeeps
  <1>5. CASE /\ cleared' = FALSE
             /\ LET c == [ch EXCEPT !.guarded = turn, !.outcome = "rejected"]
                IN  Finish(c, GuardRouting(c), Remember)
             /\ EmitCompletion
    <2> DEFINE d == [ch EXCEPT !.guarded = turn, !.outcome = "rejected"]
               n == GuardRouting(d)
    <2>1. /\ d \in Channels /\ d.steps = ch.steps /\ d.cost = ch.cost
          /\ d.guarded = turn /\ d.planned = ch.planned
          /\ d.reflections = ch.reflections
      BY Facts DEF Channels
    <2>2. n = "end" /\ d.outcome = "rejected"  BY Facts DEF GuardRouting, Channels
    <2>3. Finish(d, n, Remember) /\ EmitCompletion /\ cleared' = FALSE  BY <1>5
    <2> HIDE DEF d, n
    <2>4. Sound(d, n, turn) /\ Accounted(d, n)  BY <1>3, <2>1, <2>2
    <2>5. next' \in {next, n}  BY <2>3, <2>4, Facts, FinishSound
    <2>6. next' \notin Loop  BY <1>1, <2>2, <2>5 DEF Loop
    <2> QED  BY <1>1, <2>1, <2>3, <2>4, <2>6, Facts, EmitTyped, FinishKeeps
  <1> QED  BY <1>2, <1>4, <1>5 DEF GuardInput

(* A node of the loop keeps the guard's verdict.                           *)
LEMMA LoopKeeps ==
    ASSUME Inv, NEW c, NEW n, NEW m, Finish(c, n, m), live, next \in Loop,
           Sound(c, n, turn), m \subseteq Nat, cleared' = cleared,
           completed' \in Nat, Accounted(c, n),
           \/ emitted \subseteq m /\ completed' = completed
           \/ m = Remember /\ EmitCompletion
    PROVE  Inv'
  <1>1. cleared' \in BOOLEAN /\ (next' \in Loop => cleared')  BY Facts
  <1>2. At(next)  BY DEF At
  <1> QED  BY <1>1, <1>2, FinishKeeps

LEMMA RouteStep == Inv /\ Route => Inv'
  <1> SUFFICES ASSUME Inv, Route PROVE Inv'  OBVIOUS
  <1>1. live /\ next = "route" /\ billed' = billed /\ cleared' = cleared
    BY DEF Route, At
  <1>2. next \in Loop  BY <1>1 DEF Loop
  <1>3. ASSUME NEW d \in Channels, d.steps = ch.steps, d.cost = ch.cost,
               d.guarded = ch.guarded, d.reflections = ch.reflections
        PROVE  Sound(d, "call_llm", turn)
    <2>1. Settled(d, "call_llm", turn)  BY DEF Settled
    <2> QED
      BY <1>1, <1>3, <2>1, Facts, SoundAlike DEF Uncounted, Unpaid, Paid, Nodes
  <1>4. CASE ch.cost >= MaxCost
    <2> DEFINE d == [ch EXCEPT !.outcome = "budget_exceeded"]
    <2>1. /\ d \in Channels /\ d.steps = ch.steps /\ d.cost = ch.cost
          /\ d.guarded = ch.guarded /\ d.planned = ch.planned
          /\ d.reflections = ch.reflections
      BY Facts DEF Channels
    <2>2. Finish(d, "call_llm", Remember) /\ EmitCompletion /\ aside' = aside
      BY <1>4 DEF Route
    <2> HIDE DEF d
    <2>3. Sound(d, "call_llm", turn)  BY <1>3, <2>1
    <2>4. Accounted(d, "call_llm")  BY <1>1, <2>1, <2>2, QuietAccounts
    <2> QED  BY <1>1, <1>2, <2>2, <2>3, <2>4, Facts, EmitTyped, LoopKeeps
  <1>5. CASE ~(ch.cost >= MaxCost)
    <2> DEFINE d == [ch EXCEPT !.planned = turn]
    <2>1. /\ d \in Channels /\ d.steps = ch.steps /\ d.cost = ch.cost
          /\ d.guarded = ch.guarded /\ d.planned = turn
          /\ d.reflections = ch.reflections
      BY Facts DEF Channels
    <2>2. /\ Finish(d, "call_llm", emitted) /\ completed' = completed
          /\ IF ch.planned = turn THEN aside' = aside ELSE aside' = aside + 1
      BY <1>5 DEF Route, CallAside
    <2> HIDE DEF d
    <2>3. Sound(d, "call_llm", turn)  BY <1>3, <2>1
    <2>4. CASE ch.planned = turn
      <3>1. Accounted(d, "call_llm")  BY <1>1, <2>1, <2>2, <2>4, QuietAccounts
      <3> QED  BY <1>1, <1>2, <2>2, <2>3, <3>1, Facts, LoopKeeps
    <2>5. CASE ch.planned # turn
      <3>1. Due(d, "call_llm", turn) + 1 <= Due(ch, next, turn)
        BY <1>1, <2>1, <2>5 DEF Due
      <3>2. Laps(d, turn) = Laps(ch, turn) /\ Laps(ch, turn) \in Nat
        BY <2>1, Facts, LapsTyped DEF Laps
      <3>3. Due(d, "call_llm", turn) \in Nat /\ Due(ch, next, turn) \in Nat
        BY DueTyped
      <3>4. Due(d, "call_llm", turn) + 1 + Laps(ch, turn)
              <= Due(ch, next, turn) + Laps(d, turn)
        BY <3>1, <3>2, <3>3
      <3>5. Accounted(d, "call_llm")  BY <1>1, <2>1, <2>2, <2>5, <3>4, Accounts
      <3> QED  BY <1>1, <1>2, <2>2, <2>3, <3>5, Facts, LoopKeeps
    <2> QED  BY <2>4, <2>5
  <1> QED  BY <1>4, <1>5

(* Where a paid call leads, the money allows.                              *)
LEMMA CalledSound ==
    ASSUME Inv, next = "call_llm", NEW cost \in 0..1, NEW d \in Channels,
           d.steps = ch.steps, d.cost = ch.cost + cost,
           d.guarded = ch.guarded, d.reflections = ch.reflections
    PROVE  Sound(d, ParseResponse(d), turn)
  <1>1. /\ ch.cost \in Nat /\ d.cost \in Nat /\ cost \in Nat /\ cost <= 1
        /\ turn \in Nat /\ MaxCost \in Nat
    BY Facts, AgentAssumption
  <1>2. ch.cost + 1 < MaxCost + turn  BY Facts DEF Sound, Counts, Unpaid
  <1>3. d.cost < MaxCost + turn  BY <1>1, <1>2
  <1>4. ParseResponse(d) \in {"end", "verify", "evaluate"}  BY DEF ParseResponse
  <1>5. ParseResponse(d) # "end" => d.cost < MaxCost
    BY <1>1 DEF ParseResponse, OverBudget
  <1>6. Counts(d, ParseResponse(d), turn)
    BY <1>3, <1>4, <1>5, Facts DEF Sound, Counts, Uncounted, Unpaid, Paid
  <1>7. Reflected(d, ParseResponse(d), turn)
    BY <1>4, Facts DEF Sound, Reflected, Critiques
  <1>8. Guarded(d, ParseResponse(d), turn)
    BY <1>4, Facts DEF Sound, Guarded
  <1>9. Settled(d, ParseResponse(d), turn)
    BY <1>4 DEF Settled, ParseResponse
  <1> QED  BY <1>4, <1>6, <1>7, <1>8, <1>9 DEF Sound, Nodes

LEMMA CallLlmStep == Inv /\ CallLlm => Inv'
  <1> SUFFICES ASSUME Inv, CallLlm PROVE Inv'  OBVIOUS
  <1>1. /\ live /\ next = "call_llm" /\ cleared' = cleared /\ completed' = completed
        /\ next \in Loop /\ aside' = aside
    BY DEF CallLlm, At, Loop
  <1>2. PICK cost \in 0..1, tail \in {"answer", "calls"} :
          LET c == [ch EXCEPT !.tail = tail, !.cost = ch.cost + cost,
                              !.directed = ch.directed \/ WrapUp]
          IN  /\ billed' = billed + cost
              /\ Finish(c, ParseResponse(c), emitted)
    BY DEF CallLlm
  <1> DEFINE d == [ch EXCEPT !.tail = tail, !.cost = ch.cost + cost,
                             !.directed = ch.directed \/ WrapUp]
  <1>3. ch.directed \in BOOLEAN /\ ch.cost + cost \in Nat  BY Facts DEF Channels
  <1>4. /\ d \in Channels /\ d.steps = ch.steps /\ d.cost = ch.cost + cost
        /\ d.guarded = ch.guarded /\ d.planned = ch.planned
        /\ d.reflections = ch.reflections
    BY <1>3, Facts DEF Channels
  <1>5. Finish(d, ParseResponse(d), emitted) /\ billed' = billed + cost  BY <1>2
  <1> HIDE DEF d
  <1>6. Sound(d, ParseResponse(d), turn)  BY <1>1, <1>4, CalledSound
  <1>7. Accounted(d, ParseResponse(d))
    <2> DEFINE due == Due(ch, next, turn)
               laps == Laps(ch, turn)
    <2>1. /\ billed \in Nat /\ cost \in Nat /\ cost <= 1 /\ ch.cost \in Nat
          /\ cancels \in Nat /\ crashes \in Nat /\ aside \in Nat
          /\ billed <= ch.cost + cancels + crashes
          /\ aside + due <= laps + cancels + crashes
          /\ due \in Nat /\ laps \in Nat
      BY Facts, DueTyped, LapsTyped
    <2>2. Due(d, ParseResponse(d), turn) <= due
      BY <1>1, <1>4 DEF Due
    <2>3. Laps(d, turn) = laps  BY <1>4 DEF Laps
    <2>4. Due(d, ParseResponse(d), turn) \in Nat  BY DueTyped
    <2> HIDE DEF due, laps
    <2>5. /\ billed' \in Nat /\ billed' <= d.cost + cancels + crashes
          /\ billed' <= ch.cost + cancels + crashes + 1
      BY <1>4, <1>5, <2>1
    <2>6. /\ aside' \in Nat /\ aside' <= aside + 1
          /\ aside' + Due(d, ParseResponse(d), turn) <= laps + cancels + crashes
      BY <1>1, <2>1, <2>2, <2>4
    <2> QED  BY <2>3, <2>5, <2>6 DEF Accounted
  <1> QED  BY <1>1, <1>5, <1>6, <1>7, Facts, LoopKeeps

LEMMA CallFailsStep == Inv /\ CallFails => Inv'
  <1> SUFFICES ASSUME Inv, CallFails PROVE Inv'  OBVIOUS
  <1>1. /\ live /\ next = "call_llm" /\ cleared' = cleared /\ completed' = completed
        /\ next \in Loop /\ billed' = billed /\ aside' = aside
    BY DEF CallFails, At, Loop
  <1>2. PICK error \in Errors \ {"none"} :
          LET c == [ch EXCEPT !.llmError = error, !.directed = ch.directed \/ WrapUp]
          IN  Finish(c, ParseResponse(c), emitted)
    BY DEF CallFails
  <1> DEFINE d == [ch EXCEPT !.llmError = error, !.directed = ch.directed \/ WrapUp]
  <1>3. ch.directed \in BOOLEAN  BY Facts DEF Channels
  <1>4. /\ d \in Channels /\ d.steps = ch.steps /\ d.cost = ch.cost
        /\ d.guarded = ch.guarded /\ d.planned = ch.planned
        /\ d.reflections = ch.reflections
    BY <1>3, Facts DEF Channels
  <1>5. Finish(d, ParseResponse(d), emitted)  BY <1>2
  <1> HIDE DEF d
  <1>6. d.cost = ch.cost + 0  BY <1>4, Facts
  <1>7. Sound(d, ParseResponse(d), turn)  BY <1>1, <1>4, <1>6, CalledSound
  <1>8. Accounted(d, ParseResponse(d))  BY <1>1, <1>4, QuietAccounts
  <1> QED  BY <1>1, <1>5, <1>7, <1>8, Facts, LoopKeeps

(* The nodes that lead to one node and record nothing.                     *)
LEMMA QuietStep ==
    ASSUME Inv, live, next \in Loop, NEW d \in Channels, NEW n, Finish(d, n, emitted),
           d.steps = ch.steps, d.cost = ch.cost,
           d.guarded = ch.guarded, d.planned = ch.planned,
           d.reflections = ch.reflections,
           \/ next = "verify" /\ n \in {"execute_tool", "evaluate"}
           \/ next = "execute_tool" /\ n = "evaluate",
           UNCHANGED <<cleared, completed, billed, aside>>
    PROVE  Inv'
  <1>1. Sound(d, n, turn)
    <2>1. n \in Nodes /\ n # "reflect"  BY DEF Nodes
    <2>2. Settled(d, n, turn)  BY DEF Settled
    <2> QED  BY <2>1, <2>2, Facts, SoundAlike DEF Uncounted, Unpaid, Paid
  <1>2. Accounted(d, n)  BY QuietAccounts
  <1> QED  BY <1>1, <1>2, Facts, LoopKeeps

LEMMA VerifyStep == Inv /\ Verify => Inv'
  <1> SUFFICES ASSUME Inv, Verify PROVE Inv'  OBVIOUS
  <1>1. /\ live /\ next = "verify" /\ next \in Loop
        /\ UNCHANGED <<cleared, completed, billed, aside>>
    BY DEF Verify, At, Loop
  <1>2. CASE Finish(ch, "execute_tool", emitted)
    <2> QED  BY <1>1, <1>2, Facts, QuietStep
  <1>3. CASE Finish([ch EXCEPT !.outcome = "rejected", !.error = "recoverable"],
                    "evaluate", emitted)
    <2> DEFINE d == [ch EXCEPT !.outcome = "rejected", !.error = "recoverable"]
    <2>1. /\ d \in Channels /\ d.steps = ch.steps /\ d.cost = ch.cost
          /\ d.guarded = ch.guarded /\ d.planned = ch.planned
          /\ d.reflections = ch.reflections
      BY Facts DEF Channels, Errors
    <2>2. Finish(d, "evaluate", emitted)  BY <1>3
    <2> HIDE DEF d
    <2> QED  BY <1>1, <2>1, <2>2, QuietStep
  <1> QED  BY <1>2, <1>3 DEF Verify

LEMMA ExecuteToolStep == Inv /\ ExecuteTool => Inv'
  <1> SUFFICES ASSUME Inv, ExecuteTool PROVE Inv'  OBVIOUS
  <1>1. /\ live /\ next = "execute_tool" /\ next \in Loop
        /\ UNCHANGED <<cleared, completed, billed, aside>>
    BY DEF ExecuteTool, At, Loop
  <1>2. PICK tail \in {"tool", "tool_error"}, repeats \in {"few", "many", "stuck"} :
          Finish([ch EXCEPT !.tail = tail, !.repeats = repeats], "evaluate", emitted)
    BY DEF ExecuteTool
  <1> DEFINE d == [ch EXCEPT !.tail = tail, !.repeats = repeats]
  <1>3. /\ d \in Channels /\ d.steps = ch.steps /\ d.cost = ch.cost
        /\ d.guarded = ch.guarded /\ d.planned = ch.planned
        /\ d.reflections = ch.reflections
    BY Facts DEF Channels
  <1>4. Finish(d, "evaluate", emitted)  BY <1>2
  <1> HIDE DEF d
  <1> QED  BY <1>1, <1>3, <1>4, QuietStep

(* Where the evaluation leads, the budgets allow.                          *)
LEMMA EvaluatedSound ==
    ASSUME Inv, next = "evaluate", NEW d \in Channels,
           d.steps = ch.steps + 1, d.cost = ch.cost,
           d.guarded = ch.guarded, d.reflections = ch.reflections,
           NEW prose \in BOOLEAN
    PROVE  Sound(d, AfterEvaluation(d, prose), turn)
  <1> DEFINE n == AfterEvaluation(d, prose)
             l == Len(ch.reflections)
  <1>1. /\ ch.steps \in Nat /\ ch.cost \in Nat /\ l \in Nat /\ turn \in Nat /\ turn > 0
        /\ MaxSteps \in Nat /\ MaxCost \in Nat
    BY Facts, AgentAssumption DEF Channels, Sound, Guarded
  <1>2. ch.steps + 1 < MaxSteps + turn + l /\ ch.cost < MaxCost + turn /\ ch.cost < MaxCost
    BY Facts DEF Sound, Counts, Uncounted, Paid
  <1>3. n \in {"route", "reflect", "recap"}  BY DEF AfterEvaluation
  <1>4. n = "route" => d.steps < MaxSteps
    BY <1>1 DEF AfterEvaluation, Continues, OutOfSteps
  <1>5. n = "reflect" => Critiques(d, turn) < MaxReflexions
    BY DEF AfterEvaluation, Attempts
  <1>6. l = Len(d.reflections)  OBVIOUS
  <1> HIDE DEF n, l
  <1>7. d.steps < MaxSteps + turn + l  BY <1>2
  <1>8. n = "route" => d.steps + 1 < MaxSteps + turn + l
    <2> DEFINE s == d.steps
    <2>1. s \in Nat  BY <1>1
    <2>2. n = "route" => s < MaxSteps  BY <1>4
    <2> HIDE DEF s
    <2>3. n = "route" => s + 1 < MaxSteps + turn + l  BY <1>1, <2>1, <2>2
    <2> QED  BY <2>3 DEF s
  <1>9. ch.cost + 1 < MaxCost + turn  BY <1>1, <1>2
  <1>10. Counts(d, n, turn)
    BY <1>2, <1>3, <1>6, <1>7, <1>8, <1>9 DEF Counts, Uncounted, Unpaid, Paid
  <1>11. Reflected(d, n, turn)
    BY <1>5, Facts DEF Sound, Reflected, Critiques
  <1>12. Guarded(d, n, turn)  BY <1>1, <1>3, Facts DEF Sound, Guarded
  <1>13. Settled(d, n, turn)
    <2>1. Critiques(d, turn) \in Nat /\ MaxReflexions \in Nat
      BY CritiquesTyped, AgentAssumption
    <2>2. Critiques(d, turn) <= MaxReflexions  BY <1>1, <1>11 DEF Reflected
    <2>3. ASSUME Reflexion, d.verdict = "failed", n = "recap"
          PROVE  ~(Critiques(d, turn) < MaxReflexions)
      BY <2>3 DEF n, AfterEvaluation, Attempts
    <2> QED  BY <1>3, <2>1, <2>2, <2>3 DEF Settled
  <1>14. Sound(d, n, turn)  BY <1>3, <1>10, <1>11, <1>12, <1>13 DEF Sound, Nodes
  <1> QED  BY <1>14 DEF n

(* A lap pays for its judge.                                               *)
LEMMA LapAccounts ==
    ASSUME Inv, next = "evaluate", NEW d \in Channels, NEW n, NEW r \in {0, 1},
           billed' = billed, aside' = aside + r, d.cost = ch.cost,
           d.steps = ch.steps + 1, d.reflections = ch.reflections,
           d.guarded = ch.guarded, d.planned = ch.planned
    PROVE  Accounted(d, n)
  <1>1. Due(d, n, turn) <= Due(ch, next, turn)  BY DEF Due
  <1>2. Laps(d, turn) = Laps(ch, turn) + 1 /\ Laps(ch, turn) \in Nat
    <2>1. /\ ch.steps \in Nat /\ ch.reflections \in Seq(Nat) /\ turn \in Nat
          /\ Len(ch.reflections) \in Nat
      BY Facts DEF Channels
    <2>2. Laps(ch, turn) \in Nat  BY Facts, LapsTyped
    <2> QED  BY <2>1, <2>2 DEF Laps
  <1>3. Due(d, n, turn) \in Nat /\ Due(ch, next, turn) \in Nat  BY DueTyped
  <1>4. Due(d, n, turn) + r + Laps(ch, turn) <= Due(ch, next, turn) + Laps(d, turn)
    BY <1>1, <1>2, <1>3
  <1> QED  BY <1>4, Accounts

LEMMA EvaluateStep == Inv /\ Evaluate => Inv'
  <1> SUFFICES ASSUME Inv, Evaluate PROVE Inv'  OBVIOUS
  <1>1. /\ live /\ next = "evaluate" /\ next \in Loop
        /\ cleared' = cleared /\ billed' = billed
    BY DEF Evaluate, At, Loop
  <1>2. PICK error \in StepErrors, prose \in BOOLEAN :
          LET c == Evaluated(error)
          IN  IF Continues(c, FALSE, error = "retryable")
              THEN /\ Finish(c, AfterEvaluation(c, prose), emitted)
                   /\ UNCHANGED <<completed, aside>>
              ELSE /\ CallAside
                   /\ \E v \in Verdicts(c) :
                         LET judged == [c EXCEPT !.verdict = v]
                         IN  Finish(judged, AfterEvaluation(judged, prose), Remember)
                   /\ EmitCompletion
    BY DEF Evaluate
  <1> DEFINE c == Evaluated(error)
  <1>3. error \in Errors  BY Facts DEF StepErrors, Errors, Channels
  <1>4. /\ c \in Channels /\ c.steps = ch.steps + 1 /\ c.cost = ch.cost
        /\ c.guarded = ch.guarded /\ c.planned = ch.planned
        /\ c.reflections = ch.reflections
    <2>1. /\ ch.steps + 1 \in Nat /\ ch.waits \in BOOLEAN /\ "none" \in Errors
          /\ (ch.waits \/ error = "retryable") \in BOOLEAN
      BY Facts DEF Channels, Errors
    <2>2. ch \in Channels  BY Facts
    <2> QED  BY <1>3, <2>1, <2>2, ZenonT(60) DEF Evaluated, Channels
  <1> HIDE DEF c
  <1>5. CASE Finish(c, AfterEvaluation(c, prose), emitted)
             /\ completed' = completed /\ aside' = aside
    <2>1. Sound(c, AfterEvaluation(c, prose), turn)  BY <1>1, <1>4, EvaluatedSound
    <2>2. aside' = aside + 0  BY <1>5, Facts
    <2>3. Accounted(c, AfterEvaluation(c, prose))  BY <1>1, <1>4, <2>2, LapAccounts
    <2> QED  BY <1>1, <1>5, <2>1, <2>3, Facts, LoopKeeps
  <1>6. ASSUME NEW v \in Verdicts(c), EmitCompletion, CallAside,
               Finish([c EXCEPT !.verdict = v],
                      AfterEvaluation([c EXCEPT !.verdict = v], prose), Remember)
        PROVE  Inv'
    <2> DEFINE d == [c EXCEPT !.verdict = v]
    <2>1. v \in {"success", "failed"}  BY DEF Verdicts
    <2>2. /\ d \in Channels /\ d.steps = ch.steps + 1 /\ d.cost = ch.cost
          /\ d.guarded = ch.guarded /\ d.planned = ch.planned
          /\ d.reflections = ch.reflections
      BY <1>4, <2>1 DEF Channels
    <2>3. Finish(d, AfterEvaluation(d, prose), Remember)  BY <1>6
    <2> HIDE DEF d
    <2>4. Sound(d, AfterEvaluation(d, prose), turn)  BY <1>1, <2>2, EvaluatedSound
    <2>5. aside' = aside + 1  BY <1>6 DEF CallAside
    <2>6. Accounted(d, AfterEvaluation(d, prose))  BY <1>1, <2>2, <2>5, LapAccounts
    <2> QED  BY <1>1, <1>6, <2>3, <2>4, <2>6, Facts, EmitTyped, LoopKeeps
  <1> QED  BY <1>2, <1>5, <1>6 DEF c

LEMMA ReflectStep == Inv /\ Reflect => Inv'
  <1> SUFFICES ASSUME Inv, Reflect PROVE Inv'  OBVIOUS
  <1>1. /\ live /\ next = "reflect" /\ next \in Loop
        /\ cleared' = cleared /\ billed' = billed /\ completed' = completed
    BY DEF Reflect, At, Loop
  <1> DEFINE d == [ch EXCEPT !.reflections = Append(ch.reflections, Tagged)]
             l == Len(ch.reflections)
  <1>2. /\ ch.reflections \in Seq(Nat) /\ turn \in Nat /\ l \in Nat /\ ch.steps \in Nat
        /\ ch.cost \in Nat /\ turn > 0 /\ MaxSteps \in Nat /\ MaxCost \in Nat
        /\ MaxReflexions \in Nat
    BY <1>1, Facts, AgentAssumption DEF Channels, Sound, Guarded
  <1>3. /\ Append(ch.reflections, turn) \in Seq(Nat)
        /\ Len(Append(ch.reflections, turn)) = l + 1
    BY <1>2
  <1>4. /\ d \in Channels /\ d.steps = ch.steps /\ d.cost = ch.cost
        /\ d.guarded = ch.guarded /\ d.planned = ch.planned
        /\ d.reflections = Append(ch.reflections, turn)
    <2>1. ch \in Channels  BY Facts
    <2> QED  BY <1>3, <2>1, ZenonT(60) DEF Tagged, Channels
  <1>5. Finish(d, "route", emitted)  BY DEF Reflect
  <1>6. ch.steps < MaxSteps + turn + l /\ ch.cost < MaxCost
    BY <1>1, Facts DEF Sound, Counts, Paid
  <1> HIDE DEF d, l
  <1>7. Counts(d, "route", turn)
    <2> DEFINE s == ch.steps
    <2>1. s \in Nat /\ s < MaxSteps + turn + l  BY <1>2, <1>6
    <2> HIDE DEF s
    <2>2. s < MaxSteps + turn + (l + 1) /\ s + 1 < MaxSteps + turn + (l + 1)
      BY <1>2, <2>1
    <2>3. ch.cost + 1 < MaxCost + turn /\ ch.cost < MaxCost + turn  BY <1>2, <1>6
    <2> QED  BY <1>3, <1>4, <2>2, <2>3 DEF Counts, s, Uncounted, Unpaid, Paid
  <1>8. Reflected(d, "route", turn)
    <2> SUFFICES ASSUME NEW task \in Nat PROVE Critiques(d, task) <= MaxReflexions
      BY DEF Reflected
    <2>1. Critiques(ch, task) <= MaxReflexions /\ Critiques(ch, turn) < MaxReflexions
      BY <1>1, Facts DEF Sound, Reflected
    <2>2. Critiques(ch, task) \in Nat  BY Facts, CritiquesTyped
    <2>3. ch \in Channels  BY Facts
    <2>6. Critiques(d, task) = Critiques(ch, task) + (IF task = turn THEN 1 ELSE 0)
      BY <1>2, <1>4, <2>3, CritiqueAppended
    <2>4. CASE task = turn  BY <1>2, <2>1, <2>2, <2>4, <2>6
    <2>5. CASE task # turn  BY <1>2, <2>1, <2>2, <2>5, <2>6
    <2> QED  BY <2>4, <2>5
  <1>9. Guarded(d, "route", turn)  BY <1>2, <1>4, Facts DEF Sound, Guarded
  <1>10. Settled(d, "route", turn)  BY DEF Settled
  <1>11. Sound(d, "route", turn)
    BY <1>4, <1>7, <1>8, <1>9, <1>10 DEF Sound, Nodes
  <1>12. Accounted(d, "route")
    <2>1. Due(d, "route", turn) = Due(ch, next, turn)  BY <1>1, <1>4 DEF Due
    <2>2. Laps(d, turn) = Laps(ch, turn) + 1 /\ Laps(ch, turn) \in Nat
      <3>1. Laps(ch, turn) \in Nat  BY Facts, LapsTyped
      <3>2. Laps(ch, turn) = 3 * turn + ch.steps + l  BY DEF Laps, l
      <3>3. Laps(d, turn) = 3 * turn + ch.steps + (l + 1)  BY <1>3, <1>4 DEF Laps
      <3> DEFINE s == 3 * turn + ch.steps
      <3>4. s \in Nat /\ l \in Nat  BY <1>2
      <3> HIDE DEF s
      <3>5. s + (l + 1) = (s + l) + 1  BY <3>4
      <3> QED  BY <3>1, <3>2, <3>3, <3>5 DEF s
    <2>3. Due(d, "route", turn) + 1 + Laps(ch, turn) <= Due(ch, next, turn) + Laps(d, turn)
      BY <2>1, <2>2, DueTyped
    <2>4. aside' = aside + 1  BY DEF Reflect, CallAside
    <2> QED  BY <1>1, <1>4, <2>3, <2>4, Accounts
  <1> QED  BY <1>1, <1>5, <1>11, <1>12, Facts, LoopKeeps

LEMMA RecapStep == Inv /\ Recap => Inv'
  <1> SUFFICES ASSUME Inv, Recap PROVE Inv'  OBVIOUS
  <1>1. /\ live /\ next = "recap" /\ Finish(ch, "end", emitted)
        /\ cleared' = cleared /\ billed' = billed /\ completed' = completed
    BY DEF Recap, At
  <1>2. Sound(ch, "end", turn)
    <2>1. Settled(ch, "end", turn)  BY <1>1, Facts DEF Sound, Settled
    <2> QED  BY <1>1, <2>1, Facts, SoundAlike DEF Uncounted, Unpaid, Paid, Nodes
  <1>3. next' \in {next, "end"}  BY <1>1, <1>2, Facts, FinishSound
  <1>4. next' \notin Loop /\ At(next)  BY <1>1, <1>3 DEF Loop, At
  <1>5. Accounted(ch, "end")
    <2>1. Due(ch, "end", turn) + 1 = Due(ch, next, turn)  BY <1>1 DEF Due
    <2>2. Laps(ch, turn) \in Nat  BY Facts, LapsTyped
    <2>3. Due(ch, "end", turn) \in Nat  BY DueTyped
    <2>4. Due(ch, "end", turn) + 1 + Laps(ch, turn) <= Due(ch, next, turn) + Laps(ch, turn)
      BY <2>1, <2>2, <2>3
    <2>5. aside' = aside + 1  BY DEF Recap, CallAside
    <2> QED  BY <1>1, <2>4, <2>5, Facts, Accounts
  <1> QED  BY <1>1, <1>2, <1>4, <1>5, Facts, FinishKeeps

LEMMA InitInv == Init => Inv
  <1> SUFFICES ASSUME Init PROVE Inv  OBVIOUS
  <1>1. /\ ch \in Channels /\ ch.steps = 0 /\ ch.cost = 0 /\ ch.guarded = 0
        /\ ch.planned = 0 /\ ch.verdict = "none"
        /\ ch.reflections = <<>> /\ Len(ch.reflections) = 0
    BY DEF Init, Channels, Errors
  <1>2. /\ next = "end" /\ turn = 0 /\ live = FALSE /\ emitted = {} /\ cleared = FALSE
        /\ completed = 0 /\ billed = 0 /\ aside = 0 /\ cancels = 0 /\ crashes = 0
    BY DEF Init
  <1>3. TypeOK  BY <1>1, <1>2 DEF TypeOK, Nodes
  <1>4. \A task : Critiques(ch, task) = 0
    <2> TAKE task
    <2>1. {i \in DOMAIN ch.reflections : ch.reflections[i] = task} = {}  BY <1>1
    <2> QED  BY <2>1, FS_EmptySet DEF Critiques
  <1>5. Counts(ch, next, turn)
    BY <1>1, <1>2, AgentAssumption DEF Counts, Uncounted, Unpaid, Paid
  <1>6. Reflected(ch, next, turn)  BY <1>2, <1>4, AgentAssumption DEF Reflected
  <1>7. Guarded(ch, next, turn)  BY <1>1, <1>2 DEF Guarded
  <1>8. Sound(ch, next, turn)
    <2>1. Settled(ch, next, turn)  BY <1>1 DEF Settled
    <2> QED  BY <1>1, <1>2, <1>5, <1>6, <1>7, <2>1 DEF Sound, Nodes
  <1>9. GuardedBeforeModel /\ Recorded /\ Charged
    BY <1>1, <1>2 DEF GuardedBeforeModel, Loop, Recorded, Charged
  <1>10. Aside  BY <1>1, <1>2 DEF Aside, Due, Laps
  <1> QED  BY <1>3, <1>8, <1>9, <1>10 DEF Inv

LEMMA NextInv == Inv /\ [Next]_vars => Inv'
  <1> SUFFICES ASSUME Inv, [Next]_vars PROVE Inv'  OBVIOUS
  <1>1. CASE UNCHANGED vars
    BY <1>1 DEF vars, bounds, Inv, TypeOK, Sound, Counts, Reflected, Guarded, Critiques,
                Settled, OverBudget, GuardedBeforeModel, Recorded, Charged, Aside, Due, Laps
  <1>2. CASE NewTurn \/ Resume \/ BackoffPasses
    BY <1>2, NewTurnStep, ResumeStep, BackoffStep
  <1>3. CASE Node
    BY <1>3, GuardInputStep, RouteStep, CallLlmStep, CallFailsStep, VerifyStep,
       ExecuteToolStep, EvaluateStep, ReflectStep, RecapStep DEF Node
  <1> QED  BY <1>1, <1>2, <1>3 DEF Next

LEMMA Invariance == Spec => []Inv
  BY InitInv, NextInv, PTL DEF Spec

-----------------------------------------------------------------------------
(***************************************************************************)
(* The theorems.                                                           *)
(***************************************************************************)

(* The channels and the history keep their types.                          *)
THEOREM AgentTypeCorrect == Spec => []TypeOK
  <1>1. Inv => TypeOK  BY DEF Inv
  <1> QED  BY <1>1, Invariance, PTL

(* No model and no tool sees an input that the guard of react_loop.py did  *)
(* not accept in this turn.                                                *)
THEOREM GuardComesFirst == Spec => []GuardedBeforeModel
  <1>1. Inv => GuardedBeforeModel  BY DEF Inv
  <1> QED  BY <1>1, Invariance, PTL

(* The steps of a thread stay within max_steps, but for one lap for each   *)
(* later turn and each reflection.                                         *)
THEOREM StepsStayBounded == Spec => []StepsBounded
  <1>1. Inv => StepsBounded  BY DEF Inv, Sound, Counts, StepsBounded
  <1> QED  BY <1>1, Invariance, PTL

(* What call_llm spends stays within max_cost_usd, but for one call for    *)
(* each later turn and each cut; the rounds of the guard, the planner, the *)
(* judge, the critique and the recap, which total_cost_usd does not count, *)
(* stay within three for each turn, one for each step, reflection and cut. *)
THEOREM SpendStaysBounded == Spec => []SpendBounded
  <1>1. Inv => SpendBounded
    <2> SUFFICES ASSUME Inv PROVE SpendBounded  OBVIOUS
    <2> DEFINE cost == ch.cost
               laps == Laps(ch, turn)
               due == Due(ch, next, turn)
    <2>1. /\ billed <= cost + cancels + crashes /\ cost < MaxCost + turn
          /\ cost \in Nat /\ turn \in Nat /\ billed \in Nat
          /\ cancels \in Nat /\ crashes \in Nat /\ MaxCost \in Nat
      BY Facts, AgentAssumption DEF Sound, Counts
    <2>2. /\ aside + due <= laps + cancels + crashes
          /\ aside \in Nat /\ due \in Nat /\ laps \in Nat
      BY Facts, DueTyped, LapsTyped
    <2>3. laps = 3 * turn + ch.steps + Len(ch.reflections)  BY DEF Laps
    <2> HIDE DEF cost, laps, due
    <2>4. billed < MaxCost + turn + cancels + crashes  BY <2>1
    <2>5. aside <= laps + cancels + crashes  BY <2>1, <2>2
    <2> QED  BY <2>3, <2>4, <2>5 DEF SpendBounded
  <1> QED  BY <1>1, Invariance, PTL

(* A turn reflects at most max_reflexion_attempts times.                   *)
THEOREM ReflexionsStayBounded == Spec => []ReflexionBounded
  <1>1. Inv => ReflexionBounded
    BY Facts DEF Sound, Reflected, ReflexionBounded
  <1> QED  BY <1>1, Invariance, PTL

(* The COMPLETION phase of a turn is recorded once, and once more for each *)
(* death of the process.                                                   *)
THEOREM CompletionRecordedOnce == Spec => []CompletionOnce
  <1>1. Inv => CompletionOnce
    <2> SUFFICES ASSUME Inv PROVE CompletionOnce  OBVIOUS
    <2>1. /\ completed <= crashes + (IF turn \in emitted THEN 1 ELSE 0)
          /\ completed \in Nat /\ crashes \in Nat
      BY Facts DEF Inv, Recorded
    <2> QED  BY <2>1 DEF CompletionOnce
  <1> QED  BY <1>1, Invariance, PTL

(* A thread rests on a failed verdict only when the turn's own reflections *)
(* are used up, the budget is spent or the guard halted the turn: over all *)
(* the ways into END of react_loop.py's graph, cuts and resumes.           *)
THEOREM FailuresAreReflected == Spec => []FailureReflected
  <1>1. Inv => FailureReflected
    BY DEF Inv, Sound, Settled, FailureReflected
  <1> QED  BY <1>1, Invariance, PTL
=============================================================================
