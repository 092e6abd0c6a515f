-------------------------- MODULE QuizSessionProofs --------------------------
(***************************************************************************)
(* Theorems about the practice quiz, for any questions, letters, pages,    *)
(* failures and reloads.                                                   *)
(*                                                                         *)
(* A step changes one page, or one request and the rows it is about.  The  *)
(* pages' transitions come first, each on its own; then the requests.      *)
(***************************************************************************)
EXTENDS QuizSession, FiniteSetTheorems, TLAPS

-----------------------------------------------------------------------------
(***************************************************************************)
(* Pages.                                                                  *)
(***************************************************************************)

(* A page that shows an item, or owes an answer, knows which.              *)
PageOK(p) ==
    /\ p \in Pages
    /\ p.phase \in {"offered", "answering", "solved"} => p.q \in Questions
    /\ p.pending # NoPending => p.q \in Questions /\ p.pending.letter \in Letters

LEMMA NoPendingTyped ==
    NoPending \in [key : Nat, letter : Letters \cup {NoLetter},
                   first : BOOLEAN, prior : BOOLEAN]
  BY DEF NoPending

LEMMA MountedOK == PageOK(Mounted)
  <1>1. ZeroScore \in Scores  BY DEF ZeroScore, Scores
  <1> QED  BY <1>1, NoPendingTyped DEF PageOK, Mounted, Pages

LEMMA FreshOK ==
    ASSUME NEW p, PageOK(p), NEW q \in Questions
    PROVE  PageOK(FreshAnswering(p, q))
  BY NoPendingTyped DEF PageOK, FreshAnswering, Pages

LEMMA OfferedOK ==
    ASSUME NEW p, PageOK(p), NEW q \in Questions, NEW score \in Scores
    PROVE  /\ PageOK([p EXCEPT !.phase = "offered", !.q = q])
           /\ PageOK([p EXCEPT !.phase = "offered", !.q = q, !.score = score])
  <1>1. PageOK([p EXCEPT !.phase = "offered", !.q = q])  BY DEF PageOK, Pages
  <1>2. PageOK([p EXCEPT !.phase = "offered", !.q = q, !.score = score])
    BY DEF PageOK, Pages
  <1> QED  BY <1>1, <1>2

(* The pages that only change their phase, score or flags.                 *)
LEMMA PhaseOK ==
    ASSUME NEW p, PageOK(p), NEW score \in Scores,
           NEW ph \in {"advancing", "loading", "exhausted", "halted", "done",
                       "summary", "fresh"}
    PROVE  /\ PageOK([p EXCEPT !.phase = ph])
           /\ PageOK([p EXCEPT !.phase = ph, !.score = score])
           /\ PageOK([p EXCEPT !.score = score, !.phase = ph])
           /\ PageOK([p EXCEPT !.phase = ph, !.closing = TRUE])
           /\ PageOK([p EXCEPT !.phase = ph, !.failed = TRUE])
  <1>1. PageOK([p EXCEPT !.phase = ph])  BY DEF PageOK, Pages
  <1>2. PageOK([p EXCEPT !.phase = ph, !.score = score])  BY DEF PageOK, Pages
  <1>3. PageOK([p EXCEPT !.phase = ph, !.closing = TRUE])  BY DEF PageOK, Pages
  <1>4. PageOK([p EXCEPT !.phase = ph, !.failed = TRUE])  BY DEF PageOK, Pages
  <1>5. PageOK([p EXCEPT !.score = score, !.phase = ph])  BY DEF PageOK, Pages
  <1> QED  BY <1>1, <1>2, <1>3, <1>4, <1>5

LEMMA FlagsOK ==
    ASSUME NEW p, PageOK(p), NEW persist \in {"idle", "pending", "error"},
           NEW closing \in BOOLEAN
    PROVE  /\ PageOK([p EXCEPT !.closing = closing])
           /\ PageOK([p EXCEPT !.failed = TRUE])
           /\ PageOK([p EXCEPT !.closing = FALSE, !.failed = TRUE])
           /\ PageOK([p EXCEPT !.persist = persist])
  <1>1. PageOK([p EXCEPT !.closing = closing])  BY DEF PageOK, Pages
  <1>2. PageOK([p EXCEPT !.failed = TRUE])  BY DEF PageOK, Pages
  <1>3. PageOK([p EXCEPT !.closing = FALSE, !.failed = TRUE])
    BY ZenonT(60) DEF PageOK, Pages
  <1>4. PageOK([p EXCEPT !.persist = persist])  BY DEF PageOK, Pages
  <1> QED  BY <1>1, <1>2, <1>3, <1>4

LEMMA NextOK ==
    ASSUME NEW p, PageOK(p)
    PROVE  PageOK([p EXCEPT !.phase = "loading", !.pending = NoPending,
                            !.res = NoRes, !.active = NoLetter])
  BY NoPendingTyped, ZenonT(60) DEF PageOK, Pages

LEMMA SettledOK ==
    ASSUME NEW p, PageOK(p)
    PROVE  PageOK(Settled(p))
  BY NoPendingTyped, ZenonT(60) DEF PageOK, Pages, Settled

LEMMA EscapeOK ==
    ASSUME NEW p, PageOK(p)
    PROVE  PageOK(EscapeTaken(p))
  <1>1. CASE p.phase = "answering" /\ p.active # NoLetter
    <2>1. EscapeTaken(p) = [p EXCEPT !.phase = "solved", !.active = NoLetter,
                                     !.res = "walked_through", !.score.total = @ + 1]
      BY <1>1 DEF EscapeTaken
    <2>2. [p.score EXCEPT !.total = @ + 1] \in Scores  BY DEF PageOK, Pages, Scores
    <2> DEFINE score == [p.score EXCEPT !.total = @ + 1]
    <2>3. EscapeTaken(p) = [p EXCEPT !.phase = "solved", !.active = NoLetter,
                                     !.res = "walked_through", !.score = score]
      BY <2>1
    <2> HIDE DEF score
    <2>4. score \in Scores  BY <2>2 DEF score
    <2> QED  BY <1>1, <2>3, <2>4, ZenonT(60) DEF PageOK, Pages, Resolutions
  <1>2. CASE ~(p.phase = "answering" /\ p.active # NoLetter)
    BY <1>2 DEF EscapeTaken
  <1> QED  BY <1>1, <1>2

LEMMA SubmittedOK ==
    ASSUME NEW p, PageOK(p), p.phase = "answering", NEW letter \in Letters
    PROVE  /\ PageOK(Submitted(p, letter))
           /\ Submitted(p, letter).q = p.q
           /\ Submitted(p, letter).q \in Questions
  <1>1. p \in Pages /\ p.q \in Questions  BY DEF PageOK
  <1>2. CASE letter # Right
    <2>1. Submitted(p, letter) = [p EXCEPT !.active = letter] /\ letter \in Wrongs
      BY <1>2 DEF Submitted, Letters
    <2> QED  BY <1>1, <2>1 DEF PageOK, Pages
  <1>3. CASE letter = Right
    <2> DEFINE res == ResolutionOf(letter, p.active # NoLetter)
               score == [correct |-> p.score.correct + (IF res = "first_try" THEN 1 ELSE 0),
                         total |-> p.score.total + 1]
    <2>1. Submitted(p, letter) = [p EXCEPT !.phase = "solved", !.active = NoLetter,
                                           !.res = res, !.score = score]
      BY <1>3 DEF Submitted
    <2>2. res \in Resolutions  BY <1>3 DEF ResolutionOf, Resolutions
    <2>3. p.score.correct \in Nat /\ p.score.total \in Nat  BY <1>1 DEF Pages, Scores
    <2>4. score \in Scores  BY <2>3 DEF Scores
    <2> HIDE DEF res, score
    <2> DEFINE sub == [p EXCEPT !.phase = "solved", !.active = NoLetter,
                                !.res = res, !.score = score]
    <2>5. sub \in Pages  BY <1>1, <2>2, <2>4 DEF Pages
    <2>6. sub.q = p.q /\ sub.pending = p.pending  BY <1>1 DEF Pages
    <2> HIDE DEF sub
    <2>7. PageOK(sub)  BY <1>1, <2>5, <2>6 DEF PageOK
    <2> QED  BY <1>1, <2>1, <2>6, <2>7 DEF sub
  <1> QED  BY <1>2, <1>3

LEMMA PendingOK ==
    ASSUME NEW p, PageOK(p), p.q \in Questions, NEW letter \in Letters,
           NEW key \in Nat, NEW first \in BOOLEAN, NEW prior \in BOOLEAN
    PROVE  PageOK([p EXCEPT !.pending = [key |-> key, letter |-> letter,
                                         first |-> first, prior |-> prior],
                            !.persist = "pending"])
  BY DEF PageOK, Pages

-----------------------------------------------------------------------------
(***************************************************************************)
(* Rows and tallies.                                                       *)
(***************************************************************************)

(* A tally of finitely many rows is a score.                               *)
LEMMA TallyTyped ==
    ASSUME NEW rows, IsFiniteSet(rows)
    PROVE  CommitFirstTally(rows) \in Scores
  <1>1. IsFiniteSet(Attempted(rows))
    <2> DEFINE f == [r \in rows |-> r.q]
    <2>1. f \in Surjection(rows, Attempted(rows))
      BY DEF Attempted, Surjection
    <2> HIDE DEF f
    <2> QED  BY <2>1, FS_Surjection
  <1>2. ASSUME NEW kinds  PROVE Cardinality(CountedAs(rows, kinds)) \in Nat
    <2>1. CountedAs(rows, kinds) \in SUBSET Attempted(rows)  BY DEF CountedAs
    <2> QED  BY <1>1, <2>1, FS_Subset, FS_CardinalityType
  <1> QED  BY <1>2 DEF CommitFirstTally, Scores

LEMMA NewRowTyped ==
    ASSUME NEW q \in Questions, NEW key \in Nat, NEW letter \in Letters,
           NEW res \in Resolutions \cup {NoRes}, clock \in Nat
    PROVE  NewRow(q, key, letter, res) \in Rows
  BY DEF NewRow, Rows

(* What comes back of an insert is a row of the kind that was sent, and it *)
(* is stored.                                                              *)
LEMMA StoredIsStored ==
    ASSUME NEW row \in Rows, attempts \in SUBSET Rows, IsFiniteSet(attempts), Insert(row)
    PROVE  /\ attempts' \in SUBSET Rows /\ IsFiniteSet(attempts')
           /\ attempts \subseteq attempts'
           /\ StoredFor(row) \in attempts' /\ StoredFor(row) \in Rows
  <1>1. CASE \E s \in attempts : SameAnswer(row, s)
    <2>1. StoredFor(row) \in attempts  BY <1>1 DEF StoredFor
    <2> QED  BY <1>1, <2>1 DEF Insert
  <1>2. CASE ~\E s \in attempts : SameAnswer(row, s)
    <2>1. attempts' = attempts \cup {row}  BY <1>2 DEF Insert
    <2>2. StoredFor(row) = row  BY <1>2 DEF StoredFor
    <2> QED  BY <2>1, <2>2, FS_AddElement
  <1> QED  BY <1>1, <1>2

-----------------------------------------------------------------------------
(***************************************************************************)
(* Requests.                                                               *)
(***************************************************************************)
TabsOrNone == Tabs \cup {NoTab}

AttemptRequests == [kind : {"attempt", "escape"}, tab : TabsOrNone, st : Steps, body : Rows]
ReviewRequests == [kind : {"review"}, tab : TabsOrNone, st : Steps, body : Seq(Rows)]
CloseRequests == [kind : {"close"}, tab : TabsOrNone, st : Steps, body : Scores]
PointerRequests == [kind : {"pointer"}, tab : {NoTab}, st : {"sent"}, body : Questions]

LEMMA RequestKinds ==
    ASSUME NEW r
    PROVE  r \in Requests <=> \/ r \in AttemptRequests \/ r \in ReviewRequests
                               \/ r \in CloseRequests \/ r \in PointerRequests
  BY DEF Requests, AttemptRequests, ReviewRequests, CloseRequests, PointerRequests, TabsOrNone

(* What a request's kind says of its body.                                 *)
LEMMA BodyTyped ==
    ASSUME NEW r \in Requests
    PROVE  /\ r.kind \in {"attempt", "escape"} => r \in AttemptRequests
           /\ r.kind = "review" => r \in ReviewRequests
           /\ r.kind = "close" => r \in CloseRequests
           /\ r.kind = "pointer" => r \in PointerRequests
  BY RequestKinds DEF AttemptRequests, ReviewRequests, CloseRequests, PointerRequests

(* A request that goes one step further is still one.                      *)
LEMMA FurtherTyped ==
    ASSUME NEW r \in Requests, r.kind # "pointer", NEW st \in Steps
    PROVE  /\ [r EXCEPT !.st = st] \in Requests
           /\ Orphan(r) \in Requests
  <1>1. CASE r \in AttemptRequests
    <2>1. [r EXCEPT !.st = st] \in AttemptRequests /\ [r EXCEPT !.tab = NoTab] \in AttemptRequests
      BY <1>1 DEF AttemptRequests, TabsOrNone
    <2> QED  BY <2>1, RequestKinds DEF Orphan
  <1>2. CASE r \in ReviewRequests
    <2>1. [r EXCEPT !.st = st] \in ReviewRequests /\ [r EXCEPT !.tab = NoTab] \in ReviewRequests
      BY <1>2 DEF ReviewRequests, TabsOrNone
    <2> QED  BY <2>1, RequestKinds DEF Orphan
  <1>3. CASE r \in CloseRequests
    <2>1. [r EXCEPT !.st = st] \in CloseRequests /\ [r EXCEPT !.tab = NoTab] \in CloseRequests
      BY <1>3 DEF CloseRequests, TabsOrNone
    <2> QED  BY <2>1, RequestKinds DEF Orphan
  <1>4. r \notin PointerRequests  BY DEF PointerRequests
  <1> QED  BY <1>1, <1>2, <1>3, <1>4, RequestKinds

LEMMA AttemptTyped ==
    ASSUME NEW r \in Requests, r.kind \in {"attempt", "escape"}, NEW st \in Steps, NEW row \in Rows
    PROVE  [r EXCEPT !.st = st, !.body = row] \in Requests
  <1>1. r \in AttemptRequests  BY BodyTyped
  <1>2. [r EXCEPT !.st = st, !.body = row] \in AttemptRequests
    BY <1>1 DEF AttemptRequests
  <1> QED  BY <1>2, RequestKinds

LEMMA ReviewTyped ==
    ASSUME NEW r \in Requests, r.kind = "review", NEW st \in Steps, NEW rows \in Seq(Rows)
    PROVE  [r EXCEPT !.st = st, !.body = rows] \in Requests
  <1>1. r \in ReviewRequests  BY BodyTyped
  <1>2. [r EXCEPT !.st = st, !.body = rows] \in ReviewRequests
    BY <1>1 DEF ReviewRequests
  <1> QED  BY <1>2, RequestKinds

LEMMA CloseTyped ==
    ASSUME NEW r \in Requests, r.kind = "close", NEW st \in Steps, NEW score \in Scores
    PROVE  [r EXCEPT !.st = st, !.body = score] \in Requests
  <1>1. r \in CloseRequests  BY BodyTyped
  <1>2. [r EXCEPT !.st = st, !.body = score] \in CloseRequests
    BY <1>1 DEF CloseRequests
  <1> QED  BY <1>2, RequestKinds

(* What the pages send.                                                    *)
LEMMA SentTyped ==
    ASSUME NEW t \in Tabs
    PROVE  /\ CloseBy(t) \in Requests
           /\ \A q \in Questions : PointerTo(q) \in Requests
           /\ \A row \in Rows : /\ Request("attempt", t, row) \in Requests
                                /\ Request("escape", t, row) \in Requests
           /\ \A rows \in Seq(Rows) : Request("review", t, rows) \in Requests
  <1>1. CloseBy(t) \in CloseRequests
    BY DEF CloseBy, Request, CloseRequests, TabsOrNone, Steps, ZeroScore, Scores
  <1>2. ASSUME NEW q \in Questions  PROVE PointerTo(q) \in PointerRequests
    BY DEF PointerTo, Request, PointerRequests
  <1>3. ASSUME NEW row \in Rows, NEW kind \in {"attempt", "escape"}
        PROVE  Request(kind, t, row) \in AttemptRequests
    BY DEF Request, AttemptRequests, TabsOrNone, Steps
  <1>4. ASSUME NEW rows \in Seq(Rows)  PROVE Request("review", t, rows) \in ReviewRequests
    BY DEF Request, ReviewRequests, TabsOrNone, Steps
  <1> QED  BY <1>1, <1>2, <1>3, <1>4, RequestKinds

-----------------------------------------------------------------------------
(***************************************************************************)
(* The inductive invariant: types, and rows on their way into the card are *)
(* stored ones.                                                            *)
(***************************************************************************)

(* A review under way writes stored rows, a reply to an attempt carries    *)
(* one.                                                                    *)
Backed(r) ==
    /\ r.kind = "review" => \A i \in DOMAIN r.body : r.body[i] \in attempts
    /\ r.kind \in {"attempt", "escape"} /\ r.st = "ok" => r.body \in attempts

Inv ==
    /\ TypeOK
    /\ IsFiniteSet(attempts)
    /\ \A t \in Tabs : PageOK(page[t])
    /\ ReviewsBacked
    /\ \A r \in net : Backed(r)

LEMMA InitInv == Init => Inv
  <1> SUFFICES ASSUME Init PROVE Inv  OBVIOUS
  <1>1. ZeroScore \in Scores  BY DEF ZeroScore, Scores
  <1>2. StoreTypeOK
    BY <1>1 DEF Init, StoreInit, StoreTypeOK
  <1>3. PageOK(Mounted)  BY MountedOK
  <1>4. page \in [Tabs -> Pages] /\ \A t \in Tabs : PageOK(page[t])
    BY <1>3 DEF Init, PageOK
  <1>5. TypeOK  BY <1>2, <1>4 DEF Init, TypeOK
  <1>6. IsFiniteSet(attempts)  BY FS_EmptySet DEF Init, StoreInit
  <1> QED  BY <1>4, <1>5, <1>6 DEF Init, StoreInit, Inv, ReviewsBacked

(* What every step has to show.                                            *)
LEMMA StepKeeps ==
    ASSUME Inv, StoreTypeOK', IsFiniteSet(attempts'), attempts \subseteq attempts',
           ReviewsBacked', page' \in [Tabs -> Pages], (\A t \in Tabs : PageOK(page[t]))',
           \A r \in net' : r \in net \/ (r \in Requests /\ Backed(r)'),
           clock' \in Nat, faults' \in Nat, reloads' \in Nat,
           asked' \in [Tabs -> SUBSET Questions]
    PROVE  Inv'
  <1>1. net \in SUBSET Requests /\ \A r \in net : Backed(r)  BY DEF Inv, TypeOK
  <1>2. TypeOK'  BY <1>1 DEF TypeOK
  <1>3. ASSUME NEW r \in net'  PROVE Backed(r)'
    BY <1>1, <1>3 DEF Backed
  <1> QED  BY <1>2, <1>3 DEF Inv

(* A page's step: the rows stay.                                           *)
LEMMA PageStep ==
    ASSUME Inv, NEW t \in Tabs, NEW p, PageOK(p), Becomes(t, p),
           UNCHANGED storeVars,
           \A r \in net' : r \in net \/ (r \in Requests /\ Backed(r)),
           clock' \in Nat, faults' \in Nat, reloads' \in Nat,
           asked' \in [Tabs -> SUBSET Questions]
    PROVE  Inv'
  <1>1. page' = [page EXCEPT ![t] = p] /\ page \in [Tabs -> Pages] /\ p \in Pages
    BY DEF Becomes, Inv, TypeOK, PageOK
  <1>2. page' \in [Tabs -> Pages]  BY <1>1
  <1>3. ASSUME NEW s \in Tabs  PROVE PageOK(page'[s])
    <2>1. CASE s = t  BY <1>1, <2>1
    <2>2. CASE s # t  BY <1>1, <2>2 DEF Inv
    <2> QED  BY <2>1, <2>2
  <1>4. (\A s \in Tabs : PageOK(page[s]))'  BY <1>3 DEF PageOK
  <1>5. /\ StoreTypeOK' /\ IsFiniteSet(attempts') /\ attempts \subseteq attempts' /\ ReviewsBacked'
    BY DEF Inv, TypeOK, StoreTypeOK, ReviewsBacked, storeVars
  <1>6. attempts' = attempts  BY DEF storeVars
  <1>7. \A r \in net' : r \in net \/ (r \in Requests /\ Backed(r)')
    BY <1>6 DEF Backed
  <1> QED  BY <1>2, <1>4, <1>5, <1>7, StepKeeps

(* A request's step: the pages stay.                                       *)
LEMMA NetStep ==
    ASSUME Inv, UNCHANGED <<page, clock, reloads, asked>>, faults' \in Nat,
           StoreTypeOK', IsFiniteSet(attempts'), attempts \subseteq attempts', ReviewsBacked',
           \A r \in net' : r \in net \/ (r \in Requests /\ Backed(r)')
    PROVE  Inv'
  <1>1. /\ page' \in [Tabs -> Pages] /\ clock' \in Nat /\ reloads' \in Nat
        /\ asked' \in [Tabs -> SUBSET Questions]
    BY DEF Inv, TypeOK
  <1>2. (\A t \in Tabs : PageOK(page[t]))'  BY DEF Inv, PageOK
  <1> QED  BY <1>1, <1>2, StepKeeps

(* The requests that a page sends are backed.                              *)
LEMMA SentBacked ==
    ASSUME NEW t
    PROVE  /\ Backed(CloseBy(t)) /\ \A q : Backed(PointerTo(q))
           /\ \A row : Backed(Request("attempt", t, row)) /\ Backed(Request("escape", t, row))
  BY DEF Backed, CloseBy, PointerTo, Request

(* What the invariant says of a page, and of the other variables.          *)
LEMMA PageTyped ==
    ASSUME Inv, NEW t \in Tabs
    PROVE  /\ PageOK(page[t]) /\ page[t] \in Pages
           /\ clock \in Nat /\ faults \in Nat /\ reloads \in Nat
           /\ asked \in [Tabs -> SUBSET Questions]
           /\ CommitFirstTally(attempts) \in Scores
           /\ session.pointer \in Questions \cup {NoQuestion}
  BY TallyTyped DEF Inv, TypeOK, StoreTypeOK, PageOK

(* The pages' steps that send nothing, or close the session.               *)
LEMMA PlainStep ==
    ASSUME Inv, NEW t \in Tabs, NEW p, PageOK(p), Becomes(t, p),
           net' \subseteq net \cup {CloseBy(t)},
           UNCHANGED <<storeVars, clock>>, faults' \in Nat, reloads' \in Nat,
           asked' \in [Tabs -> SUBSET Questions]
    PROVE  Inv'
  <1>1. CloseBy(t) \in Requests /\ Backed(CloseBy(t))  BY SentTyped, SentBacked
  <1>2. \A r \in net' : r \in net \/ (r \in Requests /\ Backed(r))
    BY <1>1
  <1>3. clock' \in Nat /\ UNCHANGED storeVars  BY PageTyped
  <1> QED  BY <1>2, <1>3, PageStep

LEMMA AskedStays ==
    ASSUME Inv, asked' = asked
    PROVE  asked' \in [Tabs -> SUBSET Questions]
  BY DEF Inv, TypeOK

LEMMA GetActiveInv ==
    ASSUME Inv, NEW t \in Tabs, GetActive(t)
    PROVE  Inv'
  <1> DEFINE p == page[t]
             score == CommitFirstTally(attempts)
  <1>1. /\ PageOK(p) /\ faults \in Nat /\ reloads \in Nat /\ score \in Scores
        /\ session.pointer \in Questions \cup {NoQuestion}
        /\ asked \in [Tabs -> SUBSET Questions]
    BY PageTyped
  <1>2. UNCHANGED <<storeVars, net, clock, faults, reloads, asked>>  BY DEF GetActive
  <1> HIDE DEF score, p
  <1>3. \/ Becomes(t, [p EXCEPT !.phase = "fresh"])
        \/ Becomes(t, [p EXCEPT !.phase = "exhausted"])
        \/ Becomes(t, [p EXCEPT !.phase = "advancing", !.score = score])
        \/ /\ session.pointer \in Questions
           /\ Becomes(t, [p EXCEPT !.phase = "offered", !.q = session.pointer,
                                   !.score = score])
    BY <1>1 DEF GetActive, p, score
  <1>4. \E f : PageOK(f) /\ Becomes(t, f)  BY <1>1, <1>3, PhaseOK, OfferedOK
  <1> QED  BY <1>1, <1>2, <1>4, PlainStep

LEMMA GetNextInv ==
    ASSUME Inv, NEW t \in Tabs, GetNext(t)
    PROVE  Inv'
  <1> DEFINE p == page[t]
             shown == IF p.phase = "advancing" THEN ZeroScore ELSE p.score
  <1>1. /\ PageOK(p) /\ p \in Pages /\ faults \in Nat /\ reloads \in Nat
        /\ asked \in [Tabs -> SUBSET Questions]
    BY PageTyped
  <1>2. UNCHANGED <<storeVars, net, clock, faults, reloads, asked>>  BY DEF GetNext
  <1>3. shown \in Scores /\ p.score \in Scores
    BY <1>1 DEF Pages, ZeroScore, Scores
  <1>4. \/ \E q \in Servable : Becomes(t, [p EXCEPT !.phase = "offered", !.q = q])
        \/ Becomes(t, [p EXCEPT !.score = shown, !.phase = "exhausted"])
    BY DEF GetNext
  <1> HIDE DEF shown, p
  <1>5. Servable \subseteq Questions  BY DEF Servable
  <1>6. \E f : PageOK(f) /\ Becomes(t, f)  BY <1>1, <1>3, <1>4, <1>5, PhaseOK, OfferedOK
  <1> QED  BY <1>1, <1>2, <1>6, PlainStep

LEMMA ShowInv ==
    ASSUME Inv, NEW t \in Tabs, Show(t)
    PROVE  Inv'
  <1> DEFINE p == page[t]
  <1>1. /\ PageOK(p) /\ faults \in Nat /\ reloads \in Nat /\ clock \in Nat
        /\ asked \in [Tabs -> SUBSET Questions]
    BY PageTyped
  <1>2. /\ UNCHANGED <<storeVars, clock, faults, reloads>>
        /\ Becomes(t, FreshAnswering(p, p.q)) /\ net' = net \cup {PointerTo(p.q)}
        /\ p.phase = "offered"
    BY DEF Show
  <1>3. p.q \in Questions  BY <1>1, <1>2 DEF PageOK
  <1>4. asked' \in [Tabs -> SUBSET Questions]
    BY <1>1, <1>3 DEF Show
  <1>5. PageOK(FreshAnswering(p, p.q))  BY <1>1, <1>3, FreshOK
  <1>6. PointerTo(p.q) \in Requests /\ Backed(PointerTo(p.q))
    BY <1>3, SentTyped, SentBacked
  <1> QED  BY <1>1, <1>2, <1>4, <1>5, <1>6, PageStep

LEMMA CloseExhaustedInv ==
    ASSUME Inv, NEW t \in Tabs, CloseExhausted(t)
    PROVE  Inv'
  <1>1. /\ PageOK(page[t]) /\ page[t] \in Pages /\ faults \in Nat /\ reloads \in Nat
        /\ asked \in [Tabs -> SUBSET Questions]
    BY PageTyped
  <1>2. page[t].score \in Scores  BY <1>1 DEF Pages
  <1>3. PageOK([page[t] EXCEPT !.phase = "halted", !.closing = TRUE])  BY <1>1, <1>2, PhaseOK
  <1> QED  BY <1>1, <1>3, PlainStep DEF CloseExhausted

LEMMA ReadFailsInv ==
    ASSUME Inv, NEW t \in Tabs, ReadFails(t)
    PROVE  Inv'
  <1>1. /\ PageOK(page[t]) /\ page[t] \in Pages /\ faults \in Nat /\ reloads \in Nat
        /\ asked \in [Tabs -> SUBSET Questions]
    BY PageTyped
  <1>2. page[t].score \in Scores  BY <1>1 DEF Pages
  <1>3. PageOK([page[t] EXCEPT !.phase = "halted", !.failed = TRUE])  BY <1>1, <1>2, PhaseOK
  <1> QED  BY <1>1, <1>3, PlainStep DEF ReadFails

(* An answer of a page that shows a question.                              *)
LEMMA PersistInv ==
    ASSUME Inv, NEW t \in Tabs, NEW p, PageOK(p), p.q \in Questions,
           NEW key \in Nat, NEW letter \in Letters, NEW first \in BOOLEAN, NEW prior \in BOOLEAN,
           NEW resent, resent \subseteq {PointerTo(p.q)},
           PersistAnswer(t, p, [key |-> key, letter |-> letter,
                                first |-> first, prior |-> prior], resent)
    PROVE  Inv'
  <1> DEFINE pending == [key |-> key, letter |-> letter, first |-> first, prior |-> prior]
             res == ResolutionOf(letter, prior)
             row == NewRow(p.q, key, letter, res)
  <1>1. clock \in Nat /\ faults \in Nat /\ reloads \in Nat  BY PageTyped
  <1>2. res \in Resolutions \cup {NoRes}  BY DEF ResolutionOf, Resolutions
  <1>3. row \in Rows  BY <1>1, <1>2, NewRowTyped
  <1>4. PageOK([p EXCEPT !.pending = pending, !.persist = "pending"])  BY PendingOK
  <1>5. /\ Request("attempt", t, row) \in Requests /\ Backed(Request("attempt", t, row))
        /\ PointerTo(p.q) \in Requests /\ Backed(PointerTo(p.q))
    BY <1>3, SentTyped, SentBacked
  <1>6. /\ Becomes(t, [p EXCEPT !.pending = pending, !.persist = "pending"])
        /\ net' = net \cup {Request("attempt", t, row)} \cup resent
        /\ clock' = clock + 1 /\ UNCHANGED <<storeVars, faults, reloads, asked>>
    BY DEF PersistAnswer
  <1> HIDE DEF pending, res, row
  <1>7. \A r \in net' : r \in net \/ (r \in Requests /\ Backed(r))
    BY <1>5, <1>6
  <1>8. clock' \in Nat /\ faults' \in Nat /\ reloads' \in Nat  BY <1>1, <1>6
  <1> QED  BY <1>4, <1>6, <1>7, <1>8, PageStep, AskedStays

LEMMA KeyTyped ==
    ASSUME NEW p \in Pages, clock \in Nat
    PROVE  ActionKey(p) \in Nat
  BY DEF ActionKey, Pages

LEMMA OnSubmitInv ==
    ASSUME Inv, NEW t \in Tabs, OnSubmit(t)
    PROVE  Inv'
  <1> DEFINE p == page[t]
  <1>1. PageOK(p) /\ p \in Pages /\ clock \in Nat  BY PageTyped
  <1>2. p.phase = "answering"  BY DEF OnSubmit
  <1>3. PICK letter \in Letters \ {p.active} :
               PersistAnswer(t, Submitted(p, letter),
                   [key |-> ActionKey(p), letter |-> letter,
                    first |-> p.active = NoLetter, prior |-> p.active # NoLetter],
                   {PointerTo(p.q)})
    BY DEF OnSubmit
  <1>4. ActionKey(p) \in Nat  BY <1>1, KeyTyped
  <1> HIDE DEF p
  <1>5. /\ PageOK(Submitted(p, letter)) /\ Submitted(p, letter).q = p.q
        /\ Submitted(p, letter).q \in Questions
    BY <1>1, <1>2, SubmittedOK
  <1> DEFINE sub == Submitted(p, letter)
             key == ActionKey(p)
             first == p.active = NoLetter
             prior == p.active # NoLetter
             resent == {PointerTo(p.q)}
  <1>6. /\ PageOK(sub) /\ sub.q \in Questions /\ key \in Nat /\ first \in BOOLEAN
        /\ prior \in BOOLEAN /\ resent \subseteq {PointerTo(sub.q)} /\ letter \in Letters
        /\ PersistAnswer(t, sub, [key |-> key, letter |-> letter,
                                  first |-> first, prior |-> prior], resent)
    BY <1>3, <1>4, <1>5
  <1> HIDE DEF sub, key, first, prior, resent
  <1> QED  BY <1>6, PersistInv

LEMMA OnRetryPersistInv ==
    ASSUME Inv, NEW t \in Tabs, OnRetryPersist(t)
    PROVE  Inv'
  <1> DEFINE p == page[t]
             key == ActionKey(p)
             first == p.pending.first
             prior == p.pending.prior
             letter == p.pending.letter
  <1>1. PageOK(p) /\ p \in Pages /\ clock \in Nat  BY PageTyped
  <1>2. key \in Nat  BY <1>1, KeyTyped
  <1>3. p.q \in Questions /\ letter \in Letters  BY <1>1 DEF OnRetryPersist, PageOK
  <1>4. first \in BOOLEAN /\ prior \in BOOLEAN  BY <1>1 DEF Pages
  <1>5. [p.pending EXCEPT !.key = key]
          = [key |-> key, letter |-> letter, first |-> first, prior |-> prior]
    BY <1>1 DEF Pages
  <1>6. PersistAnswer(t, p, [key |-> key, letter |-> letter,
                             first |-> first, prior |-> prior], {})
    BY <1>5 DEF OnRetryPersist
  <1>7. {} \subseteq {PointerTo(p.q)}  OBVIOUS
  <1> HIDE DEF p, key, first, prior, letter
  <1> QED  BY <1>1, <1>2, <1>3, <1>4, <1>6, <1>7, PersistInv

LEMMA OnEscapeInv ==
    ASSUME Inv, NEW t \in Tabs, OnEscape(t)
    PROVE  Inv'
  <1> DEFINE p == page[t]
             row == NewRow(p.q, clock + 1, p.active, "walked_through")
  <1>1. /\ PageOK(p) /\ p \in Pages
        /\ clock \in Nat /\ faults \in Nat /\ reloads \in Nat
    BY PageTyped
  <1>2. p.q \in Questions /\ p.active \in Letters
    BY <1>1 DEF OnEscape, PageOK, Pages, Letters
  <1>3. row \in Rows  BY <1>1, <1>2, NewRowTyped DEF Resolutions
  <1>4. Request("escape", t, row) \in Requests /\ Backed(Request("escape", t, row))
    BY <1>3, SentTyped, SentBacked
  <1>5. /\ net' = net \cup {Request("escape", t, row)} /\ clock' = clock + 1
        /\ UNCHANGED <<storeVars, page, faults, reloads, asked>>
    BY DEF OnEscape
  <1> HIDE DEF row
  <1>6. \A r \in net' : r \in net \/ (r \in Requests /\ Backed(r))  BY <1>4, <1>5
  <1>7. page' = [page EXCEPT ![t] = p]  BY <1>5 DEF Inv, TypeOK
  <1>8. Becomes(t, p)  BY <1>7 DEF Becomes
  <1>9. clock' \in Nat /\ faults' \in Nat /\ reloads' \in Nat /\ UNCHANGED storeVars
    BY <1>1, <1>5
  <1>10. asked' \in [Tabs -> SUBSET Questions]  BY <1>5, AskedStays
  <1> HIDE DEF p
  <1> QED  BY <1>1, <1>6, <1>8, <1>9, <1>10, PageStep

LEMMA OnNextInv ==
    ASSUME Inv, NEW t \in Tabs, OnNext(t)
    PROVE  Inv'
  <1>1. PageOK(page[t]) /\ faults \in Nat /\ reloads \in Nat  BY PageTyped
  <1>2. PageOK([page[t] EXCEPT !.phase = "loading", !.pending = NoPending,
                              !.res = NoRes, !.active = NoLetter])
    BY <1>1, NextOK
  <1> QED  BY <1>1, <1>2, PlainStep, AskedStays DEF OnNext

(* Finish, the completion effect and End session.                          *)
LEMMA CloseAndRouteInv ==
    ASSUME Inv, NEW t \in Tabs, CloseAndRoute(t, page[t]), Solved(page[t])
    PROVE  Inv'
  <1>1. PageOK(page[t]) /\ faults \in Nat /\ reloads \in Nat  BY PageTyped
  <1>2. PageOK([page[t] EXCEPT !.phase = "done", !.closing = TRUE])
    BY <1>1, PhaseOK, PageTyped DEF Pages
  <1>3. Becomes(t, [page[t] EXCEPT !.phase = "done", !.closing = TRUE])
    BY DEF CloseAndRoute
  <1> QED  BY <1>1, <1>2, <1>3, PlainStep, AskedStays DEF CloseAndRoute

LEMMA OnEndSessionInv ==
    ASSUME Inv, NEW t \in Tabs, OnEndSession(t)
    PROVE  Inv'
  <1>1. PageOK(page[t]) /\ page[t] \in Pages /\ faults \in Nat /\ reloads \in Nat  BY PageTyped
  <1>2. page[t].score \in Scores  BY <1>1 DEF Pages
  <1>3. PageOK([page[t] EXCEPT !.phase = "done"])  BY <1>1, <1>2, PhaseOK
  <1> QED  BY <1>1, <1>3, PlainStep, AskedStays DEF OnEndSession

LEMMA ReloadInv ==
    ASSUME Inv, NEW t \in Tabs, Reload(t)
    PROVE  Inv'
  <1>1. clock \in Nat /\ faults \in Nat /\ reloads \in Nat  BY PageTyped
  <1>2. UNCHANGED storeVars /\ clock' \in Nat /\ faults' \in Nat /\ reloads' \in Nat
    BY <1>1 DEF Reload
  <1>3. ASSUME NEW s \in net, s.tab = t, s.st \in {"sent", "tallied"}
        PROVE  Orphan(s) \in Requests /\ Backed(Orphan(s))
    <2>1. s \in Requests /\ Backed(s)  BY DEF Inv, TypeOK
    <2>2. s.kind # "pointer"
      BY <1>3, <2>1, BodyTyped, SessionAssumption DEF PointerRequests
    <2>3. Orphan(s) \in Requests  BY <2>1, <2>2, FurtherTyped DEF Steps
    <2>4. Orphan(s).kind = s.kind /\ Orphan(s).st = s.st /\ Orphan(s).body = s.body
      BY <2>1 DEF Orphan, Requests
    <2> QED  BY <2>1, <2>3, <2>4 DEF Backed
  <1>4. \A r \in net' : r \in net \/ (r \in Requests /\ Backed(r))
    BY <1>3 DEF Reload
  <1>5. asked' \in [Tabs -> SUBSET Questions]
    <2>1. Attempted(attempts) \subseteq Questions
      BY DEF Inv, TypeOK, StoreTypeOK, Rows, Attempted
    <2> QED  BY <2>1 DEF Reload, Inv, TypeOK
  <1> QED  BY <1>2, <1>4, <1>5, MountedOK, PageStep DEF Reload

-----------------------------------------------------------------------------
(***************************************************************************)
(* The server's steps.                                                     *)
(***************************************************************************)

(* What an answer leaves in the network: the reply, or its loss.           *)
LEMMA AnswerKeeps ==
    ASSUME Inv, NEW r \in net, r.kind # "pointer", NEW body,
           [r EXCEPT !.st = "ok", !.body = body] \in Requests,
           Backed([r EXCEPT !.st = "ok", !.body = body])',
           attempts \subseteq attempts', Answer(r, body)
    PROVE  /\ \A s \in net' : s \in net \/ (s \in Requests /\ Backed(s)')
           /\ faults' \in Nat
  <1> DEFINE ok == [r EXCEPT !.st = "ok", !.body = body]
             err == [r EXCEPT !.st = "err"]
  <1>1. r \in Requests /\ Backed(r) /\ faults \in Nat  BY DEF Inv, TypeOK
  <1>2. err \in Requests  BY <1>1, FurtherTyped DEF Steps
  <1>3. err.kind = r.kind /\ err.body = r.body /\ err.st = "err"  BY <1>1 DEF Requests
  <1>4. Backed(err)'  BY <1>1, <1>3 DEF Backed
  <1>5. /\ net' \subseteq net \cup {ok, err}
        /\ faults' = faults \/ faults' = faults + 1
    BY DEF Answer
  <1> HIDE DEF ok, err
  <1>6. \A s \in net' : s \in net \/ s = ok \/ s = err  BY <1>5
  <1>7. ok \in Requests /\ Backed(ok)'  BY DEF ok
  <1> QED  BY <1>1, <1>2, <1>4, <1>5, <1>6, <1>7

LEMMA ServeAttemptInv ==
    ASSUME Inv, NEW r \in net, ServeAttempt(r)
    PROVE  Inv'
  <1>1. /\ r \in Requests /\ r.kind \in {"attempt", "escape"} /\ attempts \in SUBSET Rows
        /\ IsFiniteSet(attempts) /\ ReviewsBacked /\ StoreTypeOK
    BY DEF ServeAttempt, Inv, TypeOK, StoreTypeOK
  <1>2. r.body \in Rows  BY <1>1, BodyTyped DEF AttemptRequests
  <1>3. PICK row : row = StoredFor(r.body)  OBVIOUS
  <1>4. Insert(r.body)  BY DEF ServeAttempt
  <1>5. /\ attempts' \in SUBSET Rows /\ IsFiniteSet(attempts') /\ attempts \subseteq attempts'
        /\ row \in attempts' /\ row \in Rows
    BY <1>1, <1>2, <1>3, <1>4, StoredIsStored
  <1>6. [r EXCEPT !.st = "ok", !.body = row] \in Requests
    BY <1>1, <1>5, AttemptTyped DEF Steps
  <1> DEFINE ok == [r EXCEPT !.st = "ok", !.body = row]
  <1>7. ok.kind = r.kind /\ ok.body = row  BY <1>1 DEF Requests
  <1>8. Backed(ok)'  BY <1>1, <1>5, <1>7 DEF Backed
  <1>9. Answer(r, row)  BY <1>3 DEF ServeAttempt
  <1> HIDE DEF ok
  <1>10. /\ \A s \in net' : s \in net \/ (s \in Requests /\ Backed(s)')
         /\ faults' \in Nat
    BY <1>1, <1>5, <1>6, <1>8, <1>9, AnswerKeeps DEF ok
  <1>11. StoreTypeOK' /\ ReviewsBacked'
    BY <1>1, <1>5 DEF ServeAttempt, StoreTypeOK, ReviewsBacked
  <1> QED  BY <1>5, <1>10, <1>11, NetStep DEF ServeAttempt

LEMMA ServeReviewInv ==
    ASSUME Inv, NEW r \in net, ServeReview(r)
    PROVE  Inv'
  <1>1. /\ r \in Requests /\ r.kind = "review" /\ Backed(r) /\ StoreTypeOK
        /\ IsFiniteSet(attempts) /\ attempts' = attempts /\ card' = r.body /\ session' = session
    BY DEF ServeReview, Inv, TypeOK
  <1>2. r.body \in Seq(Rows)  BY <1>1, BodyTyped DEF ReviewRequests
  <1> DEFINE ok == [r EXCEPT !.st = "ok", !.body = r.body]
  <1>3. ok \in Requests  BY <1>1, <1>2, ReviewTyped DEF Steps
  <1>4. ok.kind = r.kind /\ ok.body = r.body  BY <1>1 DEF Requests
  <1>5. Backed(ok)'  BY <1>1, <1>4 DEF Backed
  <1>6. Answer(r, r.body)  BY DEF ServeReview
  <1> HIDE DEF ok
  <1>7. /\ \A s \in net' : s \in net \/ (s \in Requests /\ Backed(s)')
        /\ faults' \in Nat
    BY <1>1, <1>3, <1>5, <1>6, AnswerKeeps DEF ok
  <1>8. StoreTypeOK'  BY <1>1, <1>2 DEF StoreTypeOK
  <1>9. ReviewsBacked'  BY <1>1 DEF Backed, ReviewsBacked
  <1>10. IsFiniteSet(attempts') /\ attempts \subseteq attempts'  BY <1>1
  <1> QED  BY <1>7, <1>8, <1>9, <1>10, NetStep DEF ServeReview

LEMMA ServePointerInv ==
    ASSUME Inv, NEW r \in net, ServePointer(r)
    PROVE  Inv'
  <1>1. /\ r \in Requests /\ r.kind = "pointer" /\ StoreTypeOK /\ IsFiniteSet(attempts)
        /\ ReviewsBacked /\ faults \in Nat
    BY DEF ServePointer, Inv, TypeOK
  <1>2. r.body \in Questions  BY <1>1, BodyTyped DEF PointerRequests
  <1>3. /\ session' = session \/ session' = [session EXCEPT !.pointer = r.body]
        /\ UNCHANGED <<attempts, card, page, clock, faults, reloads, asked>>
        /\ net' \subseteq net
    BY DEF ServePointer, SetPointer
  <1>4. StoreTypeOK'  BY <1>1, <1>2, <1>3 DEF StoreTypeOK
  <1>5. ReviewsBacked' /\ IsFiniteSet(attempts') /\ attempts \subseteq attempts' /\ faults' \in Nat
    BY <1>1, <1>3 DEF ReviewsBacked
  <1> QED  BY <1>3, <1>4, <1>5, NetStep

(* A step that leaves the rows and the pages alone.                        *)
LEMMA QuietStep ==
    ASSUME Inv, UNCHANGED <<storeVars, page, clock, reloads, asked>>, faults' \in Nat,
           \A r \in net' : r \in net \/ (r \in Requests /\ Backed(r))
    PROVE  Inv'
  <1>1. /\ StoreTypeOK' /\ IsFiniteSet(attempts') /\ attempts \subseteq attempts' /\ ReviewsBacked'
    BY DEF Inv, TypeOK, StoreTypeOK, ReviewsBacked, storeVars
  <1>2. attempts' = attempts  BY DEF storeVars
  <1>3. \A r \in net' : r \in net \/ (r \in Requests /\ Backed(r)')
    BY <1>2 DEF Backed
  <1> QED  BY <1>1, <1>3, NetStep

(* The loss of a request, as the page will hear of it.                     *)
LEMMA LostTyped ==
    ASSUME Inv, NEW r \in net, r.tab # NoTab
    PROVE  /\ [r EXCEPT !.st = "err"] \in Requests
           /\ Backed([r EXCEPT !.st = "err"])
  <1> DEFINE err == [r EXCEPT !.st = "err"]
  <1>1. r \in Requests /\ Backed(r)  BY DEF Inv, TypeOK
  <1>2. r.kind # "pointer"  BY <1>1, BodyTyped DEF PointerRequests
  <1>3. err \in Requests  BY <1>1, <1>2, FurtherTyped DEF Steps
  <1>4. err.kind = r.kind /\ err.body = r.body /\ err.st = "err"  BY <1>1 DEF Requests
  <1>5. Backed(err)  BY <1>1, <1>4 DEF Backed
  <1> QED  BY <1>3, <1>5

LEMMA TallyForCloseInv ==
    ASSUME Inv, NEW r \in net, TallyForClose(r)
    PROVE  Inv'
  <1>1. r \in Requests /\ r.kind = "close" /\ faults \in Nat /\ IsFiniteSet(attempts)
    BY DEF TallyForClose, Inv, TypeOK
  <1>2. CommitFirstTally(attempts) \in Scores  BY <1>1, TallyTyped
  <1> DEFINE score == CommitFirstTally(attempts)
             tallied == [r EXCEPT !.st = "tallied", !.body = score]
             err == [r EXCEPT !.st = "err"]
  <1>3. tallied \in Requests  BY <1>1, <1>2, CloseTyped DEF Steps
  <1>4. tallied.kind = "close"  BY <1>1 DEF Requests
  <1>5. Backed(tallied)  BY <1>4 DEF Backed
  <1>6. r.tab # NoTab => err \in Requests /\ Backed(err)  BY LostTyped
  <1>7. /\ \A s \in net' : s \in net \/ s = tallied \/ (r.tab # NoTab /\ s = err)
        /\ UNCHANGED <<storeVars, page, clock, faults, reloads, asked>>
    BY DEF TallyForClose
  <1> HIDE DEF tallied, err
  <1>8. \A s \in net' : s \in net \/ (s \in Requests /\ Backed(s))
    BY <1>3, <1>5, <1>6, <1>7
  <1>9. faults' \in Nat  BY <1>1, <1>7
  <1> QED  BY <1>7, <1>8, <1>9, QuietStep

LEMMA ServeCloseInv ==
    ASSUME Inv, NEW r \in net, ServeClose(r)
    PROVE  Inv'
  <1>1. /\ r \in Requests /\ r.kind = "close" /\ StoreTypeOK /\ IsFiniteSet(attempts)
        /\ ReviewsBacked /\ UNCHANGED <<attempts, card, page, clock, reloads, asked>>
    BY DEF ServeClose, Inv, TypeOK
  <1>2. r.body \in Scores  BY <1>1, BodyTyped DEF CloseRequests
  <1> DEFINE ok == [r EXCEPT !.st = "ok", !.body = r.body]
  <1>3. ok \in Requests  BY <1>1, <1>2, CloseTyped DEF Steps
  <1>4. ok.kind = r.kind  BY <1>1 DEF Requests
  <1>5. Backed(ok)'  BY <1>1, <1>4 DEF Backed
  <1>6. Answer(r, r.body)  BY DEF ServeClose
  <1> HIDE DEF ok
  <1>7. /\ \A s \in net' : s \in net \/ (s \in Requests /\ Backed(s)')
        /\ faults' \in Nat
    BY <1>1, <1>3, <1>5, <1>6, AnswerKeeps DEF ok
  <1>8. session' = [open |-> FALSE, score |-> r.body, pointer |-> NoQuestion]
    BY DEF ServeClose, PatchClose
  <1>9. StoreTypeOK'  BY <1>1, <1>2, <1>8 DEF StoreTypeOK
  <1>10. ReviewsBacked' /\ IsFiniteSet(attempts') /\ attempts \subseteq attempts'
    BY <1>1 DEF ReviewsBacked
  <1> QED  BY <1>1, <1>7, <1>9, <1>10, NetStep

LEMMA RequestFailsInv ==
    ASSUME Inv, NEW r \in net, RequestFails(r)
    PROVE  Inv'
  <1> DEFINE err == [r EXCEPT !.st = "err"]
  <1>1. r.tab # NoTab => err \in Requests /\ Backed(err)  BY LostTyped
  <1>2. /\ \A s \in net' : s \in net \/ (r.tab # NoTab /\ s = err)
        /\ UNCHANGED <<storeVars, page, clock, reloads, asked>> /\ faults' = faults + 1
    BY DEF RequestFails
  <1>3. faults' \in Nat  BY <1>2 DEF Inv, TypeOK
  <1> HIDE DEF err
  <1>4. \A s \in net' : s \in net \/ (s \in Requests /\ Backed(s))
    BY <1>1, <1>2
  <1> QED  BY <1>2, <1>3, <1>4, QuietStep

-----------------------------------------------------------------------------
(***************************************************************************)
(* What the pages hear.                                                    *)
(***************************************************************************)
LEMMA Heeds ==
    ASSUME Inv, NEW r \in net, NEW st, Hears(r, st)
    PROVE  r \in Requests /\ Backed(r) /\ r.tab \in Tabs
  <1>1. r \in Requests /\ Backed(r)  BY DEF Inv, TypeOK
  <1>2. r.tab \in Tabs \cup {NoTab}  BY <1>1 DEF Requests
  <1> QED  BY <1>1, <1>2 DEF Hears

LEMMA AttemptHeardInv ==
    ASSUME Inv, NEW r \in net, AttemptHeard(r)
    PROVE  Inv'
  <1>1. r \in Requests /\ Backed(r) /\ r.tab \in Tabs /\ r.kind = "attempt" /\ r.st = "ok"
    BY Heeds DEF AttemptHeard, Hears
  <1> DEFINE t == r.tab
             row == r.body
             next == Append(card, row)
  <1>2. row \in Rows /\ row \in attempts
    BY <1>1, BodyTyped DEF AttemptRequests, Backed
  <1>3. card \in Seq(Rows) /\ ReviewsBacked  BY DEF Inv, TypeOK, StoreTypeOK
  <1>4. next \in Seq(Rows) /\ \A i \in DOMAIN next : next[i] \in attempts
    BY <1>2, <1>3 DEF ReviewsBacked
  <1> DEFINE review == Request("review", t, next)
  <1>5. review \in Requests  BY <1>1, <1>4, SentTyped
  <1>6. Backed(review)  BY <1>4 DEF Backed, Request
  <1>7. /\ \A s \in net' : s \in net \/ s = review
        /\ Becomes(t, page[t]) \/ Becomes(t, Settled(page[t]))
        /\ UNCHANGED <<storeVars, clock, faults, reloads, asked>>
    BY DEF AttemptHeard, ReviewOf
  <1>8. /\ PageOK(page[t]) /\ PageOK(Settled(page[t]))
        /\ clock \in Nat /\ faults \in Nat /\ reloads \in Nat
    BY <1>1, PageTyped, SettledOK
  <1> HIDE DEF review, t
  <1>9. \A s \in net' : s \in net \/ (s \in Requests /\ Backed(s))  BY <1>5, <1>6, <1>7
  <1>10. t \in Tabs  BY <1>1 DEF t
  <1>11. CASE Becomes(t, page[t])  BY <1>7, <1>8, <1>9, <1>10, <1>11, PageStep, AskedStays
  <1>12. CASE Becomes(t, Settled(page[t]))  BY <1>7, <1>8, <1>9, <1>10, <1>12, PageStep, AskedStays
  <1> QED  BY <1>7, <1>11, <1>12

LEMMA ReviewHeardInv ==
    ASSUME Inv, NEW r \in net, ReviewHeard(r)
    PROVE  Inv'
  <1>1. r.tab \in Tabs  BY Heeds DEF ReviewHeard
  <1>2. PageOK(page[r.tab]) /\ faults \in Nat /\ reloads \in Nat  BY <1>1, PageTyped
  <1>3. PageOK(Settled(page[r.tab]))  BY <1>2, SettledOK
  <1> QED  BY <1>1, <1>2, <1>3, PlainStep, AskedStays DEF ReviewHeard

LEMMA PersistFailedInv ==
    ASSUME Inv, NEW r \in net, PersistFailed(r)
    PROVE  Inv'
  <1>1. r.tab \in Tabs  BY Heeds DEF PersistFailed
  <1>2. PageOK(page[r.tab]) /\ faults \in Nat /\ reloads \in Nat  BY <1>1, PageTyped
  <1>3. PageOK([page[r.tab] EXCEPT !.persist = "error"])  BY <1>2, FlagsOK
  <1> QED  BY <1>1, <1>2, <1>3, PlainStep, AskedStays DEF PersistFailed

LEMMA EscapeHeardInv ==
    ASSUME Inv, NEW r \in net, EscapeHeard(r)
    PROVE  Inv'
  <1>1. r.tab \in Tabs  BY Heeds DEF EscapeHeard
  <1>2. PageOK(page[r.tab]) /\ faults \in Nat /\ reloads \in Nat  BY <1>1, PageTyped
  <1>3. PageOK(EscapeTaken(page[r.tab]))  BY <1>2, EscapeOK
  <1> QED  BY <1>1, <1>2, <1>3, PlainStep, AskedStays DEF EscapeHeard

LEMMA EscapeFailedInv ==
    ASSUME Inv, NEW r \in net, EscapeFailed(r)
    PROVE  Inv'
  <1>1. r.tab \in Tabs  BY Heeds DEF EscapeFailed
  <1>2. PageOK(page[r.tab]) /\ faults \in Nat /\ reloads \in Nat  BY <1>1, PageTyped
  <1>3. PageOK([page[r.tab] EXCEPT !.failed = TRUE])  BY <1>2, FlagsOK
  <1> QED  BY <1>1, <1>2, <1>3, PlainStep, AskedStays DEF EscapeFailed

LEMMA CloseHeardInv ==
    ASSUME Inv, NEW r \in net, CloseHeard(r)
    PROVE  Inv'
  <1>1. r.tab \in Tabs  BY Heeds DEF CloseHeard
  <1>2. PageOK(page[r.tab]) /\ page[r.tab] \in Pages /\ faults \in Nat /\ reloads \in Nat
    BY <1>1, PageTyped
  <1>3. page[r.tab].score \in Scores  BY <1>2 DEF Pages
  <1>4. PageOK([page[r.tab] EXCEPT !.phase = "summary"])  BY <1>2, <1>3, PhaseOK
  <1> QED  BY <1>1, <1>2, <1>4, PlainStep, AskedStays DEF CloseHeard

LEMMA CloseFailedInv ==
    ASSUME Inv, NEW r \in net, CloseFailed(r)
    PROVE  Inv'
  <1>1. r.tab \in Tabs  BY Heeds DEF CloseFailed
  <1>2. PageOK(page[r.tab]) /\ faults \in Nat /\ reloads \in Nat  BY <1>1, PageTyped
  <1>3. PageOK([page[r.tab] EXCEPT !.closing = FALSE, !.failed = TRUE])  BY <1>2, FlagsOK
  <1> QED  BY <1>1, <1>2, <1>3, PlainStep, AskedStays DEF CloseFailed

-----------------------------------------------------------------------------
(***************************************************************************)
(* The theorems.                                                           *)
(***************************************************************************)
LEMMA NextInv == Inv /\ [Next]_vars => Inv'
  <1> SUFFICES ASSUME Inv, [Next]_vars PROVE Inv'  OBVIOUS
  <1>1. ASSUME NEW t \in Tabs, Learner(t)  PROVE Inv'
    <2>1. CASE OnSubmit(t)  BY <2>1, OnSubmitInv
    <2>2. CASE OnRetryPersist(t)  BY <2>2, OnRetryPersistInv
    <2>3. CASE OnEscape(t)  BY <2>3, OnEscapeInv
    <2>4. CASE OnNext(t)  BY <2>4, OnNextInv
    <2>5. CASE OnFinish(t)  BY <2>5, CloseAndRouteInv DEF OnFinish
    <2>6. CASE OnEndSession(t)  BY <2>6, OnEndSessionInv
    <2>7. CASE Reload(t)  BY <2>7, ReloadInv
    <2> QED  BY <1>1, <2>1, <2>2, <2>3, <2>4, <2>5, <2>6, <2>7 DEF Learner
  <1>2. ASSUME NEW t \in Tabs, PageRuns(t)  PROVE Inv'
    <2>1. CASE GetActive(t)  BY <2>1, GetActiveInv
    <2>2. CASE GetNext(t)  BY <2>2, GetNextInv
    <2>3. CASE Show(t)  BY <2>3, ShowInv
    <2>4. CASE CloseExhausted(t)  BY <2>4, CloseExhaustedInv
    <2>5. CASE CompletionEffect(t)  BY <2>5, CloseAndRouteInv DEF CompletionEffect
    <2> QED  BY <1>2, <2>1, <2>2, <2>3, <2>4, <2>5 DEF PageRuns
  <1>3. ASSUME NEW t \in Tabs, ReadFails(t)  PROVE Inv'  BY <1>3, ReadFailsInv
  <1>4. ASSUME NEW r \in net, Served(r)  PROVE Inv'
    <2>1. CASE ServeAttempt(r)  BY <2>1, ServeAttemptInv
    <2>2. CASE ServeReview(r)  BY <2>2, ServeReviewInv
    <2>3. CASE ServePointer(r)  BY <2>3, ServePointerInv
    <2>4. CASE TallyForClose(r)  BY <2>4, TallyForCloseInv
    <2>5. CASE ServeClose(r)  BY <2>5, ServeCloseInv
    <2> QED  BY <1>4, <2>1, <2>2, <2>3, <2>4, <2>5 DEF Served
  <1>5. ASSUME NEW r \in net, RequestFails(r)  PROVE Inv'  BY <1>5, RequestFailsInv
  <1>6. ASSUME NEW r \in net, Heard(r)  PROVE Inv'
    <2>1. CASE AttemptHeard(r)  BY <2>1, AttemptHeardInv
    <2>2. CASE ReviewHeard(r)  BY <2>2, ReviewHeardInv
    <2>3. CASE PersistFailed(r)  BY <2>3, PersistFailedInv
    <2>4. CASE EscapeHeard(r)  BY <2>4, EscapeHeardInv
    <2>5. CASE EscapeFailed(r)  BY <2>5, EscapeFailedInv
    <2>6. CASE CloseHeard(r)  BY <2>6, CloseHeardInv
    <2>7. CASE CloseFailed(r)  BY <2>7, CloseFailedInv
    <2> QED  BY <1>6, <2>1, <2>2, <2>3, <2>4, <2>5, <2>6, <2>7 DEF Heard
  <1>7. CASE UNCHANGED vars
    <2>1. /\ UNCHANGED <<storeVars, page, clock, reloads, asked>>
          /\ net' = net /\ faults' = faults
      BY <1>7 DEF vars
    <2>2. faults' \in Nat  BY <2>1 DEF Inv, TypeOK
    <2> QED  BY <2>1, <2>2, QuietStep
  <1> QED  BY <1>1, <1>2, <1>3, <1>4, <1>5, <1>6, <1>7 DEF Next

LEMMA Invariance == Spec => []Inv
  BY InitInv, NextInv, PTL DEF Spec

(* Every page, request and row is of its type in every reachable state.    *)
THEOREM QuizTypeCorrect == Spec => []TypeOK
  <1>1. Inv => TypeOK  BY DEF Inv
  <1> QED  BY <1>1, Invariance, PTL

(* scheduler.review moves the card by stored attempts only: no lost reply, *)
(* retry, second page or reload feeds it an answer the server has not.     *)
THEOREM CardMovedByStoredAttempts == Spec => []ReviewsBacked
  <1>1. Inv => ReviewsBacked  BY DEF Inv
  <1> QED  BY <1>1, Invariance, PTL

-----------------------------------------------------------------------------
(***************************************************************************)
(* The quiz keeps what it was told: a page leaves a solved item only when  *)
(* the server has the answer.                                              *)
(*                                                                         *)
(* The argument follows a key.  The answer a page owes has one request     *)
(* under way at most, which carries the page's question and key; no other  *)
(* page has that key; and of the rows that bear it, stored or under way,   *)
(* all are first tries if the page shows a first try.  So the row that     *)
(* settles the page is the one the page shows.                             *)
(***************************************************************************)
(* A request whose outcome settles its page.                               *)
Owes(r) == r.kind \in {"attempt", "review"} /\ r.tab # NoTab

(* The rows the server has or may yet store.                               *)
Carried == attempts \cup {r.body : r \in {s \in net : s.kind \in {"attempt", "escape"}}}

(* What a page's fields say of each other.                                 *)
Shape(p) ==
    /\ p.phase \in Reading => Idle(p)
    /\ p.phase = "answering" =>
         /\ p.res # "first_try"
         /\ p.active = NoLetter => p.pending = NoPending
    /\ Idle(p) => p.pending = NoPending
    /\ Solved(p) /\ p.res = "first_try" /\ p.pending # NoPending
         => ResolutionOf(p.pending.letter, p.pending.prior) = "first_try"

(* A page that owes nothing has an answer to its item among rows, and a    *)
(* first try if it shows one.                                              *)
Kept(p, rows) ==
    Idle(p) /\ (Solved(p) \/ (p.phase = "answering" /\ p.active # NoLetter))
      => \E s \in rows : s.q = p.q /\ (p.res = "first_try" => s.res = "first_try")

(* A first try is all there is under its key.                              *)
OwnKey(p, rows, now) ==
    p.pending # NoPending =>
      /\ p.pending.key <= now
      /\ Solved(p) /\ p.res = "first_try"
           => \A s \in rows : s.key = p.pending.key => s.res = "first_try"

(* A request of a page that waits is about the answer the page owes.       *)
OwedFor(r, p, rows) ==
    /\ p.persist = "pending" /\ p.pending # NoPending
    /\ r.kind = "attempt" => r.body.q = p.q /\ r.body.key = p.pending.key
    /\ r.kind = "review" => \E s \in rows : s.q = p.q /\ s.key = p.pending.key

OthersKey(t, key) ==
    \E u \in Tabs \ {t} : page[u].pending # NoPending /\ page[u].pending.key = key

KeysApart ==
    \A t, u \in Tabs :
        t # u /\ page[t].pending # NoPending /\ page[u].pending # NoPending
          => page[t].pending.key # page[u].pending.key

Answers ==
    /\ \A t \in Tabs : /\ Shape(page[t]) /\ Kept(page[t], attempts)
                       /\ OwnKey(page[t], Carried, clock)
    /\ KeysApart
    /\ \A s \in Carried : s.key <= clock
    /\ \A r \in net : Owes(r) => OwedFor(r, page[r.tab], attempts)
    /\ \A r, s \in net : Owes(r) /\ Owes(s) /\ r.tab = s.tab => r = s

-----------------------------------------------------------------------------
(***************************************************************************)
(* How a step keeps the invariant.                                         *)
(***************************************************************************)
LEMMA OwnersTab ==
    ASSUME Inv, NEW r \in net, Owes(r)
    PROVE  r.tab \in Tabs
  <1>1. r \in Requests  BY DEF Inv, TypeOK
  <1>2. r.tab \in Tabs \cup {NoTab}  BY <1>1 DEF Requests
  <1> QED  BY <1>2 DEF Owes

(* A page's step: its own part, and its rows under no other page's key.    *)
LEMMA PageMoves ==
    ASSUME Inv, Answers, NEW t \in Tabs, NEW p, Becomes(t, p),
           attempts' = attempts, clock' \in Nat, clock <= clock',
           Shape(p), Kept(p, attempts), OwnKey(p, Carried', clock'),
           \A s \in Carried' : s \in Carried \/ (s.key <= clock' /\ ~OthersKey(t, s.key)),
           \A s \in Carried : s.key \in Int,
           p.pending # NoPending => ~OthersKey(t, p.pending.key),
           \A r \in net' : Owes(r) => \/ r \in net /\ r.tab # t
                                      \/ r.tab = t /\ OwedFor(r, p, attempts),
           \A r, s \in net' : Owes(r) /\ Owes(s) /\ r.tab = t /\ s.tab = t => r = s
    PROVE  Answers'
  <1>1. page' = [page EXCEPT ![t] = p] /\ page \in [Tabs -> Pages] /\ clock \in Nat
    BY DEF Becomes, Inv, TypeOK
  <1>2. page'[t] = p /\ \A u \in Tabs \ {t} : page'[u] = page[u]
    BY <1>1
  <1>3. ASSUME NEW u \in Tabs
        PROVE  /\ Shape(page'[u]) /\ Kept(page'[u], attempts')
               /\ OwnKey(page'[u], Carried', clock')
    <2>1. CASE u = t  BY <1>2, <2>1
    <2>2. CASE u # t
      <3>1. page'[u] = page[u] /\ page[u] \in Pages  BY <1>1, <1>2, <2>2
      <3>2. Shape(page[u]) /\ Kept(page[u], attempts) /\ OwnKey(page[u], Carried, clock)
        BY DEF Answers
      <3>3. ASSUME page[u].pending # NoPending
            PROVE  \A s \in Carried' : s.key = page[u].pending.key => s \in Carried
        BY <2>2, <3>3 DEF OthersKey
      <3>4. page[u].pending # NoPending => page[u].pending.key \in Nat
        BY <3>1 DEF Pages
      <3>5. OwnKey(page[u], Carried', clock')
        BY <1>1, <3>2, <3>3, <3>4 DEF OwnKey
      <3> QED  BY <3>1, <3>2, <3>5
    <2> QED  BY <2>1, <2>2
  <1>7. KeysApart'
    <2> SUFFICES ASSUME NEW u \in Tabs, NEW v \in Tabs, u # v,
                        page'[u].pending # NoPending, page'[v].pending # NoPending
                 PROVE  page'[u].pending.key # page'[v].pending.key
      BY DEF KeysApart
    <2>1. KeysApart  BY DEF Answers
    <2>2. CASE u = t  BY <1>2, <2>2 DEF OthersKey
    <2>3. CASE v = t  BY <1>2, <2>3 DEF OthersKey
    <2>4. CASE u # t /\ v # t  BY <1>2, <2>1, <2>4 DEF KeysApart
    <2> QED  BY <2>2, <2>3, <2>4
  <1>4. ASSUME NEW s \in Carried'  PROVE s.key <= clock'
    <2>1. CASE s \in Carried
      <3>1. s.key <= clock /\ s.key \in Int  BY <2>1 DEF Answers
      <3> QED  BY <1>1, <3>1
    <2> QED  BY <2>1
  <1>5. ASSUME NEW r \in net', Owes(r)  PROVE OwedFor(r, page'[r.tab], attempts')
    <2>1. CASE r.tab = t  BY <1>2, <1>5, <2>1
    <2>2. CASE r.tab # t
      <3>1. r \in net /\ OwedFor(r, page[r.tab], attempts)  BY <1>5, <2>2 DEF Answers
      <3>2. r.tab \in Tabs  BY <1>5, <3>1, OwnersTab
      <3> QED  BY <1>2, <2>2, <3>1, <3>2
    <2> QED  BY <2>1, <2>2
  <1>6. ASSUME NEW r \in net', NEW s \in net', Owes(r), Owes(s), r.tab = s.tab
        PROVE  r = s
    <2>1. CASE r.tab = t  BY <1>6, <2>1
    <2>2. CASE r.tab # t  BY <1>6, <2>2 DEF Answers
    <2> QED  BY <2>1, <2>2
  <1> QED  BY <1>3, <1>4, <1>5, <1>6, <1>7
           DEF Answers, Shape, Kept, OwnKey, OwedFor, Owes

LEMMA CarriedTyped ==
    ASSUME Inv
    PROVE  Carried \subseteq Rows /\ \A s \in Carried : s.key \in Nat /\ s.key \in Int
  <1>1. attempts \subseteq Rows /\ net \subseteq Requests
    BY DEF Inv, TypeOK, StoreTypeOK
  <1>2. ASSUME NEW r \in net, r.kind \in {"attempt", "escape"}  PROVE r.body \in Rows
    BY <1>1, <1>2, BodyTyped DEF AttemptRequests
  <1>3. Carried \subseteq Rows  BY <1>1, <1>2 DEF Carried
  <1> QED  BY <1>3 DEF Rows

(* The requests that carry no answer: what a page asks besides.            *)
Aside(r) == r.kind \notin {"attempt", "escape", "review"}

(* A page's step that lets its answer be, and its requests too.            *)
LEMMA PageRests ==
    ASSUME Inv, Answers, NEW t \in Tabs, NEW p, Becomes(t, p),
           UNCHANGED <<attempts, clock>>,
           \A r \in net' : r \in net \/ Aside(r),
           p.pending = page[t].pending, p.persist = page[t].persist, p.q = page[t].q,
           Solved(p) /\ p.res = "first_try"
             => Solved(page[t]) /\ page[t].res = "first_try",
           Shape(p), Kept(p, attempts)
    PROVE  Answers'
  <1>1. clock \in Nat  BY DEF Inv, TypeOK
  <1>2. Carried' \subseteq Carried  BY DEF Carried, Aside
  <1>3. \A s \in Carried : s.key \in Int  BY CarriedTyped
  <1>4. OwnKey(page[t], Carried, clock) /\ KeysApart  BY DEF Answers
  <1>5. OwnKey(p, Carried', clock')  BY <1>2, <1>4 DEF OwnKey
  <1>6. p.pending # NoPending => ~OthersKey(t, p.pending.key)
    BY <1>4 DEF KeysApart, OthersKey
  <1>7. ASSUME NEW r \in net', Owes(r)
        PROVE  r \in net /\ (r.tab = t => OwedFor(r, p, attempts))
    <2>1. r \in net  BY <1>7 DEF Owes, Aside
    <2> QED  BY <1>7, <2>1 DEF Answers, OwedFor
  <1>8. \A r, s \in net' : Owes(r) /\ Owes(s) /\ r.tab = t /\ s.tab = t => r = s
    BY <1>7 DEF Answers
  <1>9. clock' \in Nat /\ clock <= clock'  BY <1>1
  <1> QED  BY <1>2, <1>3, <1>5, <1>6, <1>7, <1>8, <1>9, PageMoves

(* A page's step that leaves it without an answer to save.                 *)
LEMMA PageClears ==
    ASSUME Inv, Answers, NEW t \in Tabs, NEW p, Becomes(t, p),
           UNCHANGED <<attempts, clock>>, Carried' \subseteq Carried,
           \A r \in net' : Owes(r) => r \in net /\ r.tab # t,
           p.pending = NoPending, Shape(p), Kept(p, attempts)
    PROVE  Answers'
  <1>1. clock \in Nat /\ clock' \in Nat /\ clock <= clock'  BY DEF Inv, TypeOK
  <1>2. \A s \in Carried : s.key \in Int  BY CarriedTyped
  <1>3. OwnKey(p, Carried', clock')  BY DEF OwnKey
  <1> QED  BY <1>1, <1>2, <1>3, PageMoves

(* No request of a page is about an answer while it does not wait.         *)
LEMMA OwesNothing ==
    ASSUME Inv, Answers, NEW t \in Tabs, page[t].persist # "pending"
    PROVE  \A r \in net : Owes(r) => r.tab # t
  BY DEF Answers, OwedFor

(* A request's step: the pages stay, and r gives way to s or to nothing.   *)
LEMMA RequestMoves ==
    ASSUME Inv, Answers, NEW r \in net, NEW s, net' \subseteq (net \ {r}) \cup {s},
           UNCHANGED <<page, clock>>, attempts \subseteq attempts', Carried' \subseteq Carried,
           s.kind = r.kind, s.tab = r.tab,
           r.kind = "attempt" => s.body.q = r.body.q /\ s.body.key = r.body.key
    PROVE  Answers'
  <1>1. ASSUME NEW t \in Tabs
        PROVE  /\ Shape(page[t]) /\ Kept(page[t], attempts')
               /\ OwnKey(page[t], Carried', clock)
    <2>1. Shape(page[t]) /\ Kept(page[t], attempts) /\ OwnKey(page[t], Carried, clock)
      BY DEF Answers
    <2>2. Kept(page[t], attempts')  BY <2>1 DEF Kept
    <2>3. OwnKey(page[t], Carried', clock)  BY <2>1 DEF OwnKey
    <2> QED  BY <2>1, <2>2, <2>3
  <1>2. KeysApart'  BY DEF Answers, KeysApart
  <1>3. \A row \in Carried' : row.key <= clock'  BY DEF Answers
  <1>4. Owes(s) <=> Owes(r)  BY DEF Owes
  <1>5. ASSUME NEW x \in net, Owes(x)  PROVE OwedFor(x, page[x.tab], attempts')
    <2>1. OwedFor(x, page[x.tab], attempts)  BY <1>5 DEF Answers
    <2> QED  BY <2>1 DEF OwedFor
  <1>6. ASSUME NEW x \in net', Owes(x)  PROVE OwedFor(x, page[x.tab], attempts')
    <2>1. CASE x \in net  BY <1>5, <1>6, <2>1
    <2>2. CASE x = s
      <3>1. OwedFor(r, page[r.tab], attempts')  BY <1>4, <1>5, <1>6, <2>2
      <3> QED  BY <2>2, <3>1 DEF OwedFor
    <2> QED  BY <2>1, <2>2
  <1>7. ASSUME NEW x \in net', NEW y \in net', Owes(x), Owes(y), x.tab = y.tab
        PROVE  x = y
    <2>1. \A v, w \in net : Owes(v) /\ Owes(w) /\ v.tab = w.tab => v = w
      BY DEF Answers
    <2>2. (x = s \/ (x \in net /\ x # r)) /\ (y = s \/ (y \in net /\ y # r))
      OBVIOUS
    <2> QED  BY <1>4, <1>7, <2>1, <2>2
  <1>8. page' = page /\ clock' = clock  OBVIOUS
  <1> QED  BY <1>1, <1>2, <1>3, <1>6, <1>7, <1>8
           DEF Answers, Shape, Kept, OwnKey, OwedFor, Owes

-----------------------------------------------------------------------------
(***************************************************************************)
(* The pages' steps.                                                       *)
(***************************************************************************)
LEMMA FreshAnswers ==
    ASSUME Inv, Answers, NEW t \in Tabs, NEW p, Becomes(t, p), Idle(page[t]),
           UNCHANGED <<attempts, clock>>, NEW q, net' = net \cup {PointerTo(q)},
           p.phase = "answering", p.active = NoLetter, p.res = NoRes,
           p.pending = NoPending
    PROVE  Answers'
  <1>1. Carried' \subseteq Carried  BY DEF Carried, PointerTo, Request
  <1>2. \A r \in net : Owes(r) => r.tab # t  BY OwesNothing DEF Idle
  <1>3. ~Owes(PointerTo(q))  BY DEF Owes, PointerTo, Request
  <1>4. Shape(p) /\ Kept(p, attempts)  BY DEF Shape, Kept, Solved, NoRes, Reading
  <1> QED  BY <1>1, <1>2, <1>3, <1>4, PageClears

LEMMA CloseIsAside == \A t : Aside(CloseBy(t))
  BY DEF Aside, CloseBy, Request

(* The steps of a page that reads, or hears that there is nothing to ask.  *)
LEMMA ReadingAnswers ==
    ASSUME Inv, Answers, NEW t \in Tabs, page[t].phase \in Reading, NEW f, Becomes(t, f),
           UNCHANGED <<attempts, clock>>, net' \subseteq net \cup {CloseBy(t)},
           f.pending = page[t].pending, f.persist = page[t].persist,
           f.phase \notin {"answering", "solved"}
    PROVE  Answers'
  <1>1. Idle(page[t]) /\ page[t].pending = NoPending  BY DEF Answers, Shape
  <1>2. \A r \in net : Owes(r) => r.tab # t  BY <1>1, OwesNothing DEF Idle
  <1>3. Aside(CloseBy(t))  BY CloseIsAside
  <1>4. /\ Carried' \subseteq Carried
        /\ \A r \in net' : Owes(r) => r \in net /\ r.tab # t
    BY <1>2, <1>3 DEF Carried, Aside, Owes
  <1>5. Shape(f) /\ Kept(f, attempts)  BY <1>1 DEF Shape, Kept, Solved, Idle
  <1> QED  BY <1>1, <1>4, <1>5, PageClears

(* What a page becomes while it reads.                                     *)
LEMMA ReadingBecomes ==
    ASSUME Inv, NEW t \in Tabs,
           GetActive(t) \/ GetNext(t) \/ CloseExhausted(t) \/ ReadFails(t)
    PROVE  /\ page[t].phase \in Reading /\ UNCHANGED <<storeVars, clock, reloads, asked>>
           /\ net' \subseteq net \cup {CloseBy(t)}
           /\ \E f : /\ Becomes(t, f)
                     /\ f.pending = page[t].pending /\ f.persist = page[t].persist
                     /\ \/ f.phase \in Reading \ {"offered"}
                        \/ f.phase \in {"fresh", "halted"}
                        \/ f.phase = "offered" /\ f.q \notin Attempted(attempts)
  <1> DEFINE p == page[t]
             score == CommitFirstTally(attempts)
             shown == IF p.phase = "advancing" THEN ZeroScore ELSE p.score
  <1>1. p \in Pages  BY PageTyped
  <1>2. /\ p.phase \in Reading /\ UNCHANGED <<storeVars, clock, reloads, asked>>
        /\ net' \subseteq net \cup {CloseBy(t)}
    BY DEF GetActive, GetNext, CloseExhausted, ReadFails, Reading
  <1>3. \/ Becomes(t, [p EXCEPT !.phase = "fresh"])
        \/ Becomes(t, [p EXCEPT !.phase = "exhausted"])
        \/ Becomes(t, [p EXCEPT !.phase = "advancing", !.score = score])
        \/ Becomes(t, [p EXCEPT !.score = shown, !.phase = "exhausted"])
        \/ Becomes(t, [p EXCEPT !.phase = "halted", !.closing = TRUE])
        \/ Becomes(t, [p EXCEPT !.phase = "halted", !.failed = TRUE])
        \/ \E q : /\ q \notin Attempted(attempts)
                  /\ \/ Becomes(t, [p EXCEPT !.phase = "offered", !.q = q])
                     \/ Becomes(t, [p EXCEPT !.phase = "offered", !.q = q, !.score = score])
    <2>1. CASE GetActive(t)  BY <2>1 DEF GetActive, PointerAttempted
    <2>2. CASE GetNext(t)  BY <2>2 DEF GetNext, Servable
    <2>3. CASE CloseExhausted(t) \/ ReadFails(t)  BY <2>3 DEF CloseExhausted, ReadFails
    <2> QED  BY <2>1, <2>2, <2>3
  <1> DEFINE Fits(f) == /\ f.pending = p.pending /\ f.persist = p.persist
                        /\ \/ f.phase \in Reading \ {"offered"}
                           \/ f.phase \in {"fresh", "halted"}
                           \/ f.phase = "offered" /\ f.q \notin Attempted(attempts)
  <1> HIDE DEF score, shown
  <1>4. /\ Fits([p EXCEPT !.phase = "fresh"])
        /\ Fits([p EXCEPT !.phase = "exhausted"])
        /\ Fits([p EXCEPT !.phase = "advancing", !.score = score])
    BY <1>1 DEF Pages, Reading
  <1>5. /\ Fits([p EXCEPT !.score = shown, !.phase = "exhausted"])
        /\ Fits([p EXCEPT !.phase = "halted", !.closing = TRUE])
        /\ Fits([p EXCEPT !.phase = "halted", !.failed = TRUE])
    BY <1>1 DEF Pages, Reading
  <1>6. ASSUME NEW q, q \notin Attempted(attempts)
        PROVE  /\ Fits([p EXCEPT !.phase = "offered", !.q = q])
               /\ Fits([p EXCEPT !.phase = "offered", !.q = q, !.score = score])
    BY <1>1, <1>6 DEF Pages
  <1>7. \E f : Becomes(t, f) /\ Fits(f)
    <2> HIDE DEF Fits, p
    <2> QED  BY <1>3, <1>4, <1>5, <1>6
  <1> QED  BY <1>2, <1>7

LEMMA ReadsAnswers ==
    ASSUME Inv, Answers, NEW t \in Tabs,
           GetActive(t) \/ GetNext(t) \/ CloseExhausted(t) \/ ReadFails(t)
    PROVE  Answers'
  <1>1. /\ page[t].phase \in Reading /\ UNCHANGED <<attempts, clock>>
        /\ net' \subseteq net \cup {CloseBy(t)}
    BY ReadingBecomes DEF storeVars
  <1>2. PICK f : /\ Becomes(t, f)
                 /\ f.pending = page[t].pending /\ f.persist = page[t].persist
                 /\ f.phase \notin {"answering", "solved"}
    BY ReadingBecomes DEF Reading
  <1> QED  BY <1>1, <1>2, ReadingAnswers

LEMMA ShowAnswers ==
    ASSUME Inv, Answers, NEW t \in Tabs, Show(t)
    PROVE  Answers'
  <1> DEFINE p == page[t]
             f == FreshAnswering(p, p.q)
  <1>1. /\ p \in Pages /\ p.phase \in Reading /\ UNCHANGED <<attempts, clock>>
        /\ net' = net \cup {PointerTo(p.q)} /\ Becomes(t, f)
    BY PageTyped DEF Show, storeVars, Reading
  <1>2. Idle(p)  BY <1>1 DEF Answers, Shape
  <1>3. /\ f.phase = "answering" /\ f.active = NoLetter /\ f.res = NoRes
        /\ f.pending = NoPending
    BY <1>1 DEF FreshAnswering, Pages
  <1> HIDE DEF f
  <1> QED  BY <1>1, <1>2, <1>3, FreshAnswers

(* The steps that change the page's phase, score or flags, and no answer.  *)
LEMMA PhaseMoves ==
    ASSUME Inv, Answers, NEW t \in Tabs, NEW p, Becomes(t, p),
           UNCHANGED <<attempts, clock>>, net' \subseteq net \cup {CloseBy(t)},
           p.pending = page[t].pending, p.persist = page[t].persist, p.q = page[t].q,
           \/ p.phase \in {"done", "summary"}
           \/ p.phase = page[t].phase /\ p.active = page[t].active /\ p.res = page[t].res
    PROVE  Answers'
  <1>1. Shape(page[t]) /\ Kept(page[t], attempts)  BY DEF Answers
  <1>2. Shape(p) /\ Kept(p, attempts)  BY <1>1 DEF Shape, Kept, Idle, Solved, Reading
  <1>3. \A r \in net' : r \in net \/ Aside(r)  BY CloseIsAside
  <1> QED  BY <1>2, <1>3, PageRests DEF Solved

(* Finish, the completion effect and End session.                          *)
LEMMA CloseAnswers ==
    ASSUME Inv, Answers, NEW t \in Tabs,
           OnFinish(t) \/ CompletionEffect(t) \/ OnEndSession(t)
    PROVE  Answers'
  <1>1. page[t] \in Pages  BY PageTyped
  <1>2. UNCHANGED <<attempts, clock>> /\ net' = net \cup {CloseBy(t)}
    BY DEF OnFinish, CompletionEffect, OnEndSession, CloseAndRoute, storeVars
  <1>3. PICK f \in {[page[t] EXCEPT !.phase = "done", !.closing = TRUE],
                    [page[t] EXCEPT !.phase = "done"]} : Becomes(t, f)
    BY DEF OnFinish, CompletionEffect, OnEndSession, CloseAndRoute
  <1>4. /\ f.pending = page[t].pending /\ f.persist = page[t].persist /\ f.q = page[t].q
        /\ f.phase = "done"
    BY <1>1 DEF Pages
  <1> QED  BY <1>2, <1>3, <1>4, PhaseMoves

LEMMA OnNextAnswers ==
    ASSUME Inv, Answers, NEW t \in Tabs, OnNext(t)
    PROVE  Answers'
  <1> DEFINE f == [page[t] EXCEPT !.phase = "loading", !.pending = NoPending,
                                  !.res = NoRes, !.active = NoLetter]
  <1>1. page[t] \in Pages /\ page[t].persist = "idle"
    BY PageTyped DEF OnNext, AdvanceBlocked
  <1>2. f.pending = NoPending /\ f.persist = "idle" /\ f.phase = "loading"
    BY <1>1 DEF Pages
  <1>3. Becomes(t, f) /\ UNCHANGED <<attempts, clock>> /\ net' = net
    BY DEF OnNext, storeVars
  <1>4. Carried' = Carried  BY <1>3 DEF Carried
  <1>5. \A r \in net : Owes(r) => r.tab # t  BY <1>1, OwesNothing
  <1> HIDE DEF f
  <1>6. Shape(f) /\ Kept(f, attempts)  BY <1>2 DEF Shape, Kept, Solved, Idle
  <1> QED  BY <1>2, <1>3, <1>4, <1>5, <1>6, PageClears

LEMMA ReloadAnswers ==
    ASSUME Inv, Answers, NEW t \in Tabs, Reload(t)
    PROVE  Answers'
  <1>1. /\ Becomes(t, Mounted) /\ UNCHANGED <<attempts, clock>>
        /\ net' = {r \in net : r.tab # t}
                    \cup {Orphan(r) : r \in {s \in net : /\ s.tab = t
                                                         /\ s.st \in {"sent", "tallied"}}}
    BY DEF Reload, storeVars
  <1>2. net \subseteq Requests  BY DEF Inv, TypeOK
  <1>3. \A r \in Requests : /\ Orphan(r).kind = r.kind /\ Orphan(r).body = r.body
                            /\ Orphan(r).tab = NoTab
    BY DEF Orphan, Requests
  <1>4. Carried' \subseteq Carried
    <2> SUFFICES ASSUME NEW r \in net', r.kind \in {"attempt", "escape"}
                 PROVE  r.body \in Carried
      BY <1>1 DEF Carried
    <2>1. PICK s \in net : s.kind = r.kind /\ s.body = r.body  BY <1>1, <1>2, <1>3
    <2> QED  BY <2>1 DEF Carried
  <1>5. \A r \in net' : Owes(r) => r \in net /\ r.tab # t
    BY <1>1, <1>2, <1>3 DEF Owes
  <1>6. Mounted.pending = NoPending /\ Shape(Mounted) /\ Kept(Mounted, attempts)
    BY DEF Mounted, Shape, Kept, Solved, Idle
  <1> QED  BY <1>1, <1>4, <1>5, <1>6, PageClears

(* An answer is sent: under a new key, or under the one the page owes.     *)
LEMMA PersistAnswers ==
    ASSUME Inv, Answers, NEW t \in Tabs, page[t].persist # "pending",
           NEW p \in Pages, NEW resent, resent \subseteq {PointerTo(p.q)},
           NEW pending \in [key : Nat, letter : Letters, first : BOOLEAN, prior : BOOLEAN],
           PersistAnswer(t, p, pending, resent),
           p.phase \notin Reading,
           p.phase = "answering" => p.res # "first_try" /\ p.active # NoLetter,
           \/ pending.key = clock + 1
           \/ page[t].pending # NoPending /\ pending.key = page[t].pending.key,
           Solved(p) /\ p.res = "first_try"
             => /\ ResolutionOf(pending.letter, pending.prior) = "first_try"
                /\ pending.key = clock + 1 \/ (Solved(page[t]) /\ page[t].res = "first_try")
    PROVE  Answers'
  <1> DEFINE f == [p EXCEPT !.pending = pending, !.persist = "pending"]
             row == NewRow(p.q, pending.key, pending.letter,
                           ResolutionOf(pending.letter, pending.prior))
             sent == Request("attempt", t, row)
  <1>1. /\ Becomes(t, f) /\ net' = net \cup {sent} \cup resent
        /\ clock' = clock + 1 /\ attempts' = attempts
    BY DEF PersistAnswer, storeVars
  <1>2. clock \in Nat /\ clock' \in Nat /\ clock <= clock'  BY <1>1 DEF Inv, TypeOK
  <1>3. /\ f.pending = pending /\ f.persist = "pending" /\ f.q = p.q
        /\ f.phase = p.phase /\ f.active = p.active /\ f.res = p.res
    BY DEF Pages
  <1>4. /\ row.q = p.q /\ row.key = pending.key
        /\ row.res = ResolutionOf(pending.letter, pending.prior)
    BY DEF NewRow
  <1>5. /\ sent.kind = "attempt" /\ sent.tab = t /\ sent.body = row
        /\ PointerTo(p.q).kind = "pointer"
    BY DEF Request, PointerTo
  <1>6. pending # NoPending  BY LetterAssumption DEF NoPending
  <1>7. \A s \in Carried : s.key \in Int /\ s.key <= clock  BY CarriedTyped DEF Answers
  <1>8. Shape(page[t]) /\ OwnKey(page[t], Carried, clock) /\ KeysApart  BY DEF Answers
  <1> HIDE DEF f, row, sent
  <1>9. Carried' \subseteq Carried \cup {row}  BY <1>1, <1>5 DEF Carried
  <1>10. pending.key <= clock'
    <2>1. pending.key \in Nat  OBVIOUS
    <2> QED  BY <1>1, <1>2, <1>8, <2>1 DEF OwnKey
  <1>11. ASSUME NEW u \in Tabs \ {t}, page[u].pending # NoPending
         PROVE  page[u].pending.key # pending.key
    <2>1. page[u] \in Pages /\ OwnKey(page[u], Carried, clock)
      BY DEF Answers, Inv, TypeOK
    <2>2. page[u].pending.key \in Nat /\ page[u].pending.key <= clock
      BY <1>11, <2>1 DEF Pages, OwnKey
    <2>3. CASE pending.key = clock + 1  BY <1>2, <2>2, <2>3
    <2>4. CASE page[t].pending # NoPending /\ pending.key = page[t].pending.key
      BY <1>8, <1>11, <2>4 DEF KeysApart
    <2> QED  BY <2>3, <2>4
  <1>12. ~OthersKey(t, pending.key)  BY <1>11 DEF OthersKey
  <1>13. Shape(f) /\ Kept(f, attempts)
    BY <1>3, <1>6 DEF Shape, Kept, Idle, Solved
  <1>14. ASSUME Solved(p), p.res = "first_try", NEW s \in Carried', s.key = pending.key
         PROVE  s.res = "first_try"
    <2>1. CASE s = row  BY <1>4, <1>14, <2>1
    <2>2. CASE s \in Carried /\ pending.key = clock + 1
      BY <1>2, <1>7, <1>14, <2>2
    <2>3. CASE s \in Carried /\ pending.key # clock + 1
      BY <1>8, <1>14, <2>3 DEF OwnKey
    <2> QED  BY <1>9, <2>1, <2>2, <2>3
  <1>15. OwnKey(f, Carried', clock')
    BY <1>3, <1>10, <1>14 DEF OwnKey, Solved
  <1>16. \A r \in net : Owes(r) => r.tab # t  BY OwesNothing
  <1>17. ~Owes(PointerTo(p.q))  BY <1>5 DEF Owes
  <1>18. OwedFor(sent, f, attempts)
    BY <1>3, <1>4, <1>5, <1>6 DEF OwedFor
  <1>19. \A r \in net' : Owes(r) => r \in net \/ r = sent
    BY <1>1, <1>17
  <1>20. \A s \in Carried' : s \in Carried \/ (s.key <= clock' /\ ~OthersKey(t, s.key))
    BY <1>4, <1>9, <1>10, <1>12
  <1>21. \A r \in net' : Owes(r) => \/ r \in net /\ r.tab # t
                                    \/ r.tab = t /\ OwedFor(r, f, attempts)
    BY <1>5, <1>16, <1>18, <1>19
  <1>22. \A r, s \in net' : Owes(r) /\ Owes(s) /\ r.tab = t /\ s.tab = t => r = s
    BY <1>16, <1>19
  <1> QED  BY <1>1, <1>2, <1>3, <1>7, <1>12, <1>13, <1>15, <1>20, <1>21, <1>22, PageMoves

LEMMA OnRetryPersistAnswers ==
    ASSUME Inv, Answers, NEW t \in Tabs, OnRetryPersist(t)
    PROVE  Answers'
  <1> DEFINE p == page[t]
             pending == [p.pending EXCEPT !.key = ActionKey(p)]
  <1>1. PageOK(p) /\ p \in Pages /\ clock \in Nat  BY PageTyped
  <1>2. /\ p.persist = "error" /\ p.pending # NoPending
        /\ PersistAnswer(t, p, pending, {})
    BY DEF OnRetryPersist
  <1>3. Shape(p)  BY DEF Answers
  <1>4. pending = p.pending  BY <1>1, <1>2 DEF ActionKey, Pages
  <1>5. p.pending \in [key : Nat, letter : Letters, first : BOOLEAN, prior : BOOLEAN]
    BY <1>1, <1>2 DEF PageOK, Pages
  <1>6. /\ p.phase \notin Reading
        /\ p.phase = "answering" => p.res # "first_try" /\ p.active # NoLetter
        /\ Solved(p) /\ p.res = "first_try"
             => ResolutionOf(p.pending.letter, p.pending.prior) = "first_try"
    BY <1>2, <1>3 DEF Shape, Idle
  <1>7. {} \subseteq {PointerTo(p.q)} /\ PersistAnswer(t, p, p.pending, {})
    BY <1>2, <1>4
  <1> QED  BY <1>1, <1>2, <1>5, <1>6, <1>7, PersistAnswers

LEMMA OnSubmitAnswers ==
    ASSUME Inv, Answers, NEW t \in Tabs, OnSubmit(t)
    PROVE  Answers'
  <1> DEFINE p == page[t]
  <1>1. PageOK(p) /\ p \in Pages /\ clock \in Nat  BY PageTyped
  <1>2. p.phase = "answering" /\ p.persist # "pending" /\ Shape(p)
    BY DEF OnSubmit, Answers
  <1>3. PICK letter \in Letters \ {p.active} :
               PersistAnswer(t, Submitted(p, letter),
                   [key |-> ActionKey(p), letter |-> letter,
                    first |-> p.active = NoLetter, prior |-> p.active # NoLetter],
                   {PointerTo(p.q)})
    BY DEF OnSubmit
  <1> DEFINE sub == Submitted(p, letter)
             pending == [key |-> ActionKey(p), letter |-> letter,
                         first |-> p.active = NoLetter, prior |-> p.active # NoLetter]
             resent == {PointerTo(p.q)}
  <1>4. ActionKey(p) \in Nat  BY <1>1, KeyTyped
  <1>5. pending \in [key : Nat, letter : Letters, first : BOOLEAN, prior : BOOLEAN]
    BY <1>4
  <1>6. pending.key = clock + 1 \/ (p.pending # NoPending /\ pending.key = p.pending.key)
    BY DEF ActionKey
  <1>7. PageOK(sub) /\ sub.q = p.q /\ sub \in Pages
    BY <1>1, <1>2, SubmittedOK DEF PageOK
  <1>8. CASE letter # Right
    <2>1. sub = [p EXCEPT !.active = letter]  BY <1>8 DEF Submitted
    <2>2. sub.phase = "answering" /\ sub.res = p.res /\ sub.active = letter
      BY <1>1, <1>2, <2>1 DEF Pages
    <2>3. letter # NoLetter  BY LetterAssumption
    <2>4. sub.res # "first_try"  BY <1>2, <2>2 DEF Shape
    <2> HIDE DEF sub, pending, resent
    <2>5. resent \subseteq {PointerTo(sub.q)} /\ PersistAnswer(t, sub, pending, resent)
      BY <1>3, <1>7 DEF sub, pending, resent
    <2>6. ~Solved(sub)  BY <2>2 DEF Solved
    <2> QED
      BY <1>2, <1>5, <1>6, <1>7, <2>2, <2>3, <2>4, <2>5, <2>6, PersistAnswers DEF Reading
  <1>9. CASE letter = Right
    <2> DEFINE res == ResolutionOf(letter, p.active # NoLetter)
    <2>1. sub.phase = "solved" /\ sub.res = res
      BY <1>1, <1>9 DEF Submitted, Pages
    <2>2. ResolutionOf(pending.letter, pending.prior) = res  OBVIOUS
    <2>3. ASSUME res = "first_try"  PROVE pending.key = clock + 1
      <3>1. p.active = NoLetter  BY <1>9, <2>3 DEF ResolutionOf
      <3> QED  BY <1>2, <3>1 DEF Shape, ActionKey
    <2> HIDE DEF sub, pending, resent, res
    <2>4. resent \subseteq {PointerTo(sub.q)} /\ PersistAnswer(t, sub, pending, resent)
      BY <1>3, <1>7 DEF sub, pending, resent
    <2> QED  BY <1>2, <1>5, <1>6, <1>7, <2>1, <2>2, <2>3, <2>4, PersistAnswers DEF Reading
  <1> QED  BY <1>8, <1>9

(* The escape is sent under a key that nobody has.                         *)
LEMMA OnEscapeAnswers ==
    ASSUME Inv, Answers, NEW t \in Tabs, OnEscape(t)
    PROVE  Answers'
  <1> DEFINE p == page[t]
             row == NewRow(p.q, clock + 1, p.active, "walked_through")
             sent == Request("escape", t, row)
  <1>1. /\ net' = net \cup {sent} /\ clock' = clock + 1
        /\ page' = page /\ attempts' = attempts
    BY DEF OnEscape, storeVars
  <1>2. /\ clock \in Nat /\ clock' \in Nat /\ clock <= clock' /\ clock < clock'
        /\ page \in [Tabs -> Pages]
    BY <1>1 DEF Inv, TypeOK
  <1>3. Becomes(t, p)  BY <1>1, <1>2 DEF Becomes
  <1>4. sent.kind = "escape" /\ sent.body = row /\ row.key = clock'
    BY <1>1 DEF Request, NewRow
  <1> HIDE DEF row, sent
  <1>5. Carried' \subseteq Carried \cup {row}  BY <1>1, <1>4 DEF Carried
  <1>6. \A s \in Carried : s.key \in Int  BY CarriedTyped
  <1>7. ASSUME NEW u \in Tabs, page[u].pending # NoPending
        PROVE  page[u].pending.key # clock' /\ page[u].pending.key <= clock'
    <2>1. page[u].pending.key <= clock /\ page[u].pending.key \in Nat
      BY <1>2, <1>7 DEF Answers, OwnKey, Pages
    <2> QED  BY <1>2, <2>1
  <1>8. ~OthersKey(t, clock')  BY <1>7 DEF OthersKey
  <1>9. Shape(p) /\ Kept(p, attempts) /\ OwnKey(p, Carried, clock) /\ KeysApart
    BY DEF Answers
  <1>10. OwnKey(p, Carried', clock')
    BY <1>4, <1>5, <1>7, <1>9 DEF OwnKey
  <1>11. p.pending # NoPending => ~OthersKey(t, p.pending.key)
    BY <1>9 DEF KeysApart, OthersKey
  <1>12. \A s \in Carried' : s \in Carried \/ (s.key <= clock' /\ ~OthersKey(t, s.key))
    BY <1>2, <1>4, <1>5, <1>8
  <1>13. \A r \in net' : Owes(r) => r \in net  BY <1>1, <1>4 DEF Owes
  <1>14. \A r \in net' : Owes(r) => \/ r \in net /\ r.tab # t
                                    \/ r.tab = t /\ OwedFor(r, p, attempts)
    BY <1>13 DEF Answers
  <1>15. \A r, s \in net' : Owes(r) /\ Owes(s) /\ r.tab = t /\ s.tab = t => r = s
    BY <1>13 DEF Answers
  <1> QED
    BY <1>1, <1>2, <1>3, <1>6, <1>9, <1>10, <1>11, <1>12, <1>14, <1>15, PageMoves

-----------------------------------------------------------------------------
(***************************************************************************)
(* The server's steps.                                                     *)
(***************************************************************************)
(* The answer to a request, or its loss, takes the request's place.        *)
LEMMA AnswerReplaces ==
    ASSUME NEW r \in Requests, NEW body, Answer(r, body)
    PROVE  \E s : /\ net' \subseteq (net \ {r}) \cup {s}
                  /\ s.kind = r.kind /\ s.tab = r.tab /\ s.body \in {body, r.body}
  <1> DEFINE ok == [r EXCEPT !.st = "ok", !.body = body]
             err == [r EXCEPT !.st = "err"]
  <1>1. /\ ok.kind = r.kind /\ ok.tab = r.tab /\ ok.body = body
        /\ err.kind = r.kind /\ err.tab = r.tab /\ err.body = r.body
    BY DEF Requests
  <1>2. /\ \/ net' \subseteq (net \ {r}) \cup {ok}
           \/ net' \subseteq (net \ {r}) \cup {err}
    BY DEF Answer
  <1> HIDE DEF ok, err
  <1> QED  BY <1>1, <1>2

LEMMA StoredIsSame ==
    ASSUME NEW row
    PROVE  StoredFor(row).q = row.q /\ StoredFor(row).key = row.key
  BY DEF StoredFor, SameAnswer

LEMMA ServeAttemptAnswers ==
    ASSUME Inv, Answers, NEW r \in net, ServeAttempt(r)
    PROVE  Answers'
  <1>1. r \in Requests /\ r.kind \in {"attempt", "escape"} /\ r.body \in Rows
    BY BodyTyped DEF ServeAttempt, Inv, TypeOK, AttemptRequests
  <1>2. PICK row : row = StoredFor(r.body)  OBVIOUS
  <1>3. row.q = r.body.q /\ row.key = r.body.key  BY <1>2, StoredIsSame
  <1>4. /\ attempts \subseteq attempts' /\ attempts' \subseteq attempts \cup {r.body}
        /\ UNCHANGED <<page, clock>>
    BY DEF ServeAttempt, Insert
  <1>5. row \in attempts'
    BY <1>1, <1>2, StoredIsStored DEF ServeAttempt, Inv, TypeOK, StoreTypeOK
  <1>6. PICK s : /\ net' \subseteq (net \ {r}) \cup {s}
                 /\ s.kind = r.kind /\ s.tab = r.tab /\ s.body \in {row, r.body}
    BY <1>1, <1>2, AnswerReplaces DEF ServeAttempt
  <1>7. attempts' \subseteq Carried /\ s.body \in Carried
    BY <1>1, <1>4, <1>5, <1>6 DEF Carried
  <1>8. Carried' \subseteq Carried  BY <1>6, <1>7 DEF Carried
  <1> QED  BY <1>3, <1>4, <1>6, <1>8, RequestMoves

(* The other steps of the server leave the rows.                           *)
LEMMA RequestRests ==
    ASSUME Inv, Answers, NEW r \in net, NEW s, net' \subseteq (net \ {r}) \cup {s},
           UNCHANGED <<attempts, page, clock>>, s.kind = r.kind, s.tab = r.tab,
           r.kind \in {"attempt", "escape"} => s.body = r.body
    PROVE  Answers'
  <1>1. Carried' \subseteq Carried  BY DEF Carried
  <1> QED  BY <1>1, RequestMoves

LEMMA ServedAnswers ==
    ASSUME Inv, Answers, NEW r \in net, Served(r) \/ RequestFails(r)
    PROVE  Answers'
  <1>1. r \in Requests  BY DEF Inv, TypeOK
  <1>2. CASE ServeAttempt(r)  BY <1>2, ServeAttemptAnswers
  <1>3. CASE ServeReview(r)
    <2>1. PICK s : /\ net' \subseteq (net \ {r}) \cup {s}
                   /\ s.kind = r.kind /\ s.tab = r.tab
      BY <1>1, <1>3, AnswerReplaces DEF ServeReview
    <2> QED  BY <1>3, <2>1, RequestRests DEF ServeReview
  <1>4. CASE ServePointer(r)
    <2>1. net' \subseteq (net \ {r}) \cup {r}  BY <1>4 DEF ServePointer
    <2> QED  BY <1>4, <2>1, RequestRests DEF ServePointer
  <1>5. CASE TallyForClose(r)
    <2> DEFINE tallied == [r EXCEPT !.st = "tallied", !.body = CommitFirstTally(attempts)]
               err == [r EXCEPT !.st = "err"]
    <2>1. /\ tallied.kind = r.kind /\ tallied.tab = r.tab
          /\ err.kind = r.kind /\ err.tab = r.tab /\ r.kind = "close"
      BY <1>1, <1>5 DEF TallyForClose, Requests
    <2>2. /\ \/ net' \subseteq (net \ {r}) \cup {tallied}
             \/ net' \subseteq (net \ {r}) \cup {err}
          /\ UNCHANGED <<attempts, page, clock>>
      BY <1>5 DEF TallyForClose, storeVars
    <2> HIDE DEF tallied, err
    <2> QED  BY <2>1, <2>2, RequestRests
  <1>6. CASE ServeClose(r)
    <2>1. PICK s : /\ net' \subseteq (net \ {r}) \cup {s}
                   /\ s.kind = r.kind /\ s.tab = r.tab
      BY <1>1, <1>6, AnswerReplaces DEF ServeClose
    <2> QED  BY <1>6, <2>1, RequestRests DEF ServeClose
  <1>7. CASE RequestFails(r)
    <2> DEFINE err == [r EXCEPT !.st = "err"]
    <2>1. err.kind = r.kind /\ err.tab = r.tab /\ err.body = r.body
      BY <1>1 DEF Requests
    <2>2. /\ net' \subseteq (net \ {r}) \cup {err}
          /\ UNCHANGED <<attempts, page, clock>>
      BY <1>7 DEF RequestFails, storeVars
    <2> HIDE DEF err
    <2> QED  BY <2>1, <2>2, RequestRests
  <1> QED  BY <1>2, <1>3, <1>4, <1>5, <1>6, <1>7 DEF Served

-----------------------------------------------------------------------------
(***************************************************************************)
(* What the pages hear.                                                    *)
(***************************************************************************)

(* A stored row of the page's question and key is what the page shows.     *)
LEMMA SettledAnswers ==
    ASSUME Inv, Answers, NEW t \in Tabs, Becomes(t, Settled(page[t])),
           UNCHANGED <<attempts, clock>>, NEW r \in net, r.tab = t, Owes(r),
           net' = net \ {r},
           \E s \in attempts : s.q = page[t].q /\ s.key = page[t].pending.key
    PROVE  Answers'
  <1> DEFINE p == page[t]
             f == Settled(p)
  <1>1. p \in Pages /\ Shape(p) /\ OwnKey(p, Carried, clock)
    BY PageTyped DEF Answers
  <1>2. PICK s \in attempts : s.q = p.q /\ s.key = p.pending.key  OBVIOUS
  <1>3. p.pending # NoPending  BY DEF Answers, OwedFor
  <1>4. /\ f.pending = NoPending /\ f.phase = p.phase /\ f.q = p.q /\ f.res = p.res
        /\ f.active = p.active
    BY <1>1 DEF Settled, Pages
  <1>5. Solved(p) /\ p.res = "first_try" => s.res = "first_try"
    BY <1>1, <1>2, <1>3 DEF OwnKey, Carried
  <1> HIDE DEF f
  <1>6. Kept(f, attempts)  BY <1>1, <1>2, <1>4, <1>5 DEF Kept, Solved, Shape
  <1>7. p.persist = "pending"  BY DEF Answers, OwedFor
  <1>8. Shape(f)
    <2>1. p.phase \notin Reading
      BY <1>1, <1>7 DEF Shape, Idle
    <2> QED  BY <1>1, <1>4, <2>1 DEF Shape, Solved, Idle
  <1>9. Carried' \subseteq Carried  BY DEF Carried
  <1>10. \A x \in net' : Owes(x) => x \in net /\ x.tab # t
    BY DEF Answers
  <1>11. Becomes(t, f)  BY DEF f
  <1> QED  BY <1>4, <1>6, <1>8, <1>9, <1>10, <1>11, PageClears

LEMMA AttemptHeardAnswers ==
    ASSUME Inv, Answers, NEW r \in net, AttemptHeard(r)
    PROVE  Answers'
  <1> DEFINE t == r.tab
             p == page[t]
             review == Request("review", t, Append(card, r.body))
  <1>1. /\ Backed(r) /\ t \in Tabs /\ r.kind = "attempt" /\ r.st = "ok" /\ Owes(r)
        /\ UNCHANGED <<attempts, clock>>
    BY Heeds DEF AttemptHeard, Hears, Owes, storeVars
  <1>2. OwedFor(r, p, attempts)  BY <1>1 DEF Answers
  <1>3. r.body \in attempts /\ r.body.q = p.q /\ r.body.key = p.pending.key
    BY <1>1, <1>2 DEF Backed, OwedFor
  <1>4. CASE p.pending.first = FALSE /\ net' = net \ {r} /\ Becomes(t, Settled(p))
    BY <1>1, <1>3, <1>4, SettledAnswers
  <1>5. CASE net' = (net \ {r}) \cup {review} /\ Becomes(t, p)
    <2>1. review.kind = "review" /\ review.tab = t  BY DEF Request
    <2>2. OwedFor(review, p, attempts)
      BY <1>2, <1>3, <2>1 DEF OwedFor
    <2> HIDE DEF review
    <2>3. Carried' \subseteq Carried  BY <1>1, <1>5, <2>1 DEF Carried
    <2>4. Shape(p) /\ Kept(p, attempts) /\ OwnKey(p, Carried, clock) /\ KeysApart
      BY <1>1 DEF Answers
    <2>5. OwnKey(p, Carried', clock')  BY <1>1, <2>3, <2>4 DEF OwnKey
    <2>6. p.pending # NoPending => ~OthersKey(t, p.pending.key)
      BY <1>1, <2>4 DEF KeysApart, OthersKey
    <2>7. \A x \in net \ {r} : Owes(x) => x.tab # t  BY <1>1 DEF Answers
    <2>8. \A x \in net' : Owes(x) => \/ x \in net /\ x.tab # t
                                     \/ x.tab = t /\ OwedFor(x, p, attempts)
      BY <1>5, <2>1, <2>2, <2>7
    <2>9. \A x, y \in net' : Owes(x) /\ Owes(y) /\ x.tab = t /\ y.tab = t => x = y
      BY <1>5, <2>7
    <2>10. clock' \in Nat /\ clock <= clock' /\ attempts' = attempts
      BY <1>1 DEF Inv, TypeOK
    <2>11. \A s \in Carried : s.key \in Int  BY CarriedTyped
    <2> QED
      BY <1>1, <1>5, <2>3, <2>4, <2>5, <2>6, <2>8, <2>9, <2>10, <2>11, PageMoves
  <1>6. p \in Pages  BY <1>1, PageTyped
  <1>7. p.pending.first \in BOOLEAN  BY <1>6 DEF Pages
  <1> QED  BY <1>4, <1>5, <1>7 DEF AttemptHeard, ReviewOf

LEMMA ReviewHeardAnswers ==
    ASSUME Inv, Answers, NEW r \in net, ReviewHeard(r)
    PROVE  Answers'
  <1>1. /\ r.tab \in Tabs /\ r.kind = "review" /\ Owes(r) /\ net' = net \ {r}
        /\ UNCHANGED <<attempts, clock>> /\ Becomes(r.tab, Settled(page[r.tab]))
    BY Heeds DEF ReviewHeard, Hears, Owes, storeVars
  <1>2. OwedFor(r, page[r.tab], attempts)  BY <1>1 DEF Answers
  <1> QED  BY <1>1, <1>2, SettledAnswers DEF OwedFor

LEMMA PersistFailedAnswers ==
    ASSUME Inv, Answers, NEW r \in net, PersistFailed(r)
    PROVE  Answers'
  <1> DEFINE t == r.tab
             p == page[t]
             f == [p EXCEPT !.persist = "error"]
  <1>1. /\ t \in Tabs /\ Owes(r) /\ net' = net \ {r}
        /\ UNCHANGED <<attempts, clock>> /\ Becomes(t, f)
    BY Heeds DEF PersistFailed, Hears, Owes, storeVars
  <1>2. p \in Pages  BY <1>1, PageTyped
  <1>3. /\ f.pending = p.pending /\ f.phase = p.phase /\ f.q = p.q /\ f.res = p.res
        /\ f.active = p.active /\ f.persist = "error"
    BY <1>2 DEF Pages
  <1>4. Shape(p) /\ OwnKey(p, Carried, clock) /\ KeysApart /\ p.persist = "pending"
    BY <1>1 DEF Answers, OwedFor
  <1> HIDE DEF f
  <1>5. Shape(f) /\ Kept(f, attempts)  BY <1>3, <1>4 DEF Shape, Kept, Idle, Solved
  <1>6. Carried' \subseteq Carried  BY <1>1 DEF Carried
  <1>7. OwnKey(f, Carried', clock')  BY <1>1, <1>3, <1>4, <1>6 DEF OwnKey, Solved
  <1>8. f.pending # NoPending => ~OthersKey(t, f.pending.key)
    BY <1>1, <1>3, <1>4 DEF KeysApart, OthersKey
  <1>9. \A x \in net' : Owes(x) => x \in net /\ x.tab # t  BY <1>1 DEF Answers
  <1>10. clock' \in Nat /\ clock <= clock' /\ attempts' = attempts
    BY <1>1 DEF Inv, TypeOK
  <1>11. \A s \in Carried : s.key \in Int  BY CarriedTyped
  <1> HIDE DEF t, p
  <1> QED  BY <1>1, <1>5, <1>6, <1>7, <1>8, <1>9, <1>10, <1>11, PageMoves

LEMMA EscapeHeardAnswers ==
    ASSUME Inv, Answers, NEW r \in net, EscapeHeard(r)
    PROVE  Answers'
  <1> DEFINE t == r.tab
             p == page[t]
             f == EscapeTaken(p)
  <1>1. /\ t \in Tabs /\ net' = net \ {r}
        /\ UNCHANGED <<attempts, clock>> /\ Becomes(t, f)
    BY Heeds DEF EscapeHeard, storeVars
  <1>2. p \in Pages /\ Shape(p) /\ Kept(p, attempts)  BY <1>1, PageTyped DEF Answers
  <1>3. /\ f.pending = p.pending /\ f.q = p.q /\ f.persist = p.persist
        /\ \/ f = p
           \/ /\ p.phase = "answering" /\ p.active # NoLetter
              /\ f.phase = "solved" /\ f.res = "walked_through"
    BY <1>2 DEF EscapeTaken, Pages
  <1> HIDE DEF f
  <1>4. Shape(f) /\ Kept(f, attempts)
    BY <1>2, <1>3 DEF Shape, Kept, Idle, Solved, Reading
  <1>5. Solved(f) /\ f.res = "first_try" => Solved(p) /\ p.res = "first_try"
    BY <1>3 DEF Solved
  <1>6. \A x \in net' : x \in net \/ Aside(x)  BY <1>1
  <1> QED  BY <1>1, <1>3, <1>4, <1>5, <1>6, PageRests

(* A page that shows an error, or the summary.                             *)
LEMMA OutcomeHeardAnswers ==
    ASSUME Inv, Answers, NEW r \in net, EscapeFailed(r) \/ CloseHeard(r) \/ CloseFailed(r)
    PROVE  Answers'
  <1> DEFINE t == r.tab
             p == page[t]
  <1>1. t \in Tabs /\ net' = net \ {r} /\ UNCHANGED <<attempts, clock>>
    BY Heeds DEF EscapeFailed, CloseHeard, CloseFailed, storeVars
  <1>2. PICK f \in {[p EXCEPT !.failed = TRUE], [p EXCEPT !.phase = "summary"],
                    [p EXCEPT !.closing = FALSE, !.failed = TRUE]} : Becomes(t, f)
    BY DEF EscapeFailed, CloseHeard, CloseFailed
  <1>3. p \in Pages  BY <1>1, PageTyped
  <1>4. /\ f.pending = p.pending /\ f.q = p.q /\ f.persist = p.persist
        /\ \/ f.phase = "summary"
           \/ f.phase = p.phase /\ f.active = p.active /\ f.res = p.res
    <2> HIDE DEF p
    <2>1. CASE f = [p EXCEPT !.failed = TRUE]  BY <1>3, <2>1 DEF Pages
    <2>2. CASE f = [p EXCEPT !.phase = "summary"]  BY <1>3, <2>2 DEF Pages
    <2>3. CASE f = [p EXCEPT !.closing = FALSE, !.failed = TRUE]
      BY <1>3, <2>3 DEF Pages
    <2> QED  BY <1>2, <2>1, <2>2, <2>3
  <1> QED  BY <1>1, <1>2, <1>4, PhaseMoves

-----------------------------------------------------------------------------
(***************************************************************************)
(* The theorem.                                                            *)
(***************************************************************************)
LEMMA InitAnswers == Init => Answers
  <1> SUFFICES ASSUME Init PROVE Answers  OBVIOUS
  <1>1. \A t \in Tabs : page[t] = Mounted  BY DEF Init
  <1>2. net = {} /\ Carried = {}  BY DEF Init, StoreInit, Carried
  <1>3. /\ Mounted.pending = NoPending /\ Shape(Mounted) /\ Kept(Mounted, attempts)
        /\ OwnKey(Mounted, Carried, clock)
    BY DEF Mounted, Shape, Kept, Solved, Idle, OwnKey
  <1> QED  BY <1>1, <1>2, <1>3 DEF Answers, KeysApart

LEMMA NextAnswers == Inv /\ Answers /\ [Next]_vars => Answers'
  <1> SUFFICES ASSUME Inv, Answers, [Next]_vars PROVE Answers'  OBVIOUS
  <1>1. ASSUME NEW t \in Tabs, Learner(t) \/ PageRuns(t) \/ ReadFails(t)
        PROVE  Answers'
    <2>1. CASE OnSubmit(t)  BY <2>1, OnSubmitAnswers
    <2>2. CASE OnRetryPersist(t)  BY <2>2, OnRetryPersistAnswers
    <2>3. CASE OnEscape(t)  BY <2>3, OnEscapeAnswers
    <2>4. CASE OnNext(t)  BY <2>4, OnNextAnswers
    <2>5. CASE OnFinish(t) \/ CompletionEffect(t) \/ OnEndSession(t)
      BY <2>5, CloseAnswers
    <2>6. CASE Reload(t)  BY <2>6, ReloadAnswers
    <2>7. CASE GetActive(t) \/ GetNext(t) \/ CloseExhausted(t) \/ ReadFails(t)
      BY <2>7, ReadsAnswers
    <2>8. CASE Show(t)  BY <2>8, ShowAnswers
    <2> QED  BY <1>1, <2>1, <2>2, <2>3, <2>4, <2>5, <2>6, <2>7, <2>8
             DEF Learner, PageRuns
  <1>2. ASSUME NEW r \in net, Served(r) \/ RequestFails(r) \/ Heard(r)
        PROVE  Answers'
    <2>1. CASE Served(r) \/ RequestFails(r)  BY <2>1, ServedAnswers
    <2>2. CASE AttemptHeard(r)  BY <2>2, AttemptHeardAnswers
    <2>3. CASE ReviewHeard(r)  BY <2>3, ReviewHeardAnswers
    <2>4. CASE PersistFailed(r)  BY <2>4, PersistFailedAnswers
    <2>5. CASE EscapeHeard(r)  BY <2>5, EscapeHeardAnswers
    <2>6. CASE EscapeFailed(r) \/ CloseHeard(r) \/ CloseFailed(r)
      BY <2>6, OutcomeHeardAnswers
    <2> QED  BY <1>2, <2>1, <2>2, <2>3, <2>4, <2>5, <2>6 DEF Heard
  <1>3. CASE UNCHANGED vars
    <2>1. attempts' = attempts /\ page' = page /\ net' = net /\ clock' = clock
      BY <1>3 DEF vars, storeVars
    <2>2. Carried' = Carried  BY <2>1 DEF Carried
    <2>3. KeysApart'  BY <2>1 DEF Answers, KeysApart
    <2> QED  BY <2>1, <2>2, <2>3 DEF Answers, Shape, Kept, OwnKey, OwedFor, Owes
  <1> QED  BY <1>1, <1>2, <1>3 DEF Next

LEMMA AnswersHold == Spec => [](Inv /\ Answers)
  <1>1. Init => Inv /\ Answers  BY InitInv, InitAnswers
  <1>2. Inv /\ Answers /\ [Next]_vars => Inv' /\ Answers'  BY NextInv, NextAnswers
  <1> QED  BY <1>1, <1>2, PTL DEF Spec

(* A page leaves a solved item only while it owes nothing.                 *)
LEMMA LeavesIdle ==
    ASSUME Inv, Next, NEW s \in Tabs, Solved(page[s]),
           page'[s].phase \in {"loading", "done"}
    PROVE  Idle(page[s])
  <1>1. ASSUME NEW u \in Tabs, NEW f, Becomes(u, f), s = u => Idle(page[s]) \/
                 f.phase \notin {"loading", "done"}
        PROVE  Idle(page[s])
    <2>1. page' = [page EXCEPT ![u] = f] /\ page \in [Tabs -> Pages]
      BY <1>1 DEF Becomes, Inv, TypeOK
    <2>2. CASE s = u  BY <1>1, <2>1, <2>2
    <2>3. CASE s # u  BY <2>1, <2>3 DEF Solved
    <2> QED  BY <2>2, <2>3
  <1>2. ASSUME NEW t \in Tabs, Learner(t) \/ PageRuns(t) \/ ReadFails(t)
        PROVE  Idle(page[s])
    <2> DEFINE p == page[t]
    <2>1. PageOK(p) /\ p \in Pages  BY PageTyped
    <2>2. CASE OnSubmit(t)
      <3>1. PICK f : Becomes(t, f) /\ p.phase = "answering"
        BY <2>2 DEF OnSubmit, PersistAnswer
      <3> QED  BY <1>1, <3>1 DEF Solved
    <2>3. CASE OnRetryPersist(t)
      <3>1. PICK pending : Becomes(t, [p EXCEPT !.pending = pending, !.persist = "pending"])
        BY <2>3 DEF OnRetryPersist, PersistAnswer
      <3>2. [p EXCEPT !.pending = pending, !.persist = "pending"].phase = p.phase
        BY <2>1 DEF Pages
      <3> QED  BY <1>1, <3>1, <3>2 DEF Solved
    <2>4. CASE OnEscape(t)  BY <2>4 DEF OnEscape, Solved
    <2>5. CASE OnNext(t) \/ OnFinish(t) \/ CompletionEffect(t) \/ OnEndSession(t)
      <3>1. (\E f : Becomes(t, f)) /\ Idle(p)
        BY <2>5 DEF OnNext, OnFinish, CompletionEffect, OnEndSession, CloseAndRoute,
                    AdvanceBlocked, Idle
      <3> QED  BY <1>1, <3>1
    <2>6. CASE Reload(t)
      <3>1. Becomes(t, Mounted) /\ Mounted.phase = "resuming"  BY <2>6 DEF Reload, Mounted
      <3> QED  BY <1>1, <3>1
    <2>7. CASE GetActive(t) \/ GetNext(t) \/ Show(t) \/ CloseExhausted(t) \/ ReadFails(t)
      <3>1. (\E f : Becomes(t, f)) /\ p.phase \in Reading
        BY <2>7, ReadingBecomes DEF Show, Reading
      <3> QED  BY <1>1, <3>1 DEF Solved, Reading
    <2> QED  BY <1>2, <2>2, <2>3, <2>4, <2>5, <2>6, <2>7 DEF Learner, PageRuns
  <1>3. ASSUME NEW r \in net, Served(r) \/ RequestFails(r)
        PROVE  Idle(page[s])
    <2>1. page' = page
      BY <1>3 DEF Served, ServeAttempt, ServeReview, ServePointer, TallyForClose,
                  ServeClose, RequestFails
    <2> QED  BY <2>1 DEF Solved
  <1>4. ASSUME NEW r \in net, Heard(r)
        PROVE  Idle(page[s])
    <2>1. r.tab \in Tabs
      BY <1>4, Heeds DEF Heard, AttemptHeard, ReviewHeard, PersistFailed, EscapeHeard,
                        EscapeFailed, CloseHeard, CloseFailed
    <2> DEFINE p == page[r.tab]
    <2>2. p \in Pages  BY <2>1, PageTyped
    <2>3. /\ Settled(p).phase = p.phase
          /\ [p EXCEPT !.persist = "error"].phase = p.phase
          /\ [p EXCEPT !.failed = TRUE].phase = p.phase
          /\ [p EXCEPT !.phase = "summary"].phase = "summary"
          /\ [p EXCEPT !.closing = FALSE, !.failed = TRUE].phase = p.phase
          /\ EscapeTaken(p).phase \in {p.phase, "solved"}
      BY <2>2 DEF Pages, Settled, EscapeTaken
    <2>4. \/ Becomes(r.tab, p) \/ Becomes(r.tab, Settled(p))
          \/ Becomes(r.tab, [p EXCEPT !.persist = "error"])
          \/ Becomes(r.tab, EscapeTaken(p)) \/ Becomes(r.tab, [p EXCEPT !.failed = TRUE])
          \/ Becomes(r.tab, [p EXCEPT !.phase = "summary"])
          \/ Becomes(r.tab, [p EXCEPT !.closing = FALSE, !.failed = TRUE])
      BY <1>4 DEF Heard, AttemptHeard, ReviewHeard, PersistFailed, EscapeHeard,
                  EscapeFailed, CloseHeard, CloseFailed
    <2>5. PICK f : Becomes(r.tab, f) /\ f.phase \in {p.phase, "summary", "solved"}
      BY <2>3, <2>4
    <2> QED  BY <1>1, <2>1, <2>5 DEF Solved
  <1> QED  BY <1>2, <1>3, <1>4 DEF Next

(* A page leaves a solved item only when the server has a row of it, and   *)
(* the first try the page claimed, whatever failed, was sent twice, came   *)
(* from another page or was left behind by a reload.                       *)
THEOREM SolvedAnswersAreStored == Spec => SolvedIsStored
  <1> DEFINE Leave == \A t \in Tabs :
                        Solved(page[t]) /\ page'[t].phase \in {"loading", "done"}
                          => \E r \in attempts :
                               /\ r.q = page[t].q
                               /\ page[t].res = "first_try" => r.res = "first_try"
  <1>1. Inv /\ Answers /\ [Next]_vars => [Leave]_vars
    <2> SUFFICES ASSUME Inv, Answers, Next, NEW t \in Tabs, Solved(page[t]),
                        page'[t].phase \in {"loading", "done"}
                 PROVE  \E r \in attempts :
                          /\ r.q = page[t].q
                          /\ page[t].res = "first_try" => r.res = "first_try"
      OBVIOUS
    <2>1. Idle(page[t])  BY LeavesIdle
    <2>2. Kept(page[t], attempts)  BY DEF Answers
    <2> QED  BY <2>1, <2>2 DEF Kept
  <1> HIDE DEF Leave
  <1>2. [][Leave]_vars => SolvedIsStored  BY PTL DEF Leave, SolvedIsStored
  <1> QED  BY <1>1, <1>2, AnswersHold, PTL DEF Spec

-----------------------------------------------------------------------------
(***************************************************************************)
(* A page asks nothing twice.                                              *)
(*                                                                         *)
(* What a page has asked, or met answered at its mount, has an answer on   *)
(* the server by the time the page reads what to ask next, because a page  *)
(* leaves a solved item only when it is stored.  What the server offers    *)
(* has no answer at that moment, so it is not among them; and what is      *)
(* among them does not change before the page shows what it was offered.   *)
(***************************************************************************)
AskedBy(p, known, rows) ==
    /\ p.phase \in Reading => known \subseteq Attempted(rows)
    /\ p.phase \in {"answering", "solved"} => known \subseteq Attempted(rows) \cup {p.q}
    /\ p.phase = "offered" => p.q \notin known

Asking == \A t \in Tabs : AskedBy(page[t], asked[t], attempts)

(* The rows may grow.                                                      *)
LEMMA AskedGrows ==
    ASSUME NEW p, NEW known, NEW rows, NEW more, rows \subseteq more,
           AskedBy(p, known, rows)
    PROVE  AskedBy(p, known, more)
  BY DEF AskedBy, Attempted

(* A page's step.                                                          *)
LEMMA AskingMoves ==
    ASSUME Inv, Asking, NEW t \in Tabs, NEW f, Becomes(t, f), attempts' = attempts,
           NEW known, asked' = [asked EXCEPT ![t] = known],
           AskedBy(f, known, attempts)
    PROVE  Asking'
  <1>1. /\ page' = [page EXCEPT ![t] = f] /\ page \in [Tabs -> Pages]
        /\ asked \in [Tabs -> SUBSET Questions]
    BY DEF Becomes, Inv, TypeOK
  <1>2. ASSUME NEW u \in Tabs  PROVE AskedBy(page'[u], asked'[u], attempts')
    <2>1. CASE u = t  BY <1>1, <2>1
    <2>2. CASE u # t
      <3>1. page'[u] = page[u] /\ asked'[u] = asked[u]  BY <1>1, <2>2
      <3> QED  BY <3>1 DEF Asking
    <2> QED  BY <2>1, <2>2
  <1> QED  BY <1>2 DEF Asking, AskedBy

(* A page's step that asks nothing.                                        *)
LEMMA AskingRests ==
    ASSUME Inv, Asking, NEW t \in Tabs, NEW f, Becomes(t, f), UNCHANGED <<attempts, asked>>,
           AskedBy(f, asked[t], attempts)
    PROVE  Asking'
  <1>1. asked' = [asked EXCEPT ![t] = asked[t]]  BY DEF Inv, TypeOK
  <1> QED  BY <1>1, AskingMoves

(* A page that shows what it showed, or no longer asks.                    *)
LEMMA AskingStays ==
    ASSUME Inv, Asking, NEW t \in Tabs, NEW f, Becomes(t, f), UNCHANGED <<attempts, asked>>,
           \/ f.phase \notin Reading \cup {"answering", "solved"}
           \/ f.phase = page[t].phase /\ f.q = page[t].q
           \/ f.phase = "solved" /\ page[t].phase = "answering" /\ f.q = page[t].q
    PROVE  Asking'
  <1>1. AskedBy(page[t], asked[t], attempts)  BY DEF Asking
  <1>2. AskedBy(f, asked[t], attempts)  BY <1>1 DEF AskedBy, Reading
  <1> QED  BY <1>2, AskingRests

LEMMA ReadsAsking ==
    ASSUME Inv, Asking, NEW t \in Tabs,
           GetActive(t) \/ GetNext(t) \/ CloseExhausted(t) \/ ReadFails(t)
    PROVE  Asking'
  <1>1. page[t].phase \in Reading /\ UNCHANGED <<attempts, asked>>
    BY ReadingBecomes DEF storeVars
  <1>2. asked[t] \subseteq Attempted(attempts)  BY <1>1 DEF Asking, AskedBy
  <1>3. PICK f : /\ Becomes(t, f)
                 /\ \/ f.phase \in Reading \ {"offered"}
                    \/ f.phase \in {"fresh", "halted"}
                    \/ f.phase = "offered" /\ f.q \notin Attempted(attempts)
    BY ReadingBecomes
  <1>4. AskedBy(f, asked[t], attempts)  BY <1>2, <1>3 DEF AskedBy, Reading
  <1> QED  BY <1>1, <1>3, <1>4, AskingRests

LEMMA ShowAsking ==
    ASSUME Inv, Asking, NEW t \in Tabs, Show(t)
    PROVE  /\ Asking' /\ page'[t].q \notin asked[t]
  <1> DEFINE p == page[t]
             f == FreshAnswering(p, p.q)
             known == asked[t] \cup {p.q}
  <1>1. /\ p \in Pages /\ p.phase = "offered" /\ attempts' = attempts /\ Becomes(t, f)
        /\ asked' = [asked EXCEPT ![t] = known]
    BY PageTyped DEF Show, storeVars
  <1>2. asked[t] \subseteq Attempted(attempts) /\ p.q \notin asked[t]
    BY <1>1 DEF Asking, AskedBy, Reading
  <1>3. f.phase = "answering" /\ f.q = p.q  BY <1>1 DEF FreshAnswering, Pages
  <1>4. page'[t] = f  BY <1>1 DEF Becomes, Inv, TypeOK
  <1> HIDE DEF f
  <1>5. AskedBy(f, known, attempts)  BY <1>2, <1>3 DEF AskedBy, Reading
  <1> HIDE DEF known
  <1>6. Asking'  BY <1>1, <1>5, AskingMoves
  <1> QED  BY <1>2, <1>3, <1>4, <1>6

LEMMA OnNextAsking ==
    ASSUME Inv, Answers, Asking, NEW t \in Tabs, OnNext(t)
    PROVE  Asking'
  <1> DEFINE p == page[t]
             f == [p EXCEPT !.phase = "loading", !.pending = NoPending,
                            !.res = NoRes, !.active = NoLetter]
  <1>1. /\ p \in Pages /\ Solved(p) /\ Idle(p) /\ UNCHANGED <<attempts, asked>>
        /\ Becomes(t, f)
    BY PageTyped DEF OnNext, AdvanceBlocked, Idle, storeVars
  <1>2. p.q \in Attempted(attempts)
    <2>1. Kept(p, attempts)  BY DEF Answers
    <2> QED  BY <1>1, <2>1 DEF Kept, Attempted
  <1>3. asked[t] \subseteq Attempted(attempts)
    BY <1>1, <1>2 DEF Asking, AskedBy, Solved
  <1>4. f.phase = "loading"  BY <1>1 DEF Pages
  <1> HIDE DEF f
  <1>5. AskedBy(f, asked[t], attempts)  BY <1>3, <1>4 DEF AskedBy
  <1> QED  BY <1>1, <1>5, AskingRests

LEMMA ReloadAsking ==
    ASSUME Inv, Asking, NEW t \in Tabs, Reload(t)
    PROVE  Asking'
  <1>1. AskedBy(Mounted, Attempted(attempts), attempts)  BY DEF AskedBy, Mounted
  <1> QED  BY <1>1, AskingMoves DEF Reload, storeVars

(* Submit, retry, escape and the closes.                                   *)
LEMMA LearnerAsking ==
    ASSUME Inv, Answers, Asking, NEW t \in Tabs, Learner(t) \/ CompletionEffect(t)
    PROVE  Asking'
  <1> DEFINE p == page[t]
  <1>1. PageOK(p) /\ p \in Pages  BY PageTyped
  <1>2. CASE OnSubmit(t)
    <2>1. p.phase = "answering"  BY <1>2 DEF OnSubmit
    <2>2. PICK letter \in Letters :
              \E pending : /\ Becomes(t, [Submitted(p, letter) EXCEPT
                                            !.pending = pending, !.persist = "pending"])
                           /\ UNCHANGED <<attempts, asked>>
      BY <1>2 DEF OnSubmit, PersistAnswer, storeVars
    <2> DEFINE sub == Submitted(p, letter)
    <2>3. sub \in Pages /\ sub.q = p.q  BY <1>1, <2>1, SubmittedOK DEF PageOK
    <2>4. sub.phase \in {"answering", "solved"}  BY <1>1, <2>1 DEF Submitted, Pages
    <2> HIDE DEF sub
    <2>5. PICK pending : /\ Becomes(t, [sub EXCEPT !.pending = pending,
                                                   !.persist = "pending"])
                         /\ UNCHANGED <<attempts, asked>>
      BY <2>2 DEF sub
    <2> DEFINE f == [sub EXCEPT !.pending = pending, !.persist = "pending"]
    <2>6. f.q = p.q /\ f.phase = sub.phase  BY <2>3 DEF Pages
    <2>7. Becomes(t, f)  BY <2>5
    <2> HIDE DEF f
    <2> QED  BY <2>1, <2>4, <2>5, <2>6, <2>7, AskingStays
  <1>3. CASE OnRetryPersist(t)
    <2>1. PICK pending :
              /\ Becomes(t, [p EXCEPT !.pending = pending, !.persist = "pending"])
              /\ UNCHANGED <<attempts, asked>>
      BY <1>3 DEF OnRetryPersist, PersistAnswer, storeVars
    <2> DEFINE f == [p EXCEPT !.pending = pending, !.persist = "pending"]
    <2>2. f.phase = p.phase /\ f.q = p.q  BY <1>1 DEF Pages
    <2> QED  BY <2>1, <2>2, AskingStays
  <1>4. CASE OnEscape(t)  BY <1>4 DEF OnEscape, Asking, AskedBy, storeVars
  <1>5. CASE OnNext(t)  BY <1>5, OnNextAsking
  <1>6. CASE OnFinish(t) \/ OnEndSession(t) \/ CompletionEffect(t)
    <2>1. UNCHANGED <<attempts, asked>>
      BY <1>6 DEF OnFinish, CompletionEffect, OnEndSession, CloseAndRoute, storeVars
    <2>2. PICK f \in {[p EXCEPT !.phase = "done", !.closing = TRUE],
                      [p EXCEPT !.phase = "done"]} : Becomes(t, f)
      BY <1>6 DEF OnFinish, CompletionEffect, OnEndSession, CloseAndRoute
    <2>3. f.phase = "done"  BY <1>1 DEF Pages
    <2> QED  BY <2>1, <2>2, <2>3, AskingStays DEF Reading
  <1>7. CASE Reload(t)  BY <1>7, ReloadAsking
  <1> QED  BY <1>2, <1>3, <1>4, <1>5, <1>6, <1>7 DEF Learner

LEMMA HeardAsking ==
    ASSUME Inv, Asking, NEW r \in net, Heard(r)
    PROVE  Asking'
  <1> DEFINE t == r.tab
             p == page[t]
  <1>1. t \in Tabs
    BY Heeds DEF Heard, AttemptHeard, ReviewHeard, PersistFailed, EscapeHeard,
                 EscapeFailed, CloseHeard, CloseFailed
  <1>2. p \in Pages  BY <1>1, PageTyped
  <1>3. UNCHANGED <<attempts, asked>>
    BY DEF Heard, AttemptHeard, ReviewHeard, PersistFailed, EscapeHeard,
           EscapeFailed, CloseHeard, CloseFailed, storeVars
  <1>4. \/ Becomes(t, p) \/ Becomes(t, Settled(p))
        \/ Becomes(t, [p EXCEPT !.persist = "error"])
        \/ Becomes(t, EscapeTaken(p)) \/ Becomes(t, [p EXCEPT !.failed = TRUE])
        \/ Becomes(t, [p EXCEPT !.phase = "summary"])
        \/ Becomes(t, [p EXCEPT !.closing = FALSE, !.failed = TRUE])
    BY DEF Heard, AttemptHeard, ReviewHeard, PersistFailed, EscapeHeard,
           EscapeFailed, CloseHeard, CloseFailed
  <1> DEFINE Same(f) == f.phase = p.phase /\ f.q = p.q
  <1>5. /\ Same(p) /\ Same(Settled(p)) /\ Same([p EXCEPT !.persist = "error"])
        /\ Same([p EXCEPT !.failed = TRUE])
        /\ Same([p EXCEPT !.closing = FALSE, !.failed = TRUE])
        /\ [p EXCEPT !.phase = "summary"].phase = "summary"
    BY <1>2 DEF Pages, Settled
  <1>6. \/ Same(EscapeTaken(p))
        \/ /\ EscapeTaken(p).phase = "solved" /\ p.phase = "answering"
           /\ EscapeTaken(p).q = p.q
    BY <1>2 DEF EscapeTaken, Pages
  <1>7. \E f : /\ Becomes(t, f)
               /\ \/ f.phase = "summary" \/ Same(f)
                  \/ f.phase = "solved" /\ p.phase = "answering" /\ f.q = p.q
    <2> HIDE DEF p, Same
    <2> QED  BY <1>4, <1>5, <1>6
  <1> QED  BY <1>1, <1>3, <1>7, AskingStays DEF Reading

(* What the server does changes no page and takes back no answer.          *)
LEMMA ServedAsking ==
    ASSUME Inv, Asking, NEW r \in net, Served(r) \/ RequestFails(r)
    PROVE  Asking'
  <1>1. page' = page /\ asked' = asked
    BY DEF Served, ServeAttempt, ServeReview, ServePointer, TallyForClose,
           ServeClose, RequestFails
  <1>2. attempts \subseteq attempts'
    BY DEF Served, ServeAttempt, ServeReview, ServePointer, TallyForClose,
           ServeClose, RequestFails, Insert, storeVars
  <1>3. ASSUME NEW t \in Tabs  PROVE AskedBy(page[t], asked[t], attempts')
    BY <1>2, AskedGrows DEF Asking
  <1> QED  BY <1>1, <1>3 DEF Asking, AskedBy

LEMMA InitAsking == Init => Asking
  BY DEF Init, Asking, AskedBy, Mounted

LEMMA NextAsking == Inv /\ Answers /\ Asking /\ [Next]_vars => Asking'
  <1> SUFFICES ASSUME Inv, Answers, Asking, [Next]_vars PROVE Asking'  OBVIOUS
  <1>1. ASSUME NEW t \in Tabs, Learner(t) \/ PageRuns(t) \/ ReadFails(t)
        PROVE  Asking'
    <2>1. CASE Learner(t) \/ CompletionEffect(t)  BY <2>1, LearnerAsking
    <2>2. CASE GetActive(t) \/ GetNext(t) \/ CloseExhausted(t) \/ ReadFails(t)
      BY <2>2, ReadsAsking
    <2>3. CASE Show(t)  BY <2>3, ShowAsking
    <2> QED  BY <1>1, <2>1, <2>2, <2>3 DEF PageRuns
  <1>2. ASSUME NEW r \in net, Served(r) \/ RequestFails(r) \/ Heard(r)
        PROVE  Asking'
    BY <1>2, ServedAsking, HeardAsking
  <1>3. CASE UNCHANGED vars
    BY <1>3 DEF vars, storeVars, Asking, AskedBy
  <1> QED  BY <1>1, <1>2, <1>3 DEF Next

LEMMA AskingHolds == Spec => [](Inv /\ Answers /\ Asking)
  <1>1. Init => Inv /\ Answers /\ Asking  BY InitInv, InitAnswers, InitAsking
  <1>2. Inv /\ Answers /\ Asking /\ [Next]_vars => Inv' /\ Answers' /\ Asking'
    BY NextInv, NextAnswers, NextAsking
  <1> QED  BY <1>1, <1>2, PTL DEF Spec

(* The other steps of a page leave its phase, or take it elsewhere.        *)
LEMMA OthersDoNotAsk ==
    ASSUME Inv, NEW t \in Tabs,
           \/ Learner(t) \/ CompletionEffect(t) \/ ReadFails(t)
           \/ GetActive(t) \/ GetNext(t) \/ CloseExhausted(t)
           \/ \E r \in net : Heard(r),
           NEW s \in Tabs, page[s].phase # "answering"
    PROVE  page'[s].phase # "answering"
  <1>1. ASSUME NEW u \in Tabs, NEW p, Becomes(u, p),
               p.phase = "answering" => page[u].phase = "answering"
        PROVE  page'[s].phase # "answering"
    <2>1. page' = [page EXCEPT ![u] = p] /\ page \in [Tabs -> Pages]
      BY <1>1 DEF Becomes, Inv, TypeOK
    <2>2. CASE s = u  BY <1>1, <2>1, <2>2
    <2>3. CASE s # u  BY <2>1, <2>3
    <2> QED  BY <2>2, <2>3
  <1>2. page[t] \in Pages  BY PageTyped
  <1>3. CASE OnSubmit(t)
    <2>1. page[t].phase = "answering"  BY <1>3 DEF OnSubmit
    <2>2. PICK p : Becomes(t, p)  BY <1>3 DEF OnSubmit, PersistAnswer
    <2> QED  BY <1>1, <2>1, <2>2
  <1>4. CASE OnRetryPersist(t)
    <2>1. PICK pending : Becomes(t, [page[t] EXCEPT !.pending = pending, !.persist = "pending"])
      BY <1>4 DEF OnRetryPersist, PersistAnswer
    <2>2. [page[t] EXCEPT !.pending = pending, !.persist = "pending"].phase = page[t].phase
      BY <1>2 DEF Pages
    <2> QED  BY <1>1, <2>1, <2>2
  <1>5. CASE OnEscape(t)  BY <1>5 DEF OnEscape
  <1>6. CASE OnNext(t)
    <2>1. page[t].phase = "solved"  BY <1>6 DEF OnNext, Solved
    <2>2. Becomes(t, [page[t] EXCEPT !.phase = "loading", !.pending = NoPending,
                                     !.res = NoRes, !.active = NoLetter])
      BY <1>6 DEF OnNext
    <2>3. [page[t] EXCEPT !.phase = "loading", !.pending = NoPending,
                          !.res = NoRes, !.active = NoLetter].phase = "loading"
      BY <1>2 DEF Pages
    <2> QED  BY <1>1, <2>2, <2>3
  <1>7. CASE OnFinish(t) \/ CompletionEffect(t)
    <2>1. Becomes(t, [page[t] EXCEPT !.phase = "done", !.closing = TRUE])
      BY <1>7 DEF OnFinish, CompletionEffect, CloseAndRoute
    <2>2. [page[t] EXCEPT !.phase = "done", !.closing = TRUE].phase = "done"
      BY <1>2 DEF Pages
    <2> QED  BY <1>1, <2>1, <2>2
  <1>8. CASE OnEndSession(t)
    <2>1. Becomes(t, [page[t] EXCEPT !.phase = "done"])  BY <1>8 DEF OnEndSession
    <2>2. [page[t] EXCEPT !.phase = "done"].phase = "done"  BY <1>2 DEF Pages
    <2> QED  BY <1>1, <2>1, <2>2
  <1>9. CASE Reload(t)
    <2>1. Becomes(t, Mounted) /\ Mounted.phase = "resuming"  BY <1>9 DEF Reload, Mounted
    <2> QED  BY <1>1, <2>1
  <1>10. CASE GetActive(t) \/ GetNext(t) \/ CloseExhausted(t) \/ ReadFails(t)
    <2>1. PICK f : Becomes(t, f) /\ f.phase # "answering"
      BY <1>10, ReadingBecomes DEF Reading
    <2> QED  BY <1>1, <2>1
  <1>11. CASE \E r \in net : Heard(r)
    <2>1. PICK r \in net : Heard(r)  BY <1>11
    <2>2. r.tab \in Tabs
      BY <2>1, Heeds DEF Heard, AttemptHeard, ReviewHeard, PersistFailed, EscapeHeard,
                        EscapeFailed, CloseHeard, CloseFailed
    <2> DEFINE p == page[r.tab]
    <2>3. p \in Pages  BY <2>2, PageTyped
    <2>4. /\ Settled(p).phase = p.phase
          /\ [p EXCEPT !.persist = "error"].phase = p.phase
          /\ [p EXCEPT !.failed = TRUE].phase = p.phase
          /\ [p EXCEPT !.phase = "summary"].phase = "summary"
          /\ [p EXCEPT !.closing = FALSE, !.failed = TRUE].phase = p.phase
      BY <2>3 DEF Pages, Settled
    <2>5. EscapeTaken(p) = p \/ p.phase = "answering"  BY DEF EscapeTaken
    <2>6. \/ Becomes(r.tab, p) \/ Becomes(r.tab, Settled(p))
          \/ Becomes(r.tab, [p EXCEPT !.persist = "error"])
          \/ Becomes(r.tab, EscapeTaken(p)) \/ Becomes(r.tab, [p EXCEPT !.failed = TRUE])
          \/ Becomes(r.tab, [p EXCEPT !.phase = "summary"])
          \/ Becomes(r.tab, [p EXCEPT !.closing = FALSE, !.failed = TRUE])
      BY <2>1 DEF Heard, AttemptHeard, ReviewHeard, PersistFailed, EscapeHeard,
                  EscapeFailed, CloseHeard, CloseFailed
    <2> HIDE DEF p
    <2>7. PICK f : Becomes(r.tab, f) /\ (f.phase = "answering" => p.phase = "answering")
      BY <2>4, <2>5, <2>6
    <2> QED  BY <1>1, <2>2, <2>7 DEF p
  <1> QED  BY <1>3, <1>4, <1>5, <1>6, <1>7, <1>8, <1>9, <1>10, <1>11 DEF Learner

(* No page asks a question it has asked, or that was answered when it was  *)
(* mounted, although its reads and the writes of all pages, their retries, *)
(* failures and reloads are under way together.                            *)
THEOREM NeverAsksAgain == Spec => AsksTheUnanswered
  <1> DEFINE Ask == \A t \in Tabs :
                       page[t].phase # "answering" /\ page'[t].phase = "answering"
                         => page'[t].q \notin asked[t]
  <1>1. Inv /\ Answers /\ Asking /\ [Next]_vars => [Ask]_vars
    <2> SUFFICES ASSUME Inv, Asking, Next, NEW s \in Tabs,
                        page[s].phase # "answering", page'[s].phase = "answering"
                 PROVE  page'[s].q \notin asked[s]
      OBVIOUS
    <2>1. ASSUME NEW t \in Tabs, Show(t)
          PROVE  page'[s].q \notin asked[s]
      <3>1. CASE s = t  BY <2>1, <3>1, ShowAsking
      <3>2. CASE s # t
        <4>1. page'[s] = page[s]  BY <2>1, <3>2 DEF Show, Becomes, Inv, TypeOK
        <4> QED  BY <4>1
      <3> QED  BY <3>1, <3>2
    <2>2. CASE \/ \E t \in Tabs : \/ Learner(t) \/ CompletionEffect(t) \/ ReadFails(t)
                                  \/ GetActive(t) \/ GetNext(t) \/ CloseExhausted(t)
               \/ \E r \in net : Heard(r)
      BY <2>2, OthersDoNotAsk
    <2>3. CASE \E r \in net : Served(r) \/ RequestFails(r)
      <3>1. page' = page
        BY <2>3 DEF Served, ServeAttempt, ServeReview, ServePointer, TallyForClose,
                    ServeClose, RequestFails
      <3> QED  BY <3>1
    <2> QED  BY <2>1, <2>2, <2>3 DEF Next, PageRuns
  <1> HIDE DEF Ask
  <1>2. [][Ask]_vars => AsksTheUnanswered  BY PTL DEF Ask, AsksTheUnanswered
  <1> QED  BY <1>1, <1>2, AskingHolds, PTL DEF Spec
=============================================================================
