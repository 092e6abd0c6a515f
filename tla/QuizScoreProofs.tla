--------------------------- MODULE QuizScoreProofs ---------------------------
(***************************************************************************)
(* Theorems about the scores of one page of the practice quiz, for any     *)
(* questions, letters and failures.                                        *)
(*                                                                         *)
(* Rows are stamped when they are sent, and the newest row of a question   *)
(* counts.  A first try lasts if no later row of its question, stored or   *)
(* under way, takes it back.  What a page counts are first tries that      *)
(* last: it resumes with the server's count while none is overtaken, and   *)
(* later rows are of the question it shows.  The server counts them all.   *)
(* That holds up to the second load of the page.  The argument is Lasts.   *)
(*                                                                         *)
(* Before the first reload the page's history says more.  A first try is   *)
(* then all there is to its question, so none is overtaken; the questions  *)
(* that have a row are those the page resolved, and at most the one it     *)
(* shows; and a close tallies what the page shows.  This is Scored.        *)
(***************************************************************************)
EXTENDS QuizSessionProofs, WellFoundedInduction

(* Two pages may answer one question, and the later answer counts.         *)
OnePage == \E t : Tabs = {t}

AtItem(p) == p.phase \in {"answering", "solved"}
Unanswered(p) == p.phase = "answering" /\ p.active = NoLetter
First(p) == Solved(p) /\ p.res = "first_try"
Unfirst(p) == p.phase = "answering" \/ (Solved(p) /\ p.res # "first_try")
Offered(p) == p.phase = "offered"
Ended(p) == p.phase \in {"done", "summary", "halted"}

-----------------------------------------------------------------------------
(***************************************************************************)
(* Up to the second load.                                                  *)
(***************************************************************************)
FirstTries(rows) == {s.q : s \in {r \in rows : r.res = "first_try"}}

(* A first try that a later row of its question takes back.                *)
Overtaken(rows, q) ==
    \E s, r \in rows : /\ s.q = q /\ r.q = q /\ s.stamp < r.stamp
                        /\ s.res = "first_try" /\ r.res # "first_try"

(* The questions whose first try is stored, and stays.                     *)
Lasting(stored, rows) == {q \in FirstTries(stored) : ~Overtaken(rows, q)}

(* Only a question that the page answered, and not at the first try, is    *)
(* overtaken; it is not on offer.                                          *)
Spoilt(p, stored, rows) ==
    \A s \in rows : Overtaken(rows, s.q) =>
        /\ p.phase # "resuming"
        /\ s.q \in Attempted(stored) \/ (AtItem(p) /\ s.q = p.q)
        /\ AtItem(p) /\ s.q = p.q => ~First(p) /\ ~Unanswered(p)
        /\ Offered(p) => s.q # p.q

(* The page counts first tries that stay, and the one it shows.  What it   *)
(* has on offer is not among them, whoever answers it.                     *)
Credited(p, lasting) ==
    p.score.correct <=
        IF AtItem(p) \/ Offered(p)
        THEN Cardinality(lasting \ {p.q}) + (IF First(p) THEN 1 ELSE 0)
        ELSE Cardinality(lasting)

(* A close of the page's own is under way only when it stopped.            *)
OwnClose(t, p, requests) == \A r \in requests : r.kind = "close" /\ r.tab = t => Ended(p)

(* created_at tells any two rows apart.                                    *)
Stamped(rows, now) ==
    /\ \A s \in rows : s.stamp <= now
    /\ \A s, r \in rows : s.stamp = r.stamp => s = r

Lasts ==
    /\ Stamped(Carried, clock)
    /\ \A t \in Tabs : /\ ~AtItem(page[t]) => Idle(page[t])
                       /\ OwnClose(t, page[t], net)
                       /\ Spoilt(page[t], attempts, Carried)
                       /\ Credited(page[t], Lasting(attempts, Carried))

-----------------------------------------------------------------------------
(***************************************************************************)
(* Before the first reload.                                                *)
(***************************************************************************)
(* A question that has a first try has no other answers.                   *)
FirstIsAll(rows) ==
    \A s, r \in rows : s.res = "first_try" /\ r.q = s.q => r.res = "first_try"

(* What the page's past says of the rows, of which some are stored.        *)
Past(p, stored, rows) ==
    /\ p.phase \in {"resuming", "advancing"} => rows = {}
    /\ ~AtItem(p) => Idle(p)
    /\ \A s \in rows : s.q \in Attempted(stored) \/ (AtItem(p) /\ s.q = p.q)
    /\ Offered(p) \/ Unanswered(p) => \A s \in rows : s.q # p.q
    /\ Unfirst(p) => \A s \in rows : s.q = p.q => s.res # "first_try"
    /\ Unfirst(p) /\ p.pending # NoPending
         => ResolutionOf(p.pending.letter, p.pending.prior) # "first_try"
    /\ Solved(p) /\ p.res = "first_try" /\ p.pending # NoPending
         => \A s \in rows : s.q = p.q => s.key = p.pending.key

(* seen are the questions that have a stored row.                          *)
Within(p, seen) ==
    /\ AtItem(p)
         => Cardinality(seen \ {p.q}) + (IF Solved(p) THEN 1 ELSE 0) <= p.score.total
    /\ Solved(p) => p.score.total <= Target
    /\ p.phase \in {"answering", "advancing", "loading", "offered"}
         => p.score.total < Target
    /\ p.phase \in {"loading", "offered"} => Cardinality(seen) <= p.score.total
    /\ Cardinality(seen) <= Target

(* A close is under way or done only when the page has stopped answering,  *)
(* and it tallies what the page shows.                                     *)
Closing(p, row, requests) ==
    /\ ~Ended(p) => row.open /\ \A r \in requests : r.kind # "close"
    /\ ~row.open => p.score.correct <= row.score.correct
    /\ \A r \in requests : r.kind = "close" /\ r.st \in {"tallied", "ok"}
         => p.score.correct <= r.body.correct
    /\ p.phase = "summary" \/ (\E r \in requests : r.kind = "close" /\ r.st = "ok")
         => ~row.open

Scored ==
    /\ FirstIsAll(Carried)
    /\ \A t \in Tabs : /\ Past(page[t], attempts, Carried)
                       /\ Within(page[t], Attempted(attempts))
                       /\ Closing(page[t], session, net)

-----------------------------------------------------------------------------
(***************************************************************************)
(* Counting.                                                               *)
(***************************************************************************)
LEMMA SeenFinite ==
    ASSUME NEW rows, IsFiniteSet(rows)
    PROVE  IsFiniteSet(Attempted(rows)) /\ IsFiniteSet(FirstTries(rows))
  <1>1. IsFiniteSet(Attempted(rows))
    <2> DEFINE f == [r \in rows |-> r.q]
    <2>1. f \in Surjection(rows, Attempted(rows))
      BY DEF Attempted, Surjection
    <2> HIDE DEF f
    <2> QED  BY <2>1, FS_Surjection
  <1>2. FirstTries(rows) \subseteq Attempted(rows)  BY DEF FirstTries, Attempted
  <1> QED  BY <1>1, <1>2, FS_Subset

(* The server counts no more questions than have a row.                    *)
LEMMA TotalIsSeen ==
    ASSUME NEW rows, IsFiniteSet(rows)
    PROVE  CommitFirstTally(rows).total <= Cardinality(Attempted(rows))
  <1>1. CountedAs(rows, Resolutions) \subseteq Attempted(rows)  BY DEF CountedAs
  <1>2. Cardinality(CountedAs(rows, Resolutions)) <= Cardinality(Attempted(rows))
    BY <1>1, SeenFinite, FS_Subset
  <1> QED  BY <1>2 DEF CommitFirstTally

(* The newest row of a question, where rows have a time.                   *)
LEMMA NewestExists ==
    ASSUME NEW rows \in SUBSET Rows, NEW now \in Nat, Stamped(rows, now),
           NEW q \in Attempted(rows)
    PROVE  /\ Newest(rows, q) \in RowsOf(rows, q)
           /\ \A s \in RowsOf(rows, q) : s.stamp <= Newest(rows, q).stamp
  <1> DEFINE ages == {now - s.stamp : s \in RowsOf(rows, q)}
  <1>1. \A s \in RowsOf(rows, q) : s.stamp \in Nat /\ s.stamp <= now
    BY DEF RowsOf, Rows, Stamped
  <1>2. ages \in SUBSET Nat /\ ages # {}
    BY <1>1 DEF Attempted, RowsOf
  <1> HIDE DEF ages
  <1>3. PICK least \in ages : \A n \in ages : ~(<<n, least>> \in OpToRel(<, Nat))
    BY <1>2, NatLessThanWellFounded, WFMin
  <1>4. PICK r \in RowsOf(rows, q) : least = now - r.stamp  BY DEF ages
  <1>5. ASSUME NEW s \in RowsOf(rows, q)  PROVE s.stamp <= r.stamp
    <2>1. now - s.stamp \in ages  BY DEF ages
    <2>2. ~(<<now - s.stamp, least>> \in OpToRel(<, Nat))  BY <1>3, <2>1
    <2>3. now - s.stamp \in Nat /\ least \in Nat  BY <1>2, <2>1
    <2>4. ~(now - s.stamp < least)  BY <2>2, <2>3 DEF OpToRel
    <2> QED  BY <1>1, <1>4, <2>4
  <1> QED  BY <1>5 DEF Newest

(* The server counts the first tries that stay.                            *)
LEMMA LastingCount ==
    ASSUME NEW rows \in SUBSET Rows, IsFiniteSet(rows), NEW now \in Nat,
           Stamped(rows, now), NEW more, rows \subseteq more
    PROVE  Cardinality(Lasting(rows, more)) <= CommitFirstTally(rows).correct
  <1>1. ASSUME NEW q \in Lasting(rows, more)
        PROVE  q \in CountedAs(rows, {"first_try"})
    <2>1. PICK s \in rows : s.q = q /\ s.res = "first_try"
      BY DEF Lasting, FirstTries
    <2>2. q \in Attempted(rows) /\ s \in RowsOf(rows, q)
      BY <2>1 DEF Attempted, RowsOf
    <2> DEFINE newest == Newest(rows, q)
    <2>3. newest \in RowsOf(rows, q) /\ s.stamp <= newest.stamp
      BY <2>2, NewestExists
    <2> HIDE DEF newest
    <2>4. newest \in rows /\ newest.q = q  BY <2>3 DEF RowsOf
    <2>5. s.stamp \in Nat /\ newest.stamp \in Nat  BY <2>4 DEF Rows
    <2>6. newest.res = "first_try"
      <3>1. CASE s.stamp = newest.stamp  BY <2>1, <2>4, <3>1 DEF Stamped
      <3>2. CASE s.stamp < newest.stamp
        <4>1. ~Overtaken(more, q)  BY DEF Lasting
        <4> QED  BY <2>1, <2>4, <3>2, <4>1 DEF Overtaken
      <3> QED  BY <2>3, <2>5, <3>1, <3>2
    <2> QED  BY <2>2, <2>6 DEF CountedAs, newest
  <1>2. CountedAs(rows, {"first_try"}) \subseteq Attempted(rows)  BY DEF CountedAs
  <1>3. IsFiniteSet(CountedAs(rows, {"first_try"}))
    BY <1>2, SeenFinite, FS_Subset
  <1>4. Cardinality(Lasting(rows, more)) <= Cardinality(CountedAs(rows, {"first_try"}))
    BY <1>1, <1>3, FS_Subset
  <1> QED  BY <1>4 DEF CommitFirstTally

(* While none is overtaken, they are all it counts.                        *)
LEMMA CountIsLasting ==
    ASSUME NEW rows \in SUBSET Rows, IsFiniteSet(rows), NEW now \in Nat,
           Stamped(rows, now), NEW more, rows \subseteq more,
           \A s \in more : ~Overtaken(more, s.q)
    PROVE  CommitFirstTally(rows).correct <= Cardinality(Lasting(rows, more))
  <1>1. ASSUME NEW q \in CountedAs(rows, {"first_try"})
        PROVE  q \in Lasting(rows, more)
    <2>1. q \in Attempted(rows) /\ Newest(rows, q).res = "first_try"
      BY DEF CountedAs
    <2>2. PICK s \in rows : s.q = q /\ s.res = "first_try"
      BY <2>1, NewestExists DEF RowsOf
    <2> QED  BY <2>2 DEF Lasting, FirstTries
  <1>2. IsFiniteSet(Lasting(rows, more))
    <2>1. Lasting(rows, more) \subseteq FirstTries(rows)  BY DEF Lasting
    <2> QED  BY <2>1, SeenFinite, FS_Subset
  <1>3. Cardinality(CountedAs(rows, {"first_try"})) <= Cardinality(Lasting(rows, more))
    BY <1>1, <1>2, FS_Subset
  <1> QED  BY <1>3 DEF CommitFirstTally

LEMMA LastingGrows ==
    ASSUME NEW stored, NEW stored1, NEW rows, NEW rows1,
           stored \subseteq stored1, rows1 \subseteq rows, IsFiniteSet(stored1)
    PROVE  /\ Lasting(stored, rows) \subseteq Lasting(stored1, rows1)
           /\ IsFiniteSet(Lasting(stored1, rows1))
  <1>1. Lasting(stored1, rows1) \subseteq FirstTries(stored1)  BY DEF Lasting
  <1>2. Lasting(stored, rows) \subseteq Lasting(stored1, rows1)
    BY DEF Lasting, FirstTries, Overtaken
  <1> QED  BY <1>1, <1>2, SeenFinite, FS_Subset

(* One element more or less.                                               *)
LEMMA OneMore ==
    ASSUME NEW S, NEW q, IsFiniteSet(S)
    PROVE  /\ IsFiniteSet(S \ {q})
           /\ Cardinality(S) \in Nat /\ Cardinality(S \ {q}) \in Nat
           /\ Cardinality(S \ {q}) <= Cardinality(S)
           /\ Cardinality(S) <= Cardinality(S \ {q}) + 1
  BY FS_RemoveElement, FS_CardinalityType

LEMMA AsideCarries ==
    ASSUME attempts' = attempts,
           \A r \in net' : r \in net \/ r.kind \notin {"attempt", "escape"}
    PROVE  Carried' \subseteq Carried
  BY DEF Carried

(* What the invariants say of a page and of the rows.                      *)
LEMMA ScoreTyped ==
    ASSUME Inv, NEW t \in Tabs
    PROVE  /\ page[t] \in Pages
           /\ page[t].score \in Scores
           /\ page[t].score.correct \in Nat /\ page[t].score.total \in Nat
           /\ IsFiniteSet(Attempted(attempts)) /\ Cardinality(Attempted(attempts)) \in Nat
           /\ Target \in Nat
  <1>1. page[t] \in Pages  BY PageTyped
  <1>2. page[t].score \in Scores  BY <1>1 DEF Pages
  <1>3. IsFiniteSet(attempts)  BY DEF Inv
  <1>4. Target \in Nat  BY QuizAssumption
  <1> QED  BY <1>1, <1>2, <1>3, <1>4, SeenFinite, FS_CardinalityType DEF Scores


-----------------------------------------------------------------------------
(***************************************************************************)
(* The first tries that stay, up to the second load of the page.           *)
(***************************************************************************)
LEMMA PageLasts ==
    ASSUME OnePage, Inv, NEW t \in Tabs, NEW f, Becomes(t, f), attempts' = attempts,
           Stamped(Carried', clock'), ~AtItem(f) => Idle(f), OwnClose(t, f, net'),
           Spoilt(f, attempts, Carried'), Credited(f, Lasting(attempts, Carried'))
    PROVE  Lasts'
  <1>1. \A u \in Tabs : u = t /\ page'[u] = f
    <2>1. page' = [page EXCEPT ![t] = f] /\ page \in [Tabs -> Pages]
      BY DEF Becomes, Inv, TypeOK
    <2> QED  BY <2>1 DEF OnePage
  <1>2. Stamped(Carried, clock)'  BY DEF Stamped
  <1>3. ASSUME NEW u \in Tabs  PROVE (~AtItem(page[u]) => Idle(page[u]))'
    BY <1>1 DEF AtItem, Idle
  <1>4. ASSUME NEW u \in Tabs  PROVE OwnClose(u, page[u], net)'
    <2>1. OwnClose(u, page'[u], net')  BY <1>1
    <2> QED  BY <2>1 DEF OwnClose, Ended
  <1>5. ASSUME NEW u \in Tabs  PROVE Spoilt(page[u], attempts, Carried)'
    <2>1. Spoilt(page'[u], attempts', Carried')  BY <1>1
    <2> QED  BY <2>1 DEF Spoilt
  <1>6. ASSUME NEW u \in Tabs  PROVE Credited(page[u], Lasting(attempts, Carried))'
    <2>1. Credited(page'[u], Lasting(attempts', Carried'))  BY <1>1
    <2> QED  BY <2>1 DEF Credited, Lasting, FirstTries
  <1> QED  BY <1>2, <1>3, <1>4, <1>5, <1>6 DEF Lasts

LEMMA LastsTyped ==
    ASSUME Inv, Lasts, NEW t \in Tabs
    PROVE  /\ page[t] \in Pages /\ page[t].score.correct \in Nat
           /\ IsFiniteSet(Lasting(attempts, Carried))
           /\ Cardinality(Lasting(attempts, Carried)) \in Nat
           /\ clock \in Nat /\ \A s \in Carried : s.stamp \in Nat
  <1>1. IsFiniteSet(attempts)  BY DEF Inv
  <1>2. IsFiniteSet(Lasting(attempts, Carried))  BY <1>1, LastingGrows
  <1>3. \A s \in Carried : s.stamp \in Nat  BY CarriedTyped DEF Rows
  <1>4. clock \in Nat  BY DEF Inv, TypeOK
  <1> QED  BY <1>2, <1>3, <1>4, ScoreTyped, FS_CardinalityType

LEMMA StampedShrinks ==
    ASSUME Lasts, Carried' \subseteq Carried, clock' = clock
    PROVE  Stamped(Carried', clock')
  BY DEF Lasts, Stamped

(* A step that leaves the item, the answers and the score as they are.     *)
LEMMA StaysLasts ==
    ASSUME OnePage, Inv, Lasts, NEW t \in Tabs, NEW f, Becomes(t, f),
           UNCHANGED <<attempts, clock>>, Carried' \subseteq Carried,
           \A r \in net' : r.kind = "close" => r \in net,
           f.phase = page[t].phase, f.q = page[t].q, f.active = page[t].active,
           f.res = page[t].res, f.score = page[t].score,
           ~AtItem(page[t]) => Idle(f)
    PROVE  Lasts'
  <1> DEFINE p == page[t]
             lasting == Lasting(attempts, Carried)
             lasting1 == Lasting(attempts, Carried')
  <1>1. /\ OwnClose(t, p, net) /\ Spoilt(p, attempts, Carried) /\ Credited(p, lasting)
    BY DEF Lasts
  <1>2. (AtItem(f) <=> AtItem(p)) /\ (First(f) <=> First(p))
        /\ (Unanswered(f) <=> Unanswered(p)) /\ (Ended(p) => Ended(f))
    BY DEF AtItem, First, Solved, Unanswered, Ended
  <1>3. Spoilt(f, attempts, Carried')
    <2>1. \A q : Overtaken(Carried', q) => Overtaken(Carried, q)  BY DEF Overtaken
    <2> QED  BY <1>1, <1>2, <2>1 DEF Spoilt, Offered
  <1>4. /\ lasting \subseteq lasting1 /\ IsFiniteSet(lasting1)
        /\ IsFiniteSet(lasting1 \ {p.q})
    BY LastingGrows, OneMore DEF Inv
  <1>5. /\ Cardinality(lasting) <= Cardinality(lasting1)
        /\ Cardinality(lasting \ {p.q}) <= Cardinality(lasting1 \ {p.q})
    BY <1>4, FS_Subset
  <1>6. /\ p.score.correct \in Nat /\ Cardinality(lasting) \in Nat
        /\ Cardinality(lasting \ {p.q}) \in Nat /\ Cardinality(lasting1) \in Nat
        /\ Cardinality(lasting1 \ {p.q}) \in Nat
    BY <1>4, LastsTyped, OneMore, FS_CardinalityType
  <1> HIDE DEF p, lasting, lasting1
  <1>7. Credited(f, lasting1)  BY <1>1, <1>2, <1>5, <1>6 DEF Credited, p, Offered
  <1>8. OwnClose(t, f, net')  BY <1>1, <1>2 DEF OwnClose
  <1>9. ~AtItem(f) => Idle(f)  BY <1>2 DEF p
  <1> QED  BY <1>3, <1>7, <1>8, <1>9, StampedShrinks, PageLasts DEF lasting1

(* A step to a page that shows no item.                                    *)
LEMMA RestsLasts ==
    ASSUME OnePage, Inv, Lasts, NEW t \in Tabs, NEW f, Becomes(t, f),
           UNCHANGED <<attempts, clock>>, Carried' \subseteq Carried,
           ~AtItem(f), Idle(f), f.phase # "resuming", ~Offered(f),
           \A s \in Carried : Overtaken(Carried, s.q) => s.q \in Attempted(attempts),
           f.score.correct \in Nat,
           f.score.correct <= Cardinality(Lasting(attempts, Carried)),
           OwnClose(t, f, net')
    PROVE  Lasts'
  <1> DEFINE lasting == Lasting(attempts, Carried)
             lasting1 == Lasting(attempts, Carried')
  <1>1. Spoilt(f, attempts, Carried')
    <2>1. \A q : Overtaken(Carried', q) => Overtaken(Carried, q)  BY DEF Overtaken
    <2> QED  BY <2>1 DEF Spoilt
  <1>2. lasting \subseteq lasting1 /\ IsFiniteSet(lasting1)
    BY LastingGrows DEF Inv
  <1>3. /\ Cardinality(lasting) <= Cardinality(lasting1)
        /\ Cardinality(lasting) \in Nat /\ Cardinality(lasting1) \in Nat
    BY <1>2, FS_Subset, LastsTyped, FS_CardinalityType
  <1>4. Credited(f, lasting1)  BY <1>3 DEF Credited
  <1> QED  BY <1>1, <1>4, StampedShrinks, PageLasts

(* A page that owes nothing leaves its item.                               *)
LEMMA LeavesLasts ==
    ASSUME Inv, Answers, Lasts, NEW t \in Tabs, Idle(page[t])
    PROVE  /\ \A s \in Carried : Overtaken(Carried, s.q) => s.q \in Attempted(attempts)
           /\ page[t].score.correct <= Cardinality(Lasting(attempts, Carried))
  <1> DEFINE p == page[t]
             lasting == Lasting(attempts, Carried)
  <1>1. /\ Spoilt(p, attempts, Carried) /\ Credited(p, lasting) /\ Kept(p, attempts)
    BY DEF Lasts, Answers
  <1>2. /\ p.score.correct \in Nat /\ Cardinality(lasting) \in Nat
        /\ IsFiniteSet(lasting) /\ Cardinality(lasting \ {p.q}) \in Nat
        /\ Cardinality(lasting \ {p.q}) <= Cardinality(lasting)
    BY LastsTyped, OneMore
  <1>3. ASSUME NEW s \in Carried, Overtaken(Carried, s.q)  PROVE s.q \in Attempted(attempts)
    <2>1. CASE AtItem(p) /\ s.q = p.q
      <3>1. ~Unanswered(p)  BY <1>1, <1>3, <2>1 DEF Spoilt
      <3>2. \E x \in attempts : x.q = p.q
        BY <1>1, <2>1, <3>1 DEF Kept, AtItem, Unanswered, Solved
      <3> QED  BY <2>1, <3>2 DEF Attempted
    <2>2. CASE ~(AtItem(p) /\ s.q = p.q)  BY <1>1, <1>3, <2>2 DEF Spoilt
    <2> QED  BY <2>1, <2>2
  <1>4. ASSUME AtItem(p), First(p)  PROVE p.q \in lasting
    <2>1. PICK s \in attempts : s.q = p.q /\ s.res = "first_try"
      BY <1>1, <1>4 DEF Kept, First
    <2>2. s \in Carried  BY DEF Carried
    <2>3. ~Overtaken(Carried, s.q)  BY <1>1, <1>4, <2>1, <2>2 DEF Spoilt
    <2> QED  BY <2>1, <2>3 DEF Lasting, FirstTries
  <1> HIDE DEF p, lasting
  <1>5. p.score.correct <= Cardinality(lasting)
    <2>1. CASE AtItem(p) /\ First(p)
      <3>1. Cardinality(lasting \ {p.q}) = Cardinality(lasting) - 1
        BY <1>2, <1>4, <2>1, FS_RemoveElement
      <3> QED  BY <1>1, <1>2, <2>1, <3>1 DEF Credited
    <2>2. CASE ~(AtItem(p) /\ First(p))
      BY <1>1, <1>2, <2>2 DEF Credited, Offered, AtItem, First, Solved
    <2> QED  BY <2>1, <2>2
  <1> QED  BY <1>3, <1>5 DEF p, lasting

(* A row of the page's question is sent, the newest of all.                *)
LEMMA SendLasts ==
    ASSUME OnePage, Inv, Lasts, NEW t \in Tabs, NEW f, Becomes(t, f),
           attempts' = attempts, clock' = clock + 1, AtItem(page[t]), AtItem(f),
           f.q = page[t].q, ~Unanswered(f),
           NEW row, Carried' \subseteq Carried \cup {row},
           row.q = f.q, row.stamp = clock + 1,
           \A r \in net' : r.kind = "close" => r \in net,
           First(f) => row.res = "first_try" /\ (First(page[t]) \/ Unanswered(page[t])),
           f.score.correct + (IF First(page[t]) THEN 1 ELSE 0)
             = page[t].score.correct + (IF First(f) THEN 1 ELSE 0),
           f.score.correct \in Nat
    PROVE  Lasts'
  <1> DEFINE p == page[t]
             lasting == Lasting(attempts, Carried)
             lasting1 == Lasting(attempts, Carried')
  <1>1. /\ OwnClose(t, p, net) /\ Spoilt(p, attempts, Carried) /\ Credited(p, lasting)
        /\ Stamped(Carried, clock)
    BY DEF Lasts
  <1>2. clock \in Nat /\ \A s \in Carried : s.stamp \in Nat /\ s.stamp <= clock
    BY <1>1, LastsTyped DEF Stamped
  <1>3. Stamped(Carried', clock')
    <2>1. ASSUME NEW s \in Carried'  PROVE s.stamp <= clock'
      <3>1. CASE s = row  BY <1>2, <3>1
      <3>2. CASE s \in Carried  BY <1>2, <3>2
      <3> QED  BY <3>1, <3>2
    <2>2. ASSUME NEW s \in Carried', NEW r \in Carried', s.stamp = r.stamp  PROVE s = r
      <3>1. CASE s = row /\ r = row  BY <3>1
      <3>2. CASE s \in Carried /\ r \in Carried  BY <1>1, <2>2, <3>2 DEF Stamped
      <3>3. CASE s \in Carried /\ r = row  BY <1>2, <2>2, <3>3
      <3>4. CASE s = row /\ r \in Carried  BY <1>2, <2>2, <3>4
      <3> QED  BY <3>1, <3>2, <3>3, <3>4
    <2> QED  BY <2>1, <2>2 DEF Stamped
  <1>4. ASSUME NEW q, q # f.q, Overtaken(Carried', q)  PROVE Overtaken(Carried, q)
    BY <1>4 DEF Overtaken
  <1>5. ASSUME First(f)  PROVE ~Overtaken(Carried', f.q)
    <2> SUFFICES ASSUME NEW s \in Carried', NEW r \in Carried', s.q = f.q, r.q = f.q,
                        s.stamp < r.stamp, s.res = "first_try", r.res # "first_try"
                 PROVE  FALSE
      BY DEF Overtaken
    <2>1. r \in Carried /\ r # row  BY <1>5
    <2>2. s \in Carried
      <3>1. r.stamp <= clock /\ r.stamp \in Nat  BY <1>2, <2>1
      <3>2. s # row  BY <1>2, <3>1
      <3> QED  BY <3>2
    <2>3. Overtaken(Carried, s.q)  BY <2>1, <2>2 DEF Overtaken
    <2> QED  BY <1>1, <1>5, <2>2, <2>3 DEF Spoilt
  <1>6. Spoilt(f, attempts, Carried')
    <2> SUFFICES ASSUME NEW s \in Carried', Overtaken(Carried', s.q)
                 PROVE  /\ s.q \in Attempted(attempts) \/ s.q = f.q
                        /\ s.q = f.q => ~First(f)
      BY DEF Spoilt, AtItem, Offered
    <2>1. CASE s.q = f.q  BY <1>5, <2>1
    <2>2. CASE s.q # f.q
      <3>1. s \in Carried /\ Overtaken(Carried, s.q)  BY <1>4, <2>2
      <3> QED  BY <1>1, <2>2, <3>1 DEF Spoilt
    <2> QED  BY <2>1, <2>2
  <1>7. lasting \ {p.q} \subseteq lasting1 \ {p.q}  BY <1>4 DEF Lasting
  <1>8. IsFiniteSet(lasting1)
    <2>1. lasting1 \subseteq FirstTries(attempts)  BY DEF Lasting
    <2> QED  BY <2>1, SeenFinite, FS_Subset DEF Inv
  <1>9. /\ Cardinality(lasting \ {p.q}) <= Cardinality(lasting1 \ {p.q})
        /\ Cardinality(lasting \ {p.q}) \in Nat /\ Cardinality(lasting1 \ {p.q}) \in Nat
        /\ p.score.correct \in Nat
    BY <1>7, <1>8, FS_Subset, OneMore, LastsTyped, FS_CardinalityType
  <1>10. Credited(f, lasting1)
    <2> HIDE DEF lasting, lasting1
    <2>1. p.score.correct <= Cardinality(lasting \ {p.q}) + (IF First(p) THEN 1 ELSE 0)
      BY <1>1 DEF Credited
    <2>2. f.score.correct <= Cardinality(lasting1 \ {f.q}) + (IF First(f) THEN 1 ELSE 0)
      BY <1>9, <2>1
    <2> QED  BY <2>2 DEF Credited
  <1>11. OwnClose(t, f, net')
    <2>1. ~Ended(p)  BY DEF AtItem, Ended
    <2> QED  BY <1>1, <2>1 DEF OwnClose
  <1> QED  BY <1>3, <1>6, <1>10, <1>11, PageLasts

-----------------------------------------------------------------------------
(* What a page that shows no item counts, stays.                           *)
LEMMA RestCounts ==
    ASSUME Inv, Lasts, NEW t \in Tabs, ~AtItem(page[t])
    PROVE  /\ page[t].score.correct \in Nat
           /\ page[t].score.correct <= Cardinality(Lasting(attempts, Carried))
           /\ Idle(page[t])
           /\ \A s \in Carried : Overtaken(Carried, s.q) => s.q \in Attempted(attempts)
  <1>1. page[t].score.correct \in Nat  BY LastsTyped
  <1>2. /\ Credited(page[t], Lasting(attempts, Carried)) /\ Idle(page[t])
        /\ Spoilt(page[t], attempts, Carried)
    BY DEF Lasts
  <1>3. /\ Cardinality(Lasting(attempts, Carried)) \in Nat
        /\ Cardinality(Lasting(attempts, Carried) \ {page[t].q}) \in Nat
        /\ Cardinality(Lasting(attempts, Carried) \ {page[t].q})
             <= Cardinality(Lasting(attempts, Carried))
    BY LastsTyped, OneMore
  <1>4. ~First(page[t])  BY DEF First, Solved, AtItem
  <1> QED  BY <1>1, <1>2, <1>3, <1>4 DEF Credited, Spoilt

LEMMA CloseAside ==
    ASSUME NEW t, net' \subseteq net \cup {CloseBy(t)}, attempts' = attempts
    PROVE  Carried' \subseteq Carried
  BY AsideCarries DEF CloseBy, Request

LEMMA NoOwnClose ==
    ASSUME Lasts, NEW t \in Tabs, ~Ended(page[t]), NEW f
    PROVE  OwnClose(t, f, net)
  BY DEF Lasts, OwnClose

(* What a read makes of the page.                                          *)
ReadTo(t, f) ==
    LET p == page[t]
        score == CommitFirstTally(attempts)
    IN  /\ f.persist = p.persist
        /\ \/ /\ f.phase = "halted" /\ f.score = p.score
              /\ net' \subseteq net \cup {CloseBy(t)}
           \/ /\ f.phase \in {"fresh", "exhausted"} /\ net' = net
              /\ f.score \in {p.score, ZeroScore}
           \/ /\ f.phase = "advancing" /\ net' = net
              /\ p.phase = "resuming" /\ f.score = score
           \/ /\ Offered(f) /\ net' = net
              /\ f.q \notin Attempted(attempts)
              /\ \/ p.phase = "resuming" /\ f.score = score
                 \/ p.phase \in {"advancing", "loading"} /\ f.score = p.score

LEMMA Reads ==
    ASSUME Inv, NEW t \in Tabs,
           GetActive(t) \/ GetNext(t) \/ CloseExhausted(t) \/ ReadFails(t)
    PROVE  /\ page[t].phase \in Reading /\ UNCHANGED <<storeVars, clock>>
           /\ \E f : Becomes(t, f) /\ ReadTo(t, f)
  <1> DEFINE p == page[t]
             score == CommitFirstTally(attempts)
             shown == IF p.phase = "advancing" THEN ZeroScore ELSE p.score
  <1>1. p \in Pages  BY PageTyped
  <1>2. p.phase \in Reading /\ UNCHANGED <<storeVars, clock>>
    BY DEF GetActive, GetNext, CloseExhausted, ReadFails, Reading
  <1>3. CASE GetActive(t)
    <2>1. /\ p.phase = "resuming" /\ net' = net
          /\ \/ Becomes(t, [p EXCEPT !.phase = "fresh"])
             \/ Becomes(t, [p EXCEPT !.phase = "exhausted"])
             \/ Becomes(t, [p EXCEPT !.phase = "advancing", !.score = score])
             \/ /\ session.pointer \notin Attempted(attempts)
                /\ Becomes(t, [p EXCEPT !.phase = "offered", !.q = session.pointer,
                                        !.score = score])
      BY <1>3 DEF GetActive, PointerAttempted
    <2>2. ReadTo(t, [p EXCEPT !.phase = "fresh"])
      BY <1>1, <2>1 DEF Pages, ReadTo
    <2>3. ReadTo(t, [p EXCEPT !.phase = "exhausted"])
      BY <1>1, <2>1 DEF Pages, ReadTo
    <2>4. ReadTo(t, [p EXCEPT !.phase = "advancing", !.score = score])
      BY <1>1, <2>1 DEF Pages, ReadTo
    <2>5. session.pointer \notin Attempted(attempts)
            => ReadTo(t, [p EXCEPT !.phase = "offered", !.q = session.pointer,
                                   !.score = score])
      BY <1>1, <2>1 DEF Pages, ReadTo, Offered
    <2> HIDE DEF p, score
    <2> QED  BY <1>2, <2>1, <2>2, <2>3, <2>4, <2>5 DEF p
  <1>4. CASE GetNext(t)
    <2>1. /\ p.phase \in {"advancing", "loading"} /\ net' = net
          /\ \/ \E q \in Servable : Becomes(t, [p EXCEPT !.phase = "offered", !.q = q])
             \/ Becomes(t, [p EXCEPT !.score = shown, !.phase = "exhausted"])
      BY <1>4 DEF GetNext
    <2>2. ASSUME NEW q \in Servable
          PROVE  ReadTo(t, [p EXCEPT !.phase = "offered", !.q = q])
      BY <1>1, <2>1 DEF Pages, ReadTo, Offered, Servable
    <2>3. ReadTo(t, [p EXCEPT !.score = shown, !.phase = "exhausted"])
      BY <1>1, <2>1 DEF Pages, ReadTo
    <2> HIDE DEF p, shown
    <2> QED  BY <1>2, <2>1, <2>2, <2>3 DEF p
  <1>5. CASE CloseExhausted(t)
    <2>1. /\ Becomes(t, [p EXCEPT !.phase = "halted", !.closing = TRUE])
          /\ net' = net \cup {CloseBy(t)}
      BY <1>5 DEF CloseExhausted
    <2>2. ReadTo(t, [p EXCEPT !.phase = "halted", !.closing = TRUE])
      BY <1>1, <2>1 DEF Pages, ReadTo
    <2> QED  BY <1>2, <2>1, <2>2
  <1>6. CASE ReadFails(t)
    <2>1. /\ Becomes(t, [p EXCEPT !.phase = "halted", !.failed = TRUE])
          /\ net' = net
      BY <1>6 DEF ReadFails
    <2>2. ReadTo(t, [p EXCEPT !.phase = "halted", !.failed = TRUE])
      BY <1>1, <2>1 DEF Pages, ReadTo
    <2> QED  BY <1>2, <2>1, <2>2
  <1> QED  BY <1>3, <1>4, <1>5, <1>6

(* A page resumes with what the server counts, and all of that stays.      *)
LEMMA ResumesLasting ==
    ASSUME Inv, Lasts, NEW t \in Tabs, page[t].phase = "resuming"
    PROVE  /\ CommitFirstTally(attempts).correct \in Nat
           /\ CommitFirstTally(attempts).correct <= Cardinality(Lasting(attempts, Carried))
  <1>1. \A s \in Carried : ~Overtaken(Carried, s.q)
    BY DEF Lasts, Spoilt
  <1>2. /\ attempts \in SUBSET Rows /\ IsFiniteSet(attempts) /\ clock \in Nat
        /\ attempts \subseteq Carried /\ Stamped(attempts, clock)
    BY DEF Inv, TypeOK, StoreTypeOK, Carried, Lasts, Stamped
  <1>3. CommitFirstTally(attempts).correct \in Nat  BY TallyTyped DEF Inv, Scores
  <1> QED  BY <1>1, <1>2, <1>3, CountIsLasting

LEMMA ReadsLasts ==
    ASSUME OnePage, Inv, Lasts, NEW t \in Tabs,
           GetActive(t) \/ GetNext(t) \/ CloseExhausted(t) \/ ReadFails(t)
    PROVE  Lasts'
  <1> DEFINE p == page[t]
             lasting == Lasting(attempts, Carried)
             lasting1 == Lasting(attempts, Carried')
  <1>1. p.phase \in Reading /\ UNCHANGED <<attempts, clock>>
    BY Reads DEF storeVars
  <1>2. PICK f : Becomes(t, f) /\ ReadTo(t, f)  BY Reads
  <1>3. ~AtItem(p) /\ ~Ended(p)  BY <1>1 DEF AtItem, Ended, Reading
  <1>4. /\ p.score.correct \in Nat /\ p.score.correct <= Cardinality(lasting) /\ Idle(p)
        /\ \A s \in Carried : Overtaken(Carried, s.q) => s.q \in Attempted(attempts)
    BY <1>3, RestCounts
  <1>5. Cardinality(lasting) \in Nat  BY LastsTyped
  <1>6. f.score.correct \in Nat /\ f.score.correct <= Cardinality(lasting)
    BY <1>2, <1>4, <1>5, ResumesLasting DEF ReadTo, ZeroScore
  <1>7. ~AtItem(f) /\ Idle(f) /\ f.phase # "resuming"
    BY <1>2, <1>4 DEF ReadTo, AtItem, Idle, Offered
  <1>8. Carried' \subseteq Carried
    <2>1. net' \subseteq net \cup {CloseBy(t)}  BY <1>2 DEF ReadTo
    <2> QED  BY <1>1, <2>1, CloseAside
  <1>9. OwnClose(t, f, net')
    <2>1. CASE f.phase = "halted"  BY <2>1 DEF OwnClose, Ended
    <2>2. CASE net' = net  BY <1>3, <2>2, NoOwnClose
    <2> QED  BY <1>2, <2>1, <2>2 DEF ReadTo
  <1> HIDE DEF p, lasting, lasting1
  <1>10. CASE ~Offered(f)
    BY <1>1, <1>2, <1>4, <1>6, <1>7, <1>8, <1>9, <1>10, RestsLasts DEF lasting
  <1>11. CASE Offered(f)
    <2>1. f.q \notin Attempted(attempts)  BY <1>2, <1>11 DEF ReadTo, Offered
    <2>2. Spoilt(f, attempts, Carried')
      <3>1. \A q : Overtaken(Carried', q) => Overtaken(Carried, q)
        BY <1>8 DEF Overtaken
      <3> QED  BY <1>4, <1>7, <1>8, <2>1, <3>1 DEF Spoilt
    <2>3. f.q \notin lasting1
      BY <2>1 DEF lasting1, Lasting, FirstTries, Attempted
    <2>4. lasting1 \ {f.q} = lasting1  BY <2>3
    <2>5. lasting \subseteq lasting1 /\ IsFiniteSet(lasting1)
      BY <1>8, LastingGrows DEF Inv, lasting, lasting1
    <2>6. Cardinality(lasting) <= Cardinality(lasting1) /\ Cardinality(lasting1) \in Nat
      BY <2>5, FS_Subset, FS_CardinalityType
    <2>7. ~First(f)  BY <1>7 DEF AtItem, First, Solved
    <2>8. Credited(f, lasting1)
      BY <1>5, <1>6, <1>11, <2>4, <2>6, <2>7 DEF Credited
    <2> QED  BY <1>1, <1>2, <1>7, <1>8, <1>9, <2>2, <2>8, StampedShrinks, PageLasts
             DEF lasting1
  <1> QED  BY <1>10, <1>11

(* What was on offer is shown.  It may have been answered since.           *)
LEMMA ShowLasts ==
    ASSUME OnePage, Inv, Lasts, NEW t \in Tabs, Show(t)
    PROVE  Lasts'
  <1> DEFINE p == page[t]
             f == FreshAnswering(p, p.q)
             lasting == Lasting(attempts, Carried)
             lasting1 == Lasting(attempts, Carried')
  <1>1. /\ p \in Pages /\ Offered(p) /\ UNCHANGED <<attempts, clock>>
        /\ Becomes(t, f) /\ net' = net \cup {PointerTo(p.q)}
    BY PageTyped DEF Show, Offered, storeVars
  <1>2. f.phase = "answering" /\ f.q = p.q /\ f.active = NoLetter /\ f.score = p.score
    BY <1>1 DEF FreshAnswering, Pages
  <1>3. PointerTo(p.q).kind = "pointer"  BY DEF PointerTo, Request
  <1>4. /\ OwnClose(t, p, net) /\ Spoilt(p, attempts, Carried) /\ Credited(p, lasting)
    BY DEF Lasts
  <1> HIDE DEF f
  <1>5. Carried' \subseteq Carried  BY <1>1, <1>3, AsideCarries
  <1>6. /\ lasting \subseteq lasting1 /\ IsFiniteSet(lasting1)
        /\ IsFiniteSet(lasting1 \ {p.q})
    BY <1>1, <1>5, LastingGrows, OneMore DEF Inv
  <1>7. /\ Cardinality(lasting \ {p.q}) <= Cardinality(lasting1 \ {p.q})
        /\ Cardinality(lasting \ {p.q}) \in Nat /\ Cardinality(lasting1 \ {p.q}) \in Nat
    BY <1>6, FS_Subset, OneMore, LastsTyped, FS_CardinalityType
  <1>8. p.score.correct \in Nat  BY LastsTyped
  <1> HIDE DEF p, lasting, lasting1
  <1>9. /\ AtItem(f) /\ ~First(f) /\ ~Offered(f) /\ f.phase # "resuming"
        /\ ~AtItem(p) /\ ~First(p) /\ ~Ended(p)
    BY <1>1, <1>2 DEF AtItem, First, Solved, Offered, Ended
  <1>10. Spoilt(f, attempts, Carried')
    <2>1. \A q : Overtaken(Carried', q) => Overtaken(Carried, q)  BY <1>5 DEF Overtaken
    <2> QED  BY <1>1, <1>2, <1>4, <1>5, <1>9, <2>1 DEF Spoilt
  <1>11. Credited(f, lasting1)  BY <1>1, <1>2, <1>4, <1>7, <1>8, <1>9 DEF Credited
  <1>12. OwnClose(t, f, net')  BY <1>1, <1>3, <1>4, <1>9 DEF OwnClose
  <1> QED  BY <1>1, <1>5, <1>9, <1>10, <1>11, <1>12, StampedShrinks, PageLasts DEF lasting1

LEMMA OnNextLasts ==
    ASSUME OnePage, Inv, Answers, Lasts, NEW t \in Tabs, OnNext(t)
    PROVE  Lasts'
  <1> DEFINE p == page[t]
             f == [p EXCEPT !.phase = "loading", !.pending = NoPending,
                            !.res = NoRes, !.active = NoLetter]
  <1>1. p \in Pages /\ Solved(p) /\ Idle(p)
    BY PageTyped DEF OnNext, AdvanceBlocked, Idle
  <1>2. ~Ended(p)  BY <1>1 DEF Solved, Ended
  <1>3. /\ f.phase = "loading" /\ f.persist = p.persist /\ f.score = p.score
    BY <1>1 DEF Pages
  <1>4. Becomes(t, f) /\ UNCHANGED <<attempts, clock>> /\ net' = net
    BY DEF OnNext, storeVars
  <1> HIDE DEF f
  <1>5. ~AtItem(f) /\ Idle(f)  BY <1>1, <1>3 DEF AtItem, Idle
  <1>6. Carried' \subseteq Carried  BY <1>4, AsideCarries
  <1>7. OwnClose(t, f, net')  BY <1>2, <1>4, NoOwnClose
  <1>8. p.score.correct \in Nat  BY LastsTyped
  <1>9. /\ \A s \in Carried : Overtaken(Carried, s.q) => s.q \in Attempted(attempts)
        /\ p.score.correct <= Cardinality(Lasting(attempts, Carried))
    BY <1>1, LeavesLasts
  <1> HIDE DEF p
  <1> QED  BY <1>3, <1>4, <1>5, <1>6, <1>7, <1>8, <1>9, RestsLasts DEF Offered

LEMMA CloseLasts ==
    ASSUME OnePage, Inv, Answers, Lasts, NEW t \in Tabs,
           OnFinish(t) \/ CompletionEffect(t) \/ OnEndSession(t)
    PROVE  Lasts'
  <1> DEFINE p == page[t]
  <1>1. p \in Pages /\ Idle(p)
    BY PageTyped DEF OnFinish, CompletionEffect, OnEndSession, AdvanceBlocked, Idle
  <1>2. UNCHANGED <<attempts, clock>> /\ net' = net \cup {CloseBy(t)}
    BY DEF OnFinish, CompletionEffect, OnEndSession, CloseAndRoute, storeVars
  <1>3. PICK f \in {[p EXCEPT !.phase = "done", !.closing = TRUE],
                    [p EXCEPT !.phase = "done"]} : Becomes(t, f)
    BY DEF OnFinish, CompletionEffect, OnEndSession, CloseAndRoute
  <1>4. f.phase = "done" /\ f.persist = p.persist /\ f.score = p.score
    BY <1>1 DEF Pages
  <1>5. ~AtItem(f) /\ Idle(f) /\ Ended(f)  BY <1>1, <1>4 DEF AtItem, Idle, Ended
  <1>6. Carried' \subseteq Carried  BY <1>2, CloseAside
  <1>7. OwnClose(t, f, net')  BY <1>5 DEF OwnClose
  <1>8. p.score.correct \in Nat  BY LastsTyped
  <1>9. /\ \A s \in Carried : Overtaken(Carried, s.q) => s.q \in Attempted(attempts)
        /\ p.score.correct <= Cardinality(Lasting(attempts, Carried))
    BY <1>1, LeavesLasts
  <1> HIDE DEF p
  <1> QED  BY <1>2, <1>3, <1>4, <1>5, <1>6, <1>7, <1>8, <1>9, RestsLasts DEF Offered

-----------------------------------------------------------------------------
LEMMA OnSubmitLasts ==
    ASSUME OnePage, Inv, Answers, Lasts, NEW t \in Tabs, OnSubmit(t)
    PROVE  Lasts'
  <1> DEFINE p == page[t]
  <1>1. p \in Pages /\ PageOK(p) /\ p.phase = "answering" /\ p.score.correct \in Nat
    BY PageTyped, LastsTyped DEF OnSubmit
  <1>2. PICK letter \in Letters \ {p.active} :
               PersistAnswer(t, Submitted(p, letter),
                   [key |-> ActionKey(p), letter |-> letter,
                    first |-> p.active = NoLetter, prior |-> p.active # NoLetter],
                   {PointerTo(p.q)})
    BY DEF OnSubmit
  <1> DEFINE sub == Submitted(p, letter)
             res == ResolutionOf(letter, p.active # NoLetter)
             pending == [key |-> ActionKey(p), letter |-> letter,
                         first |-> p.active = NoLetter, prior |-> p.active # NoLetter]
             f == [sub EXCEPT !.pending = pending, !.persist = "pending"]
             row == NewRow(sub.q, pending.key, pending.letter,
                           ResolutionOf(pending.letter, pending.prior))
  <1>3. /\ Becomes(t, f) /\ attempts' = attempts /\ clock' = clock + 1
        /\ net' = net \cup {Request("attempt", t, row)} \cup {PointerTo(p.q)}
    BY <1>2 DEF PersistAnswer, storeVars
  <1>4. sub \in Pages /\ sub.q = p.q  BY <1>1, SubmittedOK DEF PageOK
  <1>5. /\ f.phase = sub.phase /\ f.q = p.q /\ f.active = sub.active /\ f.res = sub.res
        /\ f.score = sub.score
    BY <1>4 DEF Pages
  <1>6. row.q = p.q /\ row.res = res /\ row.stamp = clock + 1
    BY <1>4 DEF NewRow
  <1>7. /\ Request("attempt", t, row).body = row /\ Request("attempt", t, row).kind # "close"
        /\ PointerTo(p.q).kind = "pointer"
    BY DEF Request, PointerTo
  <1>8. AtItem(p) /\ ~First(p)  BY <1>1 DEF AtItem, First, Solved
  <1> HIDE DEF f, row, pending
  <1>9. Carried' \subseteq Carried \cup {row}  BY <1>3, <1>7 DEF Carried
  <1>10. \A r \in net' : r.kind = "close" => r \in net  BY <1>3, <1>7
  <1>11. /\ AtItem(f) /\ ~Unanswered(f)
         /\ First(f) => row.res = "first_try" /\ Unanswered(p)
         /\ f.score.correct = p.score.correct + (IF First(f) THEN 1 ELSE 0)
    <2>1. CASE letter # Right
      <3>1. sub.phase = "answering" /\ sub.active = letter /\ sub.score = p.score
        BY <1>1, <2>1 DEF Submitted, Pages
      <3>2. letter # NoLetter  BY LetterAssumption
      <3> HIDE DEF sub, p
      <3> QED  BY <1>1, <1>5, <3>1, <3>2 DEF AtItem, Unanswered, First, Solved
    <2>2. CASE letter = Right
      <3>1. /\ sub.phase = "solved" /\ sub.res = res
            /\ sub.score = [correct |-> p.score.correct + (IF res = "first_try" THEN 1 ELSE 0),
                            total |-> p.score.total + 1]
        BY <1>1, <2>2 DEF Submitted, Pages
      <3>2. sub.score.correct = p.score.correct + (IF res = "first_try" THEN 1 ELSE 0)
        BY <3>1
      <3>3. res = "first_try" => p.active = NoLetter  BY <2>2 DEF ResolutionOf
      <3> HIDE DEF sub, p, res
      <3> QED  BY <1>1, <1>5, <1>6, <3>1, <3>2, <3>3 DEF AtItem, Unanswered, First, Solved
    <2> QED  BY <2>1, <2>2
  <1>12. f.score.correct \in Nat  BY <1>1, <1>11
  <1> HIDE DEF p
  <1> QED
    BY <1>1, <1>3, <1>5, <1>6, <1>8, <1>9, <1>10, <1>11, <1>12, SendLasts DEF p

LEMMA OnRetryPersistLasts ==
    ASSUME OnePage, Inv, Answers, Lasts, NEW t \in Tabs, OnRetryPersist(t)
    PROVE  Lasts'
  <1> DEFINE p == page[t]
             pending == p.pending
             f == [p EXCEPT !.pending = pending, !.persist = "pending"]
             row == NewRow(p.q, pending.key, pending.letter,
                           ResolutionOf(pending.letter, pending.prior))
  <1>1. p \in Pages /\ p.score.correct \in Nat  BY PageTyped, LastsTyped
  <1>2. /\ p.persist = "error" /\ pending # NoPending
        /\ PersistAnswer(t, p, [pending EXCEPT !.key = ActionKey(p)], {})
    BY DEF OnRetryPersist
  <1>3. [pending EXCEPT !.key = ActionKey(p)] = pending
    BY <1>1, <1>2 DEF ActionKey, Pages
  <1>4. PersistAnswer(t, p, pending, {})  BY <1>2, <1>3
  <1>5. /\ Becomes(t, f) /\ attempts' = attempts /\ clock' = clock + 1
        /\ net' = net \cup {Request("attempt", t, row)}
    BY <1>4 DEF PersistAnswer, storeVars
  <1>6. /\ f.phase = p.phase /\ f.q = p.q /\ f.active = p.active /\ f.res = p.res
        /\ f.score = p.score
    BY <1>1 DEF Pages
  <1>7. /\ row.q = p.q /\ row.stamp = clock + 1
        /\ row.res = ResolutionOf(pending.letter, pending.prior)
    BY DEF NewRow
  <1>8. Request("attempt", t, row).body = row /\ Request("attempt", t, row).kind # "close"
    BY DEF Request
  <1>9. Shape(p) /\ (~AtItem(p) => Idle(p))  BY DEF Lasts, Answers
  <1>10. AtItem(p)  BY <1>2, <1>9 DEF Idle
  <1> HIDE DEF f, row
  <1>11. Carried' \subseteq Carried \cup {row}  BY <1>5, <1>8 DEF Carried
  <1>12. \A r \in net' : r.kind = "close" => r \in net  BY <1>5, <1>8
  <1> HIDE DEF p, pending
  <1>13. AtItem(f) /\ (First(f) <=> First(p)) /\ ~Unanswered(f)
    BY <1>2, <1>6, <1>9, <1>10 DEF AtItem, First, Solved, Unanswered, Shape, pending
  <1>14. First(p) => row.res = "first_try"
    BY <1>2, <1>7, <1>9 DEF First, Shape, pending
  <1> QED
    BY <1>1, <1>5, <1>6, <1>7, <1>10, <1>11, <1>12, <1>13, <1>14, SendLasts DEF p

LEMMA OnEscapeLasts ==
    ASSUME OnePage, Inv, Answers, Lasts, NEW t \in Tabs, OnEscape(t)
    PROVE  Lasts'
  <1> DEFINE p == page[t]
             row == NewRow(p.q, clock + 1, p.active, "walked_through")
             sent == Request("escape", t, row)
  <1>1. /\ net' = net \cup {sent} /\ page' = page /\ attempts' = attempts
        /\ clock' = clock + 1 /\ p.phase = "answering" /\ p.active # NoLetter
    BY DEF OnEscape, storeVars
  <1>2. Becomes(t, p)  BY <1>1 DEF Becomes, Inv, TypeOK
  <1>3. sent.kind = "escape" /\ sent.body = row /\ row.q = p.q /\ row.stamp = clock + 1
    BY DEF Request, NewRow
  <1> HIDE DEF row, sent
  <1>4. Carried' \subseteq Carried \cup {row}  BY <1>1, <1>3 DEF Carried
  <1>5. \A r \in net' : r.kind = "close" => r \in net  BY <1>1, <1>3
  <1>6. AtItem(p) /\ ~First(p) /\ ~Unanswered(p)
    BY <1>1 DEF AtItem, First, Solved, Unanswered
  <1>7. p.score.correct \in Nat  BY LastsTyped
  <1> HIDE DEF p
  <1> QED  BY <1>1, <1>2, <1>3, <1>4, <1>5, <1>6, <1>7, SendLasts DEF p

-----------------------------------------------------------------------------
LEMMA AttemptHeardLasts ==
    ASSUME OnePage, Inv, Lasts, NEW r \in net, AttemptHeard(r)
    PROVE  Lasts'
  <1> DEFINE t == r.tab
             p == page[t]
             review == Request("review", t, Append(card, r.body))
  <1>1. /\ t \in Tabs /\ UNCHANGED <<attempts, clock>> /\ net' \subseteq net \cup {review}
    BY Heeds DEF AttemptHeard, Hears, ReviewOf, storeVars
  <1>2. PICK f \in {p, Settled(p)} : Becomes(t, f)
    BY DEF AttemptHeard
  <1>3. p \in Pages  BY <1>1, PageTyped
  <1>4. /\ f.phase = p.phase /\ f.q = p.q /\ f.active = p.active /\ f.res = p.res
        /\ f.score = p.score /\ f.closing = p.closing /\ f.failed = p.failed
        /\ f.persist = p.persist \/ f.persist = "idle"
    <2> HIDE DEF p
    <2>1. CASE f = p  BY <2>1
    <2>2. CASE f = Settled(p)  BY <1>3, <2>2 DEF Pages, Settled
    <2> QED  BY <1>2, <2>1, <2>2
  <1>5. ~AtItem(p) => Idle(f)  BY <1>1, <1>4 DEF Idle, Lasts
  <1>7. review.kind = "review"  BY DEF Request
  <1>8. Carried' \subseteq Carried  BY <1>1, <1>7, AsideCarries
  <1>9. \A x \in net' : x.kind = "close" => x \in net  BY <1>1, <1>7
  <1> HIDE DEF p, t
  <1> QED  BY <1>1, <1>2, <1>4, <1>5, <1>8, <1>9, StaysLasts DEF p

LEMMA ReviewHeardLasts ==
    ASSUME OnePage, Inv, Lasts, NEW r \in net, ReviewHeard(r)
    PROVE  Lasts'
  <1> DEFINE t == r.tab
             p == page[t]
             f == Settled(p)
  <1>1. /\ t \in Tabs /\ UNCHANGED <<attempts, clock>> /\ net' = net \ {r}
        /\ Becomes(t, f)
    BY Heeds DEF ReviewHeard, Hears, storeVars
  <1>2. p \in Pages  BY <1>1, PageTyped
  <1>3. /\ f.phase = p.phase /\ f.q = p.q /\ f.active = p.active /\ f.res = p.res
        /\ f.score = p.score /\ f.closing = p.closing /\ f.failed = p.failed
        /\ f.persist = "idle"
    BY <1>2 DEF Pages, Settled
  <1> HIDE DEF f, p, t
  <1>4. Idle(f)  BY <1>3 DEF Idle
  <1>6. Carried' \subseteq Carried  BY <1>1, AsideCarries
  <1> QED  BY <1>1, <1>3, <1>4, <1>6, StaysLasts DEF p

LEMMA PersistFailedLasts ==
    ASSUME OnePage, Inv, Answers, Lasts, NEW r \in net, PersistFailed(r)
    PROVE  Lasts'
  <1> DEFINE t == r.tab
             p == page[t]
             f == [p EXCEPT !.persist = "error"]
  <1>1. /\ t \in Tabs /\ UNCHANGED <<attempts, clock>> /\ net' = net \ {r}
        /\ Becomes(t, f) /\ Owes(r)
    BY Heeds DEF PersistFailed, Hears, Owes, storeVars
  <1>2. p \in Pages  BY <1>1, PageTyped
  <1>3. /\ f.phase = p.phase /\ f.q = p.q /\ f.active = p.active /\ f.res = p.res
        /\ f.score = p.score /\ f.closing = p.closing /\ f.failed = p.failed
    BY <1>2 DEF Pages
  <1>4. p.persist = "pending"  BY <1>1 DEF Answers, OwedFor
  <1>5. AtItem(p)  BY <1>1, <1>4 DEF Idle, Lasts
  <1> HIDE DEF f, p, t
  <1>7. Carried' \subseteq Carried  BY <1>1, AsideCarries
  <1> QED  BY <1>1, <1>3, <1>5, <1>7, StaysLasts DEF p

LEMMA FailedLasts ==
    ASSUME OnePage, Inv, Lasts, NEW r \in net, EscapeFailed(r) \/ CloseFailed(r)
    PROVE  Lasts'
  <1> DEFINE t == r.tab
             p == page[t]
  <1>1. t \in Tabs /\ net' = net \ {r} /\ UNCHANGED <<attempts, clock>>
    BY Heeds DEF EscapeFailed, CloseFailed, storeVars
  <1>2. PICK f \in {[p EXCEPT !.failed = TRUE],
                    [p EXCEPT !.closing = FALSE, !.failed = TRUE]} : Becomes(t, f)
    BY DEF EscapeFailed, CloseFailed
  <1>3. p \in Pages  BY <1>1, PageTyped
  <1>4. /\ f.phase = p.phase /\ f.q = p.q /\ f.active = p.active /\ f.res = p.res
        /\ f.score = p.score /\ f.persist = p.persist /\ f.failed = TRUE
    <2> HIDE DEF p
    <2>1. CASE f = [p EXCEPT !.failed = TRUE]  BY <1>3, <2>1 DEF Pages
    <2>2. CASE f = [p EXCEPT !.closing = FALSE, !.failed = TRUE]
      BY <1>3, <2>2 DEF Pages
    <2> QED  BY <1>2, <2>1, <2>2
  <1>5. ~AtItem(p) => Idle(f)  BY <1>1, <1>4 DEF Idle, Lasts
  <1>7. Carried' \subseteq Carried  BY <1>1, AsideCarries
  <1> HIDE DEF p, t
  <1> QED  BY <1>1, <1>2, <1>4, <1>5, <1>7, StaysLasts DEF p

(* The summary is shown by a page that has stopped.                        *)
LEMMA CloseHeardLasts ==
    ASSUME OnePage, Inv, Lasts, NEW r \in net, CloseHeard(r)
    PROVE  Lasts'
  <1> DEFINE t == r.tab
             p == page[t]
             f == [p EXCEPT !.phase = "summary"]
  <1>1. /\ t \in Tabs /\ net' = net \ {r} /\ UNCHANGED <<attempts, clock>>
        /\ Becomes(t, f) /\ r.kind = "close"
    BY Heeds DEF CloseHeard, Hears, storeVars
  <1>2. p \in Pages  BY <1>1, PageTyped
  <1>3. f.phase = "summary" /\ f.score = p.score /\ f.persist = p.persist
    BY <1>2 DEF Pages
  <1>4. Ended(p)  BY <1>1 DEF Lasts, OwnClose
  <1>5. ~AtItem(p)  BY <1>4 DEF AtItem, Ended
  <1>6. /\ p.score.correct \in Nat /\ Idle(p)
        /\ p.score.correct <= Cardinality(Lasting(attempts, Carried))
        /\ \A s \in Carried : Overtaken(Carried, s.q) => s.q \in Attempted(attempts)
    BY <1>1, <1>5, RestCounts
  <1> HIDE DEF f, p, t
  <1>7. ~AtItem(f) /\ Idle(f) /\ Ended(f)  BY <1>3, <1>6 DEF AtItem, Idle, Ended
  <1>8. OwnClose(t, f, net')  BY <1>7 DEF OwnClose
  <1>9. Carried' \subseteq Carried  BY <1>1, AsideCarries
  <1> QED  BY <1>1, <1>3, <1>6, <1>7, <1>8, <1>9, RestsLasts DEF Offered

(* The escape resolves the item, without credit.                           *)
LEMMA EscapeHeardLasts ==
    ASSUME OnePage, Inv, Lasts, NEW r \in net, EscapeHeard(r)
    PROVE  Lasts'
  <1> DEFINE t == r.tab
             p == page[t]
             f == EscapeTaken(p)
             lasting == Lasting(attempts, Carried)
             lasting1 == Lasting(attempts, Carried')
  <1>1. /\ t \in Tabs /\ net' = net \ {r} /\ UNCHANGED <<attempts, clock>>
        /\ Becomes(t, f)
    BY Heeds DEF EscapeHeard, storeVars
  <1>2. p \in Pages  BY <1>1, PageTyped
  <1>3. Carried' \subseteq Carried  BY <1>1, AsideCarries
  <1>4. CASE f = p
    <2>1. ~AtItem(p) => Idle(p)  BY <1>1 DEF Lasts
    <2> HIDE DEF f, t
    <2>2. Becomes(t, p)  BY <1>1, <1>4
    <2> QED  BY <1>1, <1>3, <2>1, <2>2, StaysLasts
  <1>5. CASE p.phase = "answering" /\ p.active # NoLetter
    <2>1. f = [p EXCEPT !.phase = "solved", !.active = NoLetter,
                        !.res = "walked_through", !.score.total = @ + 1]
      BY <1>5 DEF EscapeTaken
    <2>2. p.score \in Scores /\ p.score.correct \in Nat  BY <1>1, ScoreTyped
    <2>3. /\ f.phase = "solved" /\ f.q = p.q /\ f.res = "walked_through"
          /\ f.score = [p.score EXCEPT !.total = @ + 1]
      BY <1>2, <2>1 DEF Pages
    <2>4. f.score.correct = p.score.correct  BY <2>2, <2>3 DEF Scores
    <2>5. /\ Spoilt(p, attempts, Carried) /\ Credited(p, lasting)
          /\ OwnClose(t, p, net)
      BY <1>1 DEF Lasts
    <2>6. /\ lasting \subseteq lasting1 /\ IsFiniteSet(lasting1)
          /\ IsFiniteSet(lasting1 \ {p.q})
      BY <1>3, LastingGrows, OneMore DEF Inv
    <2>7. /\ Cardinality(lasting \ {p.q}) <= Cardinality(lasting1 \ {p.q})
          /\ Cardinality(lasting \ {p.q}) \in Nat /\ Cardinality(lasting1 \ {p.q}) \in Nat
      BY <1>1, <2>6, FS_Subset, OneMore, LastsTyped, FS_CardinalityType
    <2> HIDE DEF f, p, t, lasting, lasting1
    <2>8. /\ AtItem(f) /\ ~First(f) /\ ~Unanswered(f) /\ f.phase # "resuming"
          /\ AtItem(p) /\ ~First(p) /\ ~Ended(p)
      BY <1>5, <2>3 DEF AtItem, First, Solved, Unanswered, Ended
    <2>9. Spoilt(f, attempts, Carried')
      <3>1. \A q : Overtaken(Carried', q) => Overtaken(Carried, q)
        BY <1>3 DEF Overtaken
      <3> QED  BY <1>3, <2>3, <2>5, <2>8, <3>1 DEF Spoilt, Offered
    <2>10. Credited(f, lasting1)
      BY <2>2, <2>3, <2>4, <2>5, <2>7, <2>8 DEF Credited
    <2>11. OwnClose(t, f, net')  BY <1>1, <2>5, <2>8 DEF OwnClose
    <2>12. Stamped(Carried', clock')  BY <1>1, <1>3, StampedShrinks
    <2> QED  BY <1>1, <2>8, <2>9, <2>10, <2>11, <2>12, PageLasts DEF lasting1
  <1> QED  BY <1>4, <1>5 DEF EscapeTaken

(* At the first reload no first try has been overtaken yet.                *)
LEMMA ReloadLasts ==
    ASSUME OnePage, Inv, Scored, Lasts, NEW t \in Tabs, Reload(t)
    PROVE  Lasts'
  <1>1. /\ Becomes(t, Mounted) /\ UNCHANGED <<attempts, clock>>
        /\ net' = {r \in net : r.tab # t}
                    \cup {Orphan(r) : r \in {s \in net : /\ s.tab = t
                                                         /\ s.st \in {"sent", "tallied"}}}
    BY DEF Reload, storeVars
  <1>2. net \subseteq Requests /\ t # NoTab
    BY SessionAssumption DEF Inv, TypeOK
  <1>3. \A r \in Requests : /\ Orphan(r).kind = r.kind /\ Orphan(r).body = r.body
                            /\ Orphan(r).tab = NoTab
    BY DEF Orphan, Requests
  <1>4. Carried' \subseteq Carried
    <2> SUFFICES ASSUME NEW r \in net', r.kind \in {"attempt", "escape"}
                 PROVE  r.body \in Carried
      BY <1>1 DEF Carried
    <2>1. PICK s \in net : s.kind = r.kind /\ s.body = r.body  BY <1>1, <1>2, <1>3
    <2> QED  BY <2>1 DEF Carried
  <1>5. \A r \in net' : r.tab # t  BY <1>1, <1>2, <1>3
  <1>6. OwnClose(t, Mounted, net')  BY <1>5 DEF OwnClose
  <1>7. /\ Mounted.phase = "resuming" /\ Mounted.score.correct = 0
        /\ Mounted.persist = "idle"
    BY DEF Mounted, ZeroScore
  <1>8. ~AtItem(Mounted) /\ Idle(Mounted)  BY <1>7 DEF AtItem, Idle
  <1>9. \A s \in Carried' : ~Overtaken(Carried', s.q)
    BY <1>4 DEF Scored, FirstIsAll, Overtaken
  <1>10. Spoilt(Mounted, attempts, Carried')  BY <1>9 DEF Spoilt
  <1>11. Credited(Mounted, Lasting(attempts, Carried'))
    <2>1. IsFiniteSet(Lasting(attempts, Carried'))
      <3>1. Lasting(attempts, Carried') \subseteq FirstTries(attempts)  BY DEF Lasting
      <3> QED  BY <3>1, SeenFinite, FS_Subset DEF Inv
    <2>2. Cardinality(Lasting(attempts, Carried')) \in Nat
      BY <2>1, FS_CardinalityType
    <2> QED  BY <1>7, <1>8, <2>2 DEF Credited, Offered
  <1>12. Stamped(Carried', clock')  BY <1>1, <1>4, StampedShrinks
  <1> QED  BY <1>1, <1>6, <1>8, <1>10, <1>11, <1>12, PageLasts

-----------------------------------------------------------------------------
(* The server stores rows that were under way.                             *)
LEMMA ServerLasts ==
    ASSUME Inv, Lasts, UNCHANGED <<page, clock>>, attempts \subseteq attempts',
           IsFiniteSet(attempts'), Carried' \subseteq Carried,
           NEW r \in net, NEW s, net' \subseteq (net \ {r}) \cup {s},
           s.kind = r.kind, s.tab = r.tab
    PROVE  Lasts'
  <1>1. Stamped(Carried, clock)'
    <2>1. Stamped(Carried', clock')  BY StampedShrinks
    <2> QED  BY <2>1 DEF Stamped
  <1>2. ASSUME NEW t \in Tabs
        PROVE  /\ OwnClose(t, page[t], net') /\ Spoilt(page[t], attempts', Carried')
               /\ Credited(page[t], Lasting(attempts', Carried'))
    <2> DEFINE p == page[t]
               lasting == Lasting(attempts, Carried)
               lasting1 == Lasting(attempts', Carried')
    <2>1. /\ OwnClose(t, p, net) /\ Spoilt(p, attempts, Carried) /\ Credited(p, lasting)
      BY DEF Lasts
    <2>2. OwnClose(t, p, net')  BY <2>1 DEF OwnClose
    <2>3. Spoilt(p, attempts', Carried')
      <3>1. \A q : Overtaken(Carried', q) => Overtaken(Carried, q)  BY DEF Overtaken
      <3>2. Attempted(attempts) \subseteq Attempted(attempts')  BY DEF Attempted
      <3> QED  BY <2>1, <3>1, <3>2 DEF Spoilt
    <2>4. /\ lasting \subseteq lasting1 /\ IsFiniteSet(lasting1)
          /\ IsFiniteSet(lasting1 \ {p.q})
      BY LastingGrows, OneMore
    <2>5. /\ Cardinality(lasting) <= Cardinality(lasting1)
          /\ Cardinality(lasting \ {p.q}) <= Cardinality(lasting1 \ {p.q})
      BY <2>4, FS_Subset
    <2>6. /\ p.score.correct \in Nat /\ Cardinality(lasting) \in Nat
          /\ Cardinality(lasting \ {p.q}) \in Nat /\ Cardinality(lasting1) \in Nat
          /\ Cardinality(lasting1 \ {p.q}) \in Nat
      BY <2>4, LastsTyped, OneMore, FS_CardinalityType
    <2> HIDE DEF p, lasting, lasting1
    <2>7. Credited(p, lasting1)  BY <2>1, <2>5, <2>6 DEF Credited
    <2> QED  BY <2>2, <2>3, <2>7 DEF p, lasting1
  <1>3. ASSUME NEW t \in Tabs
        PROVE  /\ (~AtItem(page[t]) => Idle(page[t]))' /\ OwnClose(t, page[t], net)'
               /\ Spoilt(page[t], attempts, Carried)'
               /\ Credited(page[t], Lasting(attempts, Carried))'
    <2>1. (~AtItem(page[t]) => Idle(page[t]))'  BY DEF Lasts, AtItem, Idle
    <2>2. OwnClose(t, page[t], net)'
      <3>1. OwnClose(t, page'[t], net')  BY <1>2
      <3> QED  BY <3>1 DEF OwnClose, Ended
    <2>3. Spoilt(page[t], attempts, Carried)'
      <3>1. Spoilt(page'[t], attempts', Carried')  BY <1>2
      <3> QED  BY <3>1 DEF Spoilt
    <2>4. Credited(page[t], Lasting(attempts, Carried))'
      <3>1. Credited(page'[t], Lasting(attempts', Carried'))  BY <1>2
      <3> QED  BY <3>1 DEF Credited, Lasting, FirstTries
    <2> QED  BY <2>1, <2>2, <2>3, <2>4
  <1> QED  BY <1>1, <1>3 DEF Lasts

LEMMA ServedLasts ==
    ASSUME Inv, Lasts, NEW r \in net, Served(r) \/ RequestFails(r)
    PROVE  Lasts'
  <1>1. r \in Requests /\ IsFiniteSet(attempts)  BY DEF Inv, TypeOK
  <1>2. CASE ServeAttempt(r)
    <2>1. r.kind \in {"attempt", "escape"} /\ r.body \in Rows
      BY <1>2, BodyTyped DEF ServeAttempt, Inv, TypeOK, AttemptRequests
    <2>2. PICK row : row = StoredFor(r.body)  OBVIOUS
    <2>3. /\ attempts \subseteq attempts' /\ attempts' \subseteq attempts \cup {r.body}
          /\ UNCHANGED <<page, clock>>
      BY <1>2 DEF ServeAttempt, Insert
    <2>4. row \in attempts' /\ IsFiniteSet(attempts')
      BY <1>2, <2>1, <2>2, StoredIsStored DEF ServeAttempt, Inv, TypeOK, StoreTypeOK
    <2>5. PICK s : /\ net' \subseteq (net \ {r}) \cup {s}
                   /\ s.kind = r.kind /\ s.tab = r.tab /\ s.body \in {row, r.body}
      BY <1>1, <1>2, <2>2, AnswerReplaces DEF ServeAttempt
    <2>6. attempts' \subseteq Carried /\ s.body \in Carried
      BY <2>1, <2>3, <2>4, <2>5 DEF Carried
    <2>7. Carried' \subseteq Carried  BY <2>5, <2>6 DEF Carried
    <2> QED  BY <2>3, <2>4, <2>5, <2>7, ServerLasts
  <1>3. ASSUME NEW s, net' \subseteq (net \ {r}) \cup {s}, s.kind = r.kind, s.tab = r.tab,
               s.kind \in {"attempt", "escape"} => s.body = r.body,
               UNCHANGED <<attempts, page, clock>>
        PROVE  Lasts'
    <2>1. Carried' \subseteq Carried  BY <1>3 DEF Carried
    <2> QED  BY <1>1, <1>3, <2>1, ServerLasts
  <1>4. CASE ServeReview(r)
    <2>1. PICK s : /\ net' \subseteq (net \ {r}) \cup {s}
                   /\ s.kind = r.kind /\ s.tab = r.tab
      BY <1>1, <1>4, AnswerReplaces DEF ServeReview
    <2> QED  BY <1>3, <1>4, <2>1 DEF ServeReview
  <1>5. CASE ServePointer(r)
    <2>1. /\ net' \subseteq (net \ {r}) \cup {r} /\ UNCHANGED <<attempts, page, clock>>
      BY <1>5 DEF ServePointer
    <2> QED  BY <1>3, <2>1
  <1>6. CASE TallyForClose(r)
    <2> DEFINE tallied == [r EXCEPT !.st = "tallied", !.body = CommitFirstTally(attempts)]
               err == [r EXCEPT !.st = "err"]
    <2>1. /\ tallied.kind = r.kind /\ tallied.tab = r.tab
          /\ err.kind = r.kind /\ err.tab = r.tab /\ r.kind = "close"
      BY <1>1, <1>6 DEF Requests, TallyForClose
    <2>2. /\ \/ net' \subseteq (net \ {r}) \cup {tallied}
             \/ net' \subseteq (net \ {r}) \cup {err}
          /\ UNCHANGED <<attempts, page, clock>>
      BY <1>6 DEF TallyForClose, storeVars
    <2> HIDE DEF tallied, err
    <2> QED  BY <1>3, <2>1, <2>2
  <1>7. CASE ServeClose(r)
    <2>1. PICK s : /\ net' \subseteq (net \ {r}) \cup {s}
                   /\ s.kind = r.kind /\ s.tab = r.tab
      BY <1>1, <1>7, AnswerReplaces DEF ServeClose
    <2> QED  BY <1>3, <1>7, <2>1 DEF ServeClose
  <1>8. CASE RequestFails(r)
    <2> DEFINE err == [r EXCEPT !.st = "err"]
    <2>1. err.kind = r.kind /\ err.body = r.body /\ err.tab = r.tab
      BY <1>1 DEF Requests
    <2>2. /\ net' \subseteq (net \ {r}) \cup {err} /\ UNCHANGED <<attempts, page, clock>>
      BY <1>8 DEF RequestFails, storeVars
    <2> HIDE DEF err
    <2> QED  BY <1>3, <2>1, <2>2
  <1> QED  BY <1>2, <1>4, <1>5, <1>6, <1>7, <1>8 DEF Served

LEMMA InitLasts == Init => Lasts
  <1> SUFFICES ASSUME Init PROVE Lasts  OBVIOUS
  <1>1. \A t \in Tabs : page[t] = Mounted  BY DEF Init
  <1>2. net = {} /\ Carried = {} /\ attempts = {}
    BY DEF Init, StoreInit, Carried
  <1>3. Lasting(attempts, Carried) = {} /\ Cardinality({}) = 0
    BY <1>2, FS_EmptySet DEF Lasting, FirstTries
  <1>4. /\ Mounted.phase = "resuming" /\ Mounted.score.correct = 0
        /\ Mounted.persist = "idle"
    BY DEF Mounted, ZeroScore
  <1>5. ~AtItem(Mounted) /\ Idle(Mounted)  BY <1>4 DEF AtItem, Idle
  <1>6. Spoilt(Mounted, attempts, Carried)  BY <1>2 DEF Spoilt
  <1>7. Credited(Mounted, Lasting(attempts, Carried))
    BY <1>3, <1>4, <1>5 DEF Credited
  <1> QED  BY <1>1, <1>2, <1>5, <1>6, <1>7 DEF Lasts, Stamped, OwnClose

(***************************************************************************)
(* How a page's step keeps the score.                                      *)
(***************************************************************************)
LEMMA PageScores ==
    ASSUME OnePage, Inv, Scored, NEW t \in Tabs, NEW f, Becomes(t, f),
           attempts' = attempts, FirstIsAll(Carried'),
           Past(f, attempts, Carried'), Within(f, Attempted(attempts)),
           Closing(f, session', net')
    PROVE  Scored'
  <1>1. \A u \in Tabs : page'[u] = f
    <2>1. page' = [page EXCEPT ![t] = f] /\ page \in [Tabs -> Pages]
      BY DEF Becomes, Inv, TypeOK
    <2> QED  BY <2>1 DEF OnePage
  <1>2. (FirstIsAll(Carried))'  BY DEF FirstIsAll
  <1>3. ASSUME NEW u \in Tabs  PROVE Past(page[u], attempts, Carried)'
    <2>1. Past(page'[u], attempts', Carried')  BY <1>1
    <2> QED  BY <2>1 DEF Past
  <1>4. ASSUME NEW u \in Tabs  PROVE Within(page[u], Attempted(attempts))'
    <2>1. Within(page'[u], Attempted(attempts'))  BY <1>1
    <2> QED  BY <2>1 DEF Within, Attempted
  <1>5. ASSUME NEW u \in Tabs  PROVE Closing(page[u], session, net)'
    <2>1. Closing(page'[u], session', net')  BY <1>1
    <2> QED  BY <2>1 DEF Closing
  <1> QED  BY <1>2, <1>3, <1>4, <1>5 DEF Scored

(* Before its page has stopped, nothing closes the session.                *)
LEMMA ClosingStarts ==
    ASSUME NEW p, NEW f, NEW row, NEW requests, NEW requests1,
           Closing(p, row, requests), ~Ended(p), f.phase # "summary",
           \A r \in requests1 : r.kind = "close" => Ended(f) /\ r.st = "sent"
    PROVE  Closing(f, row, requests1)
  BY DEF Closing

LEMMA NoCloseBefore ==
    ASSUME Scored, NEW t \in Tabs, ~Ended(page[t])
    PROVE  session.open /\ \A r \in net : r.kind # "close"
  BY DEF Scored, Closing

(* A step that leaves the item, the answers and the score as they are.     *)
LEMMA StaysScores ==
    ASSUME OnePage, Inv, Scored, NEW t \in Tabs, NEW f, Becomes(t, f),
           UNCHANGED storeVars, Carried' \subseteq Carried,
           \A r \in net' : r.kind = "close" => r \in net,
           f.phase = page[t].phase, f.q = page[t].q, f.active = page[t].active,
           f.res = page[t].res, f.score = page[t].score,
           f.pending \in {page[t].pending, NoPending},
           ~AtItem(page[t]) => Idle(f)
    PROVE  Scored'
  <1> DEFINE p == page[t]
  <1>1. attempts' = attempts /\ session' = session  BY DEF storeVars
  <1>2. /\ Past(p, attempts, Carried) /\ Within(p, Attempted(attempts))
        /\ Closing(p, session, net) /\ FirstIsAll(Carried)
    BY DEF Scored
  <1>3. FirstIsAll(Carried')  BY <1>2 DEF FirstIsAll
  <1>4. Past(f, attempts, Carried')
    <2> HIDE DEF p
    <2>1. AtItem(f) <=> AtItem(p)  BY DEF AtItem, p
    <2>2. (Unfirst(f) <=> Unfirst(p)) /\ (Solved(f) <=> Solved(p))
      BY DEF Unfirst, Solved, p
    <2> QED  BY <1>2, <2>1, <2>2 DEF Past, p, Offered, Unanswered
  <1>5. Within(f, Attempted(attempts))  BY <1>2 DEF Within, AtItem, Solved
  <1>6. Ended(p) => Ended(f)  BY DEF Ended
  <1>7. Closing(f, session, net')  BY <1>2, <1>6 DEF Closing
  <1> QED  BY <1>1, <1>3, <1>4, <1>5, <1>7, PageScores

(* A step to a page that shows no item.                                    *)
LEMMA RestsScores ==
    ASSUME OnePage, Inv, Scored, NEW t \in Tabs, NEW f, Becomes(t, f),
           UNCHANGED storeVars, Carried' \subseteq Carried,
           ~AtItem(f), Idle(f),
           \A s \in Carried : s.q \in Attempted(attempts),
           f.phase \in {"resuming", "advancing"} => Carried = {},
           Offered(f) => \A s \in Carried : s.q # f.q,
           f.phase \in {"advancing", "loading", "offered"} => f.score.total < Target,
           f.phase \in {"loading", "offered"}
             => Cardinality(Attempted(attempts)) <= f.score.total,
           Cardinality(Attempted(attempts)) <= Target,
           Closing(f, session, net')
    PROVE  Scored'
  <1>1. attempts' = attempts /\ session' = session  BY DEF storeVars
  <1>2. FirstIsAll(Carried')  BY DEF Scored, FirstIsAll
  <1>3. f.phase # "answering" /\ ~Solved(f)  BY DEF AtItem, Solved
  <1>4. Past(f, attempts, Carried')  BY <1>3 DEF Past, Unfirst, Offered, Unanswered
  <1>5. Within(f, Attempted(attempts))  BY <1>3 DEF Within
  <1> QED  BY <1>1, <1>2, <1>4, <1>5, PageScores

(* A page that owes nothing leaves its item: every row is of a stored      *)
(* question.                                                               *)
LEMMA LeavesItem ==
    ASSUME Inv, Answers, Scored, NEW t \in Tabs, AtItem(page[t]), Idle(page[t])
    PROVE  /\ \A s \in Carried : s.q \in Attempted(attempts)
           /\ Cardinality(Attempted(attempts)) <= Target
           /\ Solved(page[t]) => Cardinality(Attempted(attempts)) <= page[t].score.total
  <1> DEFINE p == page[t]
             seen == Attempted(attempts)
  <1>1. Past(p, attempts, Carried) /\ Within(p, seen) /\ Kept(p, attempts)
    BY DEF Scored, Answers
  <1>2. p.score.total \in Nat /\ IsFiniteSet(seen) /\ Target \in Nat
    BY ScoreTyped
  <1>3. \A s \in Carried : s.q = p.q => p.q \in seen
    <2>1. CASE Solved(p) \/ (p.phase = "answering" /\ p.active # NoLetter)
      <3>1. \E s \in attempts : s.q = p.q  BY <1>1, <2>1 DEF Kept
      <3> QED  BY <3>1 DEF Attempted
    <2>2. CASE p.phase = "answering" /\ p.active = NoLetter
      BY <1>1, <2>2 DEF Past, Offered, Unanswered
    <2> QED  BY <2>1, <2>2 DEF AtItem, Solved
  <1> HIDE DEF p, seen
  <1>4. \A s \in Carried : s.q \in seen  BY <1>1, <1>3 DEF Past, seen
  <1>5. /\ Cardinality(seen) \in Nat /\ Cardinality(seen \ {p.q}) \in Nat
        /\ Cardinality(seen) <= Cardinality(seen \ {p.q}) + 1
    BY <1>2, OneMore
  <1>6. AtItem(p)  BY DEF p
  <1>7. Solved(p) => Cardinality(seen) <= p.score.total
    BY <1>1, <1>2, <1>5, <1>6 DEF Within
  <1>8. Cardinality(seen) <= Target  BY <1>1 DEF Within
  <1> QED  BY <1>4, <1>7, <1>8 DEF p, seen

(* A page that shows no item has only rows of stored questions.            *)
LEMMA RestHasStored ==
    ASSUME Scored, Inv, NEW t \in Tabs, ~AtItem(page[t])
    PROVE  /\ \A s \in Carried : s.q \in Attempted(attempts)
           /\ Cardinality(Attempted(attempts)) <= Target
           /\ Idle(page[t])
           /\ page[t].phase \in {"resuming", "advancing"} => Carried = {}
  <1>1. Past(page[t], attempts, Carried) /\ Within(page[t], Attempted(attempts))
    BY DEF Scored
  <1> QED  BY <1>1 DEF Past, Within

-----------------------------------------------------------------------------
(***************************************************************************)
(* The steps that start and end an item.                                   *)
(***************************************************************************)
LEMMA NothingCounted == CommitFirstTally({}) = ZeroScore
  <1>1. Attempted({}) = {}  BY DEF Attempted
  <1>2. \A kinds : CountedAs({}, kinds) = {}  BY <1>1 DEF CountedAs
  <1>3. Cardinality({}) = 0  BY FS_EmptySet
  <1> QED  BY <1>2, <1>3 DEF CommitFirstTally, ZeroScore

(* Before the first answer there is nothing to resume.                     *)
LEMMA NothingYet ==
    ASSUME Scored, Inv, NEW t \in Tabs, page[t].phase \in {"resuming", "advancing"}
    PROVE  /\ Carried = {} /\ attempts = {} /\ Attempted(attempts) = {}
           /\ Cardinality(Attempted(attempts)) = 0
           /\ CommitFirstTally(attempts) = ZeroScore
  <1>1. Carried = {}  BY RestHasStored DEF AtItem
  <1>2. attempts = {}  BY <1>1 DEF Carried
  <1>3. Attempted(attempts) = {}  BY <1>2 DEF Attempted
  <1> QED  BY <1>1, <1>2, <1>3, NothingCounted, FS_EmptySet

(* The close that a page sends when it stops.                              *)
LEMMA CloseSent ==
    ASSUME Scored, NEW t \in Tabs, ~Ended(page[t]), NEW f, Ended(f),
           f.phase # "summary", net' = net \cup {CloseBy(t)}
    PROVE  Closing(f, session, net')
  <1>1. \A r \in net : r.kind # "close"  BY NoCloseBefore
  <1>2. CloseBy(t).st = "sent"  BY DEF CloseBy, Request
  <1>3. Closing(page[t], session, net)  BY DEF Scored
  <1> QED  BY <1>1, <1>2, <1>3, ClosingStarts

LEMMA ReadsScores ==
    ASSUME OnePage, Inv, Scored, NEW t \in Tabs,
           GetActive(t) \/ GetNext(t) \/ CloseExhausted(t) \/ ReadFails(t)
    PROVE  Scored'
  <1> DEFINE p == page[t]
             seen == Attempted(attempts)
  <1>1. p.phase \in Reading /\ UNCHANGED storeVars
    BY Reads
  <1>2. PICK f : Becomes(t, f) /\ ReadTo(t, f)  BY Reads
  <1>3. ~AtItem(p) /\ ~Ended(p)  BY <1>1 DEF AtItem, Ended, Reading
  <1>4. /\ Idle(p) /\ Cardinality(seen) <= Target
        /\ \A s \in Carried : s.q \in seen
    BY <1>3, RestHasStored
  <1>5. Within(p, seen) /\ Closing(p, session, net)  BY DEF Scored
  <1>6. p.phase \in {"resuming", "advancing"} =>
          /\ Carried = {} /\ Cardinality(seen) = 0
          /\ CommitFirstTally(attempts) = ZeroScore
    BY NothingYet
  <1>7. /\ Cardinality(seen) \in Nat /\ p.score.total \in Nat
        /\ Target \in Nat \ {0} /\ ZeroScore.total = 0
    BY ScoreTyped, QuizAssumption DEF ZeroScore
  <1> HIDE DEF p, seen
  <1>8. ~AtItem(f) /\ Idle(f)
    BY <1>2, <1>4 DEF ReadTo, AtItem, Idle, Offered, p
  <1>9. f.phase \in {"resuming", "advancing"} => Carried = {}
    BY <1>2, <1>6 DEF ReadTo, Offered, p
  <1>10. Offered(f) => \A s \in Carried : s.q # f.q
    BY <1>2, <1>4 DEF ReadTo, Offered, seen
  <1>11. f.phase \in {"advancing", "loading", "offered"} => f.score.total < Target
    BY <1>2, <1>5, <1>6, <1>7 DEF ReadTo, Offered, Within, p
  <1>12. f.phase \in {"loading", "offered"} => Cardinality(seen) <= f.score.total
    BY <1>2, <1>5, <1>6, <1>7 DEF ReadTo, Offered, Within, p
  <1>13. net' \subseteq net \cup {CloseBy(t)}  BY <1>2 DEF ReadTo
  <1>14. Carried' \subseteq Carried  BY <1>1, <1>13, CloseAside DEF storeVars
  <1>15. Closing(f, session, net')
    <2>1. \A r \in net : r.kind # "close"  BY <1>3, NoCloseBefore DEF p
    <2>2. CloseBy(t).st = "sent"  BY DEF CloseBy, Request
    <2>3. \A r \in net' : r.kind = "close" => Ended(f) /\ r.st = "sent"
      BY <1>2, <1>13, <2>1, <2>2 DEF ReadTo, Ended
    <2>4. f.phase # "summary"  BY <1>2 DEF ReadTo, Offered
    <2> QED  BY <1>3, <1>5, <2>3, <2>4, ClosingStarts
  <1> QED
    BY <1>1, <1>2, <1>4, <1>8, <1>9, <1>10, <1>11, <1>12, <1>14, <1>15, RestsScores
    DEF seen

(* What was on offer is shown, and before a reload it has no row.          *)
LEMMA ShowScores ==
    ASSUME OnePage, Inv, Scored, NEW t \in Tabs, Show(t)
    PROVE  Scored'
  <1> DEFINE p == page[t]
             f == FreshAnswering(p, p.q)
             seen == Attempted(attempts)
  <1>1. /\ p \in Pages /\ p.phase = "offered" /\ UNCHANGED storeVars
        /\ Becomes(t, f) /\ net' = net \cup {PointerTo(p.q)}
    BY PageTyped DEF Show
  <1>2. /\ f.phase = "answering" /\ f.q = p.q /\ f.active = NoLetter
        /\ f.pending = NoPending /\ f.score = p.score
    BY <1>1 DEF FreshAnswering, Pages
  <1>3. PointerTo(p.q).kind = "pointer"  BY DEF PointerTo, Request
  <1>4. attempts' = attempts /\ session' = session  BY <1>1 DEF storeVars
  <1>5. Carried' \subseteq Carried  BY <1>1, <1>3, <1>4, AsideCarries
  <1>6. /\ Past(p, attempts, Carried) /\ Within(p, seen)
        /\ Closing(p, session, net) /\ FirstIsAll(Carried)
    BY DEF Scored
  <1>7. p.score.total \in Nat /\ Target \in Nat /\ Cardinality(seen) \in Nat
        /\ Cardinality(seen \ {p.q}) \in Nat
        /\ Cardinality(seen \ {p.q}) <= Cardinality(seen)
    BY ScoreTyped, OneMore
  <1> HIDE DEF p, f, seen
  <1>8. AtItem(f) /\ ~Solved(f) /\ ~AtItem(p) /\ ~Ended(p) /\ Offered(p)
    BY <1>1, <1>2 DEF AtItem, Solved, Ended, Offered
  <1>9. FirstIsAll(Carried')  BY <1>5, <1>6 DEF FirstIsAll
  <1>10. Past(f, attempts, Carried')  BY <1>2, <1>5, <1>6, <1>8 DEF Past
  <1>11. Within(f, seen)  BY <1>1, <1>2, <1>6, <1>7, <1>8 DEF Within
  <1>12. Closing(f, session, net')
    <2>1. \A r \in net' : r.kind # "close"
      BY <1>1, <1>3, <1>8, NoCloseBefore DEF p
    <2> QED  BY <1>2, <1>6, <1>8, <2>1, ClosingStarts
  <1> QED  BY <1>1, <1>4, <1>9, <1>10, <1>11, <1>12, PageScores DEF seen

LEMMA OnNextScores ==
    ASSUME OnePage, Inv, Answers, Scored, NEW t \in Tabs, OnNext(t)
    PROVE  Scored'
  <1> DEFINE p == page[t]
             f == [p EXCEPT !.phase = "loading", !.pending = NoPending,
                            !.res = NoRes, !.active = NoLetter]
  <1>1. p \in Pages /\ Solved(p) /\ Idle(p) /\ ~Complete(p)
    BY PageTyped DEF OnNext, AdvanceBlocked, Idle
  <1>2. AtItem(p) /\ ~Ended(p)  BY <1>1 DEF AtItem, Solved, Ended
  <1>3. /\ f.phase = "loading" /\ f.persist = p.persist /\ f.score = p.score
    BY <1>1 DEF Pages
  <1>4. Becomes(t, f) /\ UNCHANGED storeVars /\ net' = net
    BY DEF OnNext
  <1>5. p.score.total < Target
    BY <1>1, ScoreTyped DEF Complete, IsAtTarget
  <1> HIDE DEF f
  <1>6. ~AtItem(f) /\ Idle(f)  BY <1>1, <1>3 DEF AtItem, Idle
  <1>7. Carried' \subseteq Carried  BY <1>4, AsideCarries DEF storeVars
  <1>8. Closing(f, session, net')
    <2>1. Closing(p, session, net) /\ \A r \in net : r.kind # "close"
      BY <1>2, NoCloseBefore DEF Scored
    <2> QED  BY <1>2, <1>3, <1>4, <2>1, ClosingStarts
  <1>9. /\ \A s \in Carried : s.q \in Attempted(attempts)
        /\ Cardinality(Attempted(attempts)) <= Target
        /\ Cardinality(Attempted(attempts)) <= p.score.total
    BY <1>1, <1>2, LeavesItem
  <1> QED  BY <1>3, <1>4, <1>5, <1>6, <1>7, <1>8, <1>9, RestsScores DEF Offered

LEMMA CloseScores ==
    ASSUME OnePage, Inv, Answers, Scored, NEW t \in Tabs,
           OnFinish(t) \/ CompletionEffect(t) \/ OnEndSession(t)
    PROVE  Scored'
  <1> DEFINE p == page[t]
  <1>1. p \in Pages /\ AtItem(p) /\ Idle(p)
    BY PageTyped DEF OnFinish, CompletionEffect, OnEndSession, AdvanceBlocked, Idle,
                     AtItem, Solved
  <1>2. UNCHANGED storeVars /\ net' = net \cup {CloseBy(t)}
    BY DEF OnFinish, CompletionEffect, OnEndSession, CloseAndRoute
  <1>3. PICK f \in {[p EXCEPT !.phase = "done", !.closing = TRUE],
                    [p EXCEPT !.phase = "done"]} : Becomes(t, f)
    BY DEF OnFinish, CompletionEffect, OnEndSession, CloseAndRoute
  <1>4. f.phase = "done" /\ f.persist = p.persist /\ f.score = p.score
    BY <1>1 DEF Pages
  <1>5. ~Ended(p)  BY <1>1 DEF AtItem, Ended
  <1>6. ~AtItem(f) /\ Idle(f) /\ Ended(f)  BY <1>1, <1>4 DEF AtItem, Idle, Ended
  <1>7. Carried' \subseteq Carried  BY <1>2, CloseAside DEF storeVars
  <1>8. Closing(f, session, net')  BY <1>2, <1>4, <1>5, <1>6, CloseSent
  <1>9. /\ \A s \in Carried : s.q \in Attempted(attempts)
        /\ Cardinality(Attempted(attempts)) <= Target
    BY <1>1, LeavesItem
  <1> HIDE DEF p
  <1> QED  BY <1>2, <1>3, <1>4, <1>6, <1>7, <1>8, <1>9, RestsScores DEF Offered

-----------------------------------------------------------------------------
(***************************************************************************)
(* The steps that send a row.                                              *)
(***************************************************************************)
LEMMA SendFirsts ==
    ASSUME FirstIsAll(Carried), NEW f, NEW row, NEW stored, NEW now, AtItem(f),
           Carried' \subseteq Carried \cup {row}, row.q = f.q,
           Past(f, stored, Carried'), OwnKey(f, Carried', now),
           Unfirst(f) \/ f.pending # NoPending
    PROVE  FirstIsAll(Carried')
  <1> SUFFICES ASSUME NEW s \in Carried', NEW r \in Carried',
                      s.res = "first_try", r.q = s.q
               PROVE  r.res = "first_try"
    BY DEF FirstIsAll
  <1>1. CASE s.q # f.q
    <2>1. s \in Carried /\ r \in Carried  BY <1>1
    <2> QED  BY <2>1 DEF FirstIsAll
  <1>2. CASE s.q = f.q
    <2>1. ~Unfirst(f)  BY <1>2 DEF Past
    <2>2. Solved(f) /\ f.res = "first_try" /\ f.pending # NoPending
      BY <2>1 DEF Unfirst, AtItem, Solved
    <2>3. r.key = f.pending.key
      BY <1>2, <2>2 DEF Past
    <2> QED  BY <2>2, <2>3 DEF OwnKey
  <1> QED  BY <1>1, <1>2

LEMMA SendScores ==
    ASSUME OnePage, Inv, Scored, NEW t \in Tabs, NEW f, Becomes(t, f),
           UNCHANGED storeVars, AtItem(page[t]), AtItem(f), Answers',
           NEW row, Carried' \subseteq Carried \cup {row}, row.q = f.q,
           \A r \in net' : r.kind = "close" => r \in net,
           Unfirst(f) \/ f.pending # NoPending,
           Past(f, attempts, Carried'), Within(f, Attempted(attempts))
    PROVE  Scored'
  <1>1. attempts' = attempts /\ session' = session  BY DEF storeVars
  <1>2. page'[t] = f
    <2>1. page' = [page EXCEPT ![t] = f] /\ page \in [Tabs -> Pages]
      BY DEF Becomes, Inv, TypeOK
    <2> QED  BY <2>1
  <1>3. OwnKey(f, Carried', clock')
    <2>1. OwnKey(page'[t], Carried', clock')  BY DEF Answers, OwnKey
    <2> QED  BY <1>2, <2>1
  <1>4. FirstIsAll(Carried')  BY <1>3, SendFirsts DEF Scored
  <1>5. Closing(f, session, net')
    <2>1. ~Ended(page[t]) /\ f.phase # "summary"  BY DEF AtItem, Ended
    <2>2. Closing(page[t], session, net) /\ \A r \in net : r.kind # "close"
      BY <2>1, NoCloseBefore DEF Scored
    <2> QED  BY <2>1, <2>2, ClosingStarts
  <1> QED  BY <1>1, <1>4, <1>5, PageScores

LEMMA OnSubmitScores ==
    ASSUME OnePage, Inv, Answers, Scored, NEW t \in Tabs, OnSubmit(t)
    PROVE  Scored'
  <1> DEFINE p == page[t]
             seen == Attempted(attempts)
  <1>1. p \in Pages /\ p.phase = "answering"  BY PageTyped DEF OnSubmit
  <1>2. PICK letter \in Letters \ {p.active} :
               PersistAnswer(t, Submitted(p, letter),
                   [key |-> ActionKey(p), letter |-> letter,
                    first |-> p.active = NoLetter, prior |-> p.active # NoLetter],
                   {PointerTo(p.q)})
    BY DEF OnSubmit
  <1> DEFINE sub == Submitted(p, letter)
             res == ResolutionOf(letter, p.active # NoLetter)
             pending == [key |-> ActionKey(p), letter |-> letter,
                         first |-> p.active = NoLetter, prior |-> p.active # NoLetter]
             f == [sub EXCEPT !.pending = pending, !.persist = "pending"]
             row == NewRow(sub.q, pending.key, pending.letter,
                           ResolutionOf(pending.letter, pending.prior))
  <1>3. /\ Becomes(t, f) /\ UNCHANGED storeVars
        /\ net' = net \cup {Request("attempt", t, row)} \cup {PointerTo(p.q)}
    BY <1>2 DEF PersistAnswer
  <1>4. sub \in Pages /\ sub.q = p.q
    BY <1>1, SubmittedOK, PageTyped DEF PageOK
  <1>5. /\ f.phase = sub.phase /\ f.q = p.q /\ f.active = sub.active /\ f.res = sub.res
        /\ f.score = sub.score /\ f.pending = pending
    BY <1>4 DEF Pages
  <1>6. /\ ResolutionOf(pending.letter, pending.prior) = res
        /\ row.q = p.q /\ row.res = res /\ row.key = pending.key
    BY <1>4 DEF NewRow
  <1>7. /\ Request("attempt", t, row).body = row /\ Request("attempt", t, row).kind # "close"
        /\ PointerTo(p.q).kind = "pointer"
    BY DEF Request, PointerTo
  <1>8. pending # NoPending  BY LetterAssumption DEF NoPending
  <1>9. Past(p, attempts, Carried) /\ Within(p, seen)
    BY DEF Scored
  <1>10. /\ p.score.total \in Nat /\ Cardinality(seen \ {p.q}) \in Nat
         /\ Target \in Nat
    BY ScoreTyped, OneMore
  <1>11. Answers'  BY OnSubmitAnswers
  <1>12. AtItem(p) /\ Unfirst(p) /\ ~Solved(p)  BY <1>1 DEF AtItem, Unfirst, Solved
  <1> HIDE DEF f, row, pending
  <1>13. Carried' \subseteq Carried \cup {row}
    BY <1>3, <1>7 DEF Carried, storeVars
  <1>14. \A r \in net' : r.kind = "close" => r \in net  BY <1>3, <1>7
  <1>15. \A s \in Carried' : s.q \in seen \/ s.q = p.q
    BY <1>6, <1>9, <1>13 DEF Past
  <1>16. Cardinality(seen \ {p.q}) <= p.score.total /\ p.score.total < Target
         /\ Cardinality(seen) <= Target
    BY <1>1, <1>9, <1>10, <1>12 DEF Within
  <1>17. CASE letter # Right
    <2>1. sub.phase = "answering" /\ sub.active = letter /\ sub.score = p.score
      BY <1>1, <1>17 DEF Submitted, Pages
    <2>2. res = NoRes /\ NoRes # "first_try" /\ letter # NoLetter
      BY <1>17, LetterAssumption DEF ResolutionOf, NoRes
    <2> HIDE DEF sub, res, p, seen
    <2>3. AtItem(f) /\ Unfirst(f) /\ ~Solved(f)  BY <1>5, <2>1 DEF AtItem, Unfirst, Solved
    <2>4. \A s \in Carried' : s.q = p.q => s.res # "first_try"
      BY <1>6, <1>9, <1>12, <1>13, <2>2 DEF Past
    <2>5. ResolutionOf(f.pending.letter, f.pending.prior) # "first_try"
      BY <1>5, <1>6, <2>2
    <2>6. Past(f, attempts, Carried')
      BY <1>5, <1>15, <2>1, <2>2, <2>3, <2>4, <2>5 DEF Past, seen, Offered, Unanswered
    <2>7. Within(f, seen)  BY <1>5, <1>10, <1>16, <2>1, <2>3 DEF Within
    <2> QED
      BY <1>3, <1>5, <1>6, <1>11, <1>12, <1>13, <1>14, <2>3, <2>6, <2>7, SendScores
      DEF p, seen
  <1>18. CASE letter = Right
    <2>1. /\ sub.phase = "solved" /\ sub.res = res
          /\ sub.score = [correct |-> p.score.correct + (IF res = "first_try" THEN 1 ELSE 0),
                          total |-> p.score.total + 1]
      BY <1>1, <1>18 DEF Submitted, Pages
    <2>2. sub.score.total = p.score.total + 1  BY <2>1
    <2>3. res = IF p.active = NoLetter THEN "first_try" ELSE "coached"
      BY <1>18 DEF ResolutionOf
    <2> HIDE DEF sub, res, p, seen
    <2>4. AtItem(f) /\ Solved(f) /\ (Unfirst(f) <=> p.active # NoLetter)
      BY <1>5, <2>1, <2>3 DEF AtItem, Unfirst, Solved
    <2>5. p.active = NoLetter => \A s \in Carried : s.q # p.q
      BY <1>1, <1>9 DEF Past, Offered, Unanswered
    <2>6. ASSUME p.active # NoLetter
          PROVE  /\ \A s \in Carried' : s.q = p.q => s.res # "first_try"
                 /\ ResolutionOf(f.pending.letter, f.pending.prior) # "first_try"
      BY <1>5, <1>6, <1>9, <1>12, <1>13, <2>3, <2>6 DEF Past
    <2>7. ASSUME p.active = NoLetter
          PROVE  \A s \in Carried' : s.q = p.q => s.key = f.pending.key
      BY <1>5, <1>6, <1>13, <2>5, <2>7
    <2>8. f.res = "first_try" <=> p.active = NoLetter  BY <1>5, <2>1, <2>3
    <2>9. f.phase = "solved"  BY <1>5, <2>1
    <2>10. Past(f, attempts, Carried')
      BY <1>5, <1>15, <2>4, <2>6, <2>7, <2>8, <2>9 DEF Past, seen, Offered, Unanswered
    <2>11. Within(f, seen)
      BY <1>5, <1>10, <1>16, <2>2, <2>4, <2>9 DEF Within
    <2> QED
      BY <1>3, <1>5, <1>6, <1>8, <1>11, <1>12, <1>13, <1>14, <2>4, <2>10, <2>11,
         SendScores
      DEF p, seen
  <1> QED  BY <1>17, <1>18

LEMMA OnRetryPersistScores ==
    ASSUME OnePage, Inv, Answers, Scored, NEW t \in Tabs, OnRetryPersist(t)
    PROVE  Scored'
  <1> DEFINE p == page[t]
             pending == p.pending
             f == [p EXCEPT !.pending = pending, !.persist = "pending"]
             row == NewRow(p.q, pending.key, pending.letter,
                           ResolutionOf(pending.letter, pending.prior))
  <1>1. p \in Pages /\ clock \in Nat  BY PageTyped
  <1>2. /\ p.persist = "error" /\ pending # NoPending
        /\ PersistAnswer(t, p, [pending EXCEPT !.key = ActionKey(p)], {})
    BY DEF OnRetryPersist
  <1>3. [pending EXCEPT !.key = ActionKey(p)] = pending
    BY <1>1, <1>2 DEF ActionKey, Pages
  <1>4. PersistAnswer(t, p, pending, {})  BY <1>2, <1>3
  <1>5. /\ Becomes(t, f) /\ UNCHANGED storeVars
        /\ net' = net \cup {Request("attempt", t, row)}
    BY <1>4 DEF PersistAnswer
  <1>6. /\ f.phase = p.phase /\ f.q = p.q /\ f.active = p.active /\ f.res = p.res
        /\ f.score = p.score /\ f.pending = pending /\ f.closing = p.closing
        /\ f.failed = p.failed
    BY <1>1 DEF Pages
  <1>7. /\ row.q = p.q /\ row.key = pending.key
        /\ row.res = ResolutionOf(pending.letter, pending.prior)
    BY DEF NewRow
  <1>8. Request("attempt", t, row).body = row /\ Request("attempt", t, row).kind # "close"
    BY DEF Request
  <1>9. /\ Past(p, attempts, Carried) /\ Within(p, Attempted(attempts))
        /\ Shape(p)
    BY DEF Scored, Answers
  <1>10. AtItem(p)  BY <1>2, <1>9 DEF Past, Idle
  <1>11. Answers'  BY OnRetryPersistAnswers
  <1> HIDE DEF f, row
  <1>12. Carried' \subseteq Carried \cup {row}
    BY <1>5, <1>8 DEF Carried, storeVars
  <1>13. \A r \in net' : r.kind = "close" => r \in net  BY <1>5, <1>8
  <1> HIDE DEF p, pending
  <1>14. AtItem(f) /\ (Unfirst(f) <=> Unfirst(p)) /\ (Solved(f) <=> Solved(p))
    BY <1>6, <1>10 DEF AtItem, Unfirst, Solved
  <1>15. p.phase = "answering" => p.active # NoLetter
    BY <1>2, <1>9 DEF Shape, pending
  <1>16. \A s \in Carried' : s.q \in Attempted(attempts) \/ s.q = p.q
    BY <1>7, <1>9, <1>12 DEF Past
  <1>17. ASSUME Unfirst(p)
         PROVE  /\ \A s \in Carried' : s.q = p.q => s.res # "first_try"
                /\ ResolutionOf(f.pending.letter, f.pending.prior) # "first_try"
    <2>1. ResolutionOf(pending.letter, pending.prior) # "first_try"
      BY <1>2, <1>9, <1>17 DEF Past, pending
    <2> QED  BY <1>6, <1>7, <1>9, <1>12, <1>17, <2>1 DEF Past
  <1>18. ASSUME Solved(p), p.res = "first_try"
         PROVE  \A s \in Carried' : s.q = p.q => s.key = f.pending.key
    <2>1. \A s \in Carried : s.q = p.q => s.key = pending.key
      BY <1>2, <1>9, <1>18 DEF Past, pending
    <2> QED  BY <1>6, <1>7, <1>12, <2>1
  <1>19. Past(f, attempts, Carried')
    <2>1. f.phase \in {"answering", "solved"}  BY <1>14 DEF AtItem
    <2> QED  BY <1>6, <1>14, <1>15, <1>16, <1>17, <1>18, <2>1 DEF Past, Offered, Unanswered
  <1>20. Within(f, Attempted(attempts))
    <2>1. f.phase \in {"answering", "solved"} /\ AtItem(p)  BY <1>10, <1>14 DEF AtItem
    <2> QED  BY <1>6, <1>9, <1>14, <2>1 DEF Within
  <1> QED
    BY <1>2, <1>5, <1>6, <1>7, <1>10, <1>11, <1>12, <1>13, <1>14, <1>19, <1>20,
       SendScores
    DEF p

LEMMA OnEscapeScores ==
    ASSUME OnePage, Inv, Answers, Scored, NEW t \in Tabs, OnEscape(t)
    PROVE  Scored'
  <1> DEFINE p == page[t]
             row == NewRow(p.q, clock + 1, p.active, "walked_through")
             sent == Request("escape", t, row)
  <1>1. /\ net' = net \cup {sent} /\ page' = page /\ UNCHANGED storeVars
        /\ p.phase = "answering" /\ p.active # NoLetter
    BY DEF OnEscape
  <1>2. Becomes(t, p)  BY <1>1 DEF Becomes, Inv, TypeOK
  <1>3. sent.kind = "escape" /\ sent.body = row /\ row.q = p.q /\ row.res = "walked_through"
    BY DEF Request, NewRow
  <1> HIDE DEF row, sent
  <1>4. Carried' \subseteq Carried \cup {row}  BY <1>1, <1>3 DEF Carried, storeVars
  <1>5. \A r \in net' : r.kind = "close" => r \in net  BY <1>1, <1>3
  <1>6. AtItem(p) /\ Unfirst(p) /\ ~Solved(p)  BY <1>1 DEF AtItem, Unfirst, Solved
  <1>7. Past(p, attempts, Carried) /\ Within(p, Attempted(attempts))
    BY DEF Scored
  <1>8. Past(p, attempts, Carried')
    <2>1. \A s \in Carried' : s.q \in Attempted(attempts) \/ s.q = p.q
      BY <1>3, <1>4, <1>7 DEF Past
    <2>2. \A s \in Carried' : s.q = p.q => s.res # "first_try"
      BY <1>3, <1>4, <1>6, <1>7 DEF Past
    <2> HIDE DEF p
    <2> QED  BY <1>1, <1>6, <1>7, <2>1, <2>2 DEF Past, Offered, Unanswered
  <1>9. Answers'  BY OnEscapeAnswers
  <1> HIDE DEF p
  <1> QED  BY <1>1, <1>2, <1>3, <1>4, <1>5, <1>6, <1>7, <1>8, <1>9, SendScores DEF p

-----------------------------------------------------------------------------
(***************************************************************************)
(* What the page hears.                                                    *)
(***************************************************************************)
LEMMA AttemptHeardScores ==
    ASSUME OnePage, Inv, Answers, Scored, NEW r \in net, AttemptHeard(r)
    PROVE  Scored'
  <1> DEFINE t == r.tab
             p == page[t]
             review == Request("review", t, Append(card, r.body))
  <1>1. /\ t \in Tabs /\ UNCHANGED storeVars /\ r.kind = "attempt"
        /\ net' \subseteq net \cup {review}
    BY Heeds DEF AttemptHeard, Hears, Owes, ReviewOf
  <1>2. PICK f \in {p, Settled(p)} : Becomes(t, f)
    BY DEF AttemptHeard
  <1>3. p \in Pages  BY <1>1, PageTyped
  <1>4. /\ f.phase = p.phase /\ f.q = p.q /\ f.active = p.active /\ f.res = p.res
        /\ f.score = p.score /\ f.closing = p.closing /\ f.failed = p.failed
        /\ \/ f.pending = p.pending /\ f.persist = p.persist
           \/ f.pending = NoPending /\ f.persist = "idle"
    <2> HIDE DEF p
    <2>1. CASE f = p  BY <2>1
    <2>2. CASE f = Settled(p)  BY <1>3, <2>2 DEF Pages, Settled
    <2> QED  BY <1>2, <2>1, <2>2
  <1>5. ~AtItem(p) => Idle(f)  BY <1>1, <1>4, RestHasStored DEF Idle
  <1>7. review.kind = "review"  BY DEF Request
  <1>8. Carried' \subseteq Carried  BY <1>1, <1>7, AsideCarries DEF storeVars
  <1>9. \A x \in net' : x.kind = "close" => x \in net  BY <1>1, <1>7
  <1> HIDE DEF p, t
  <1> QED  BY <1>1, <1>2, <1>4, <1>5, <1>8, <1>9, StaysScores DEF p

LEMMA ReviewHeardScores ==
    ASSUME OnePage, Inv, Answers, Scored, NEW r \in net, ReviewHeard(r)
    PROVE  Scored'
  <1> DEFINE t == r.tab
             p == page[t]
             f == Settled(p)
  <1>1. /\ t \in Tabs /\ UNCHANGED storeVars /\ net' = net \ {r} /\ Becomes(t, f)
    BY Heeds DEF ReviewHeard, Hears, Owes
  <1>2. p \in Pages  BY <1>1, PageTyped
  <1>3. /\ f.phase = p.phase /\ f.q = p.q /\ f.active = p.active /\ f.res = p.res
        /\ f.score = p.score /\ f.closing = p.closing /\ f.failed = p.failed
        /\ f.pending = NoPending /\ f.persist = "idle"
    BY <1>2 DEF Pages, Settled
  <1> HIDE DEF f, p, t
  <1>4. Idle(f)  BY <1>3 DEF Idle
  <1>6. Carried' \subseteq Carried  BY <1>1, AsideCarries DEF storeVars
  <1> QED  BY <1>1, <1>3, <1>4, <1>6, StaysScores DEF p

LEMMA PersistFailedScores ==
    ASSUME OnePage, Inv, Answers, Scored, NEW r \in net, PersistFailed(r)
    PROVE  Scored'
  <1> DEFINE t == r.tab
             p == page[t]
             f == [p EXCEPT !.persist = "error"]
  <1>1. /\ t \in Tabs /\ UNCHANGED storeVars /\ net' = net \ {r} /\ Becomes(t, f)
        /\ Owes(r)
    BY Heeds DEF PersistFailed, Hears, Owes
  <1>2. p \in Pages  BY <1>1, PageTyped
  <1>3. /\ f.phase = p.phase /\ f.q = p.q /\ f.active = p.active /\ f.res = p.res
        /\ f.score = p.score /\ f.closing = p.closing /\ f.failed = p.failed
        /\ f.pending = p.pending
    BY <1>2 DEF Pages
  <1>4. p.persist = "pending"  BY <1>1 DEF Answers, OwedFor
  <1>5. AtItem(p)  BY <1>1, <1>4, RestHasStored DEF Idle
  <1> HIDE DEF f, p, t
  <1>7. Carried' \subseteq Carried  BY <1>1, AsideCarries DEF storeVars
  <1> QED  BY <1>1, <1>3, <1>5, <1>7, StaysScores DEF p

(* The page shows an error.                                                *)
LEMMA FailedScores ==
    ASSUME OnePage, Inv, Scored, NEW r \in net, EscapeFailed(r) \/ CloseFailed(r)
    PROVE  Scored'
  <1> DEFINE t == r.tab
             p == page[t]
  <1>1. t \in Tabs /\ net' = net \ {r} /\ UNCHANGED storeVars
    BY Heeds DEF EscapeFailed, CloseFailed
  <1>2. PICK f \in {[p EXCEPT !.failed = TRUE],
                    [p EXCEPT !.closing = FALSE, !.failed = TRUE]} : Becomes(t, f)
    BY DEF EscapeFailed, CloseFailed
  <1>3. p \in Pages  BY <1>1, PageTyped
  <1>4. /\ f.phase = p.phase /\ f.q = p.q /\ f.active = p.active /\ f.res = p.res
        /\ f.score = p.score /\ f.pending = p.pending /\ f.persist = p.persist
        /\ f.failed = TRUE
    <2> HIDE DEF p
    <2>1. CASE f = [p EXCEPT !.failed = TRUE]  BY <1>3, <2>1 DEF Pages
    <2>2. CASE f = [p EXCEPT !.closing = FALSE, !.failed = TRUE]
      BY <1>3, <2>2 DEF Pages
    <2> QED  BY <1>2, <2>1, <2>2
  <1>5. ~AtItem(p) => Idle(f)  BY <1>1, <1>4, RestHasStored DEF Idle
  <1>7. Carried' \subseteq Carried  BY <1>1, AsideCarries DEF storeVars
  <1> HIDE DEF p, t
  <1> QED  BY <1>1, <1>2, <1>4, <1>5, <1>7, StaysScores DEF p

LEMMA CloseHeardScores ==
    ASSUME OnePage, Inv, Scored, NEW r \in net, CloseHeard(r)
    PROVE  Scored'
  <1> DEFINE t == r.tab
             p == page[t]
             f == [p EXCEPT !.phase = "summary"]
  <1>1. /\ t \in Tabs /\ net' = net \ {r} /\ UNCHANGED storeVars /\ Becomes(t, f)
        /\ r.kind = "close" /\ r.st = "ok"
    BY Heeds DEF CloseHeard, Hears
  <1>2. p \in Pages /\ p.score.correct \in Nat  BY <1>1, ScoreTyped
  <1>3. f.phase = "summary" /\ f.score = p.score /\ f.persist = p.persist
    BY <1>2 DEF Pages
  <1>4. Closing(p, session, net)  BY <1>1 DEF Scored
  <1>5. Ended(p)  BY <1>1, <1>4 DEF Closing
  <1>6. ~AtItem(p)  BY <1>5 DEF AtItem, Ended
  <1>7. /\ \A s \in Carried : s.q \in Attempted(attempts)
        /\ Cardinality(Attempted(attempts)) <= Target /\ Idle(p)
    BY <1>1, <1>6, RestHasStored
  <1> HIDE DEF f, p, t
  <1>8. ~AtItem(f) /\ Idle(f) /\ Ended(f)  BY <1>3, <1>7 DEF AtItem, Idle, Ended
  <1>9. Closing(f, session, net')  BY <1>1, <1>3, <1>4, <1>8 DEF Closing
  <1>10. Carried' \subseteq Carried  BY <1>1, AsideCarries DEF storeVars
  <1> QED  BY <1>1, <1>2, <1>3, <1>7, <1>8, <1>9, <1>10, RestsScores DEF Offered

(* The escape resolves the item.                                           *)
LEMMA EscapeHeardScores ==
    ASSUME OnePage, Inv, Answers, Scored, NEW r \in net, EscapeHeard(r)
    PROVE  Scored'
  <1> DEFINE t == r.tab
             p == page[t]
             f == EscapeTaken(p)
             seen == Attempted(attempts)
  <1>1. /\ t \in Tabs /\ net' = net \ {r} /\ UNCHANGED storeVars /\ Becomes(t, f)
    BY Heeds DEF EscapeHeard
  <1>2. p \in Pages  BY <1>1, PageTyped
  <1>3. Carried' \subseteq Carried  BY <1>1, AsideCarries DEF storeVars
  <1>4. CASE f = p
    <2>1. ~AtItem(p) => Idle(p)  BY <1>1, RestHasStored
    <2> HIDE DEF f, t
    <2>2. Becomes(t, p)  BY <1>1, <1>4
    <2> QED  BY <1>1, <1>3, <2>1, <2>2, StaysScores
  <1>5. CASE p.phase = "answering" /\ p.active # NoLetter
    <2>1. f = [p EXCEPT !.phase = "solved", !.active = NoLetter,
                        !.res = "walked_through", !.score.total = @ + 1]
      BY <1>5 DEF EscapeTaken
    <2>2. /\ p.score \in Scores /\ p.score.correct \in Nat /\ p.score.total \in Nat
          /\ Cardinality(seen \ {p.q}) \in Nat /\ Target \in Nat
      BY <1>1, ScoreTyped, OneMore
    <2>3. /\ f.phase = "solved" /\ f.q = p.q /\ f.res = "walked_through"
          /\ f.pending = p.pending /\ f.persist = p.persist
          /\ f.score = [p.score EXCEPT !.total = @ + 1]
      BY <1>2, <2>1 DEF Pages
    <2>4. f.score.correct = p.score.correct /\ f.score.total = p.score.total + 1
      BY <2>2, <2>3 DEF Scores
    <2>5. /\ Past(p, attempts, Carried) /\ Within(p, seen)
          /\ Closing(p, session, net) /\ FirstIsAll(Carried)
      BY <1>1 DEF Scored
    <2> HIDE DEF f, p, t, seen
    <2>6. /\ AtItem(f) /\ Unfirst(f) /\ Solved(f) /\ ~Ended(p)
          /\ AtItem(p) /\ Unfirst(p) /\ ~Solved(p)
      BY <1>5, <2>3 DEF AtItem, Unfirst, Solved, Ended
    <2>7. Past(f, attempts, Carried')
      <3>1. ~(Solved(f) /\ f.res = "first_try") /\ f.phase = "solved"  BY <2>3
      <3> QED  BY <1>3, <2>3, <2>5, <2>6, <3>1 DEF Past, Offered, Unanswered
    <2>8. Within(f, seen)
      <3>1. /\ Cardinality(seen \ {p.q}) <= p.score.total /\ p.score.total < Target
            /\ Cardinality(seen) <= Target
        BY <1>5, <2>2, <2>5, <2>6 DEF Within
      <3> QED  BY <2>2, <2>3, <2>4, <2>6, <3>1 DEF Within
    <2>9. Closing(f, session, net')
      <3>1. \A s \in net' : s.kind # "close"  BY <1>1, <2>5, <2>6 DEF Closing
      <3> QED  BY <2>3, <2>5, <2>6, <3>1, ClosingStarts
    <2>10. FirstIsAll(Carried')  BY <1>3, <2>5 DEF FirstIsAll
    <2> QED  BY <1>1, <2>7, <2>8, <2>9, <2>10, PageScores DEF seen, storeVars
  <1> QED  BY <1>4, <1>5 DEF EscapeTaken

-----------------------------------------------------------------------------
(***************************************************************************)
(* The server's steps.                                                     *)
(***************************************************************************)
LEMMA ServerScores ==
    ASSUME Inv, Scored, page' = page, attempts \subseteq attempts',
           attempts' \subseteq Carried, IsFiniteSet(attempts'), Carried' \subseteq Carried,
           \A t \in Tabs : Closing(page[t], session', net')
    PROVE  Scored'
  <1>1. FirstIsAll(Carried)'
    <2>1. FirstIsAll(Carried')  BY DEF Scored, FirstIsAll
    <2> QED  BY <2>1 DEF FirstIsAll
  <1>2. ASSUME NEW t \in Tabs
        PROVE  /\ Past(page[t], attempts', Carried')
               /\ Within(page[t], Attempted(attempts'))
    <2> DEFINE p == page[t]
               seen == Attempted(attempts)
               seen1 == Attempted(attempts')
    <2>1. Past(p, attempts, Carried) /\ Within(p, seen)
      BY DEF Scored
    <2>2. p.score.total \in Nat /\ Target \in Nat /\ IsFiniteSet(seen)
      BY ScoreTyped
    <2>3. IsFiniteSet(seen1) /\ Cardinality(seen1) \in Nat
      BY SeenFinite, FS_CardinalityType
    <2>4. seen \subseteq seen1  BY DEF Attempted
    <2>5. \A q \in seen1 : q \in seen \/ (AtItem(p) /\ q = p.q)
      BY <2>1 DEF Past, Attempted
    <2>6. Past(p, attempts', Carried')
      <3>1. \A s \in Carried' : s.q \in seen1 \/ (AtItem(p) /\ s.q = p.q)
        BY <2>1, <2>4 DEF Past
      <3> HIDE DEF p, seen
      <3> QED  BY <2>1, <3>1 DEF Past
    <2> HIDE DEF p, seen, seen1
    <2>7. Within(p, seen1)
      <3>1. CASE AtItem(p)
        <4>1. seen1 \ {p.q} = seen \ {p.q}  BY <2>4, <2>5
        <4>2. /\ Cardinality(seen1) <= Cardinality(seen1 \ {p.q}) + 1
              /\ Cardinality(seen1 \ {p.q}) \in Nat
          BY <2>3, OneMore
        <4>3. Cardinality(seen1) <= Target
          <5>1. CASE Solved(p)
            <6>1. /\ Cardinality(seen1 \ {p.q}) + 1 <= p.score.total
                  /\ p.score.total <= Target
              BY <2>1, <3>1, <4>1, <5>1 DEF Within
            <6> QED  BY <2>2, <2>3, <4>2, <6>1
          <5>2. CASE ~Solved(p)
            <6>1. p.phase = "answering"  BY <3>1, <5>2 DEF AtItem, Solved
            <6>2. /\ Cardinality(seen1 \ {p.q}) <= p.score.total
                  /\ p.score.total < Target
              BY <2>1, <2>2, <3>1, <4>1, <4>2, <5>2, <6>1 DEF Within
            <6> QED  BY <2>2, <2>3, <4>2, <6>2
          <5> QED  BY <5>1, <5>2
        <4> QED  BY <2>1, <3>1, <4>1, <4>3 DEF Within, AtItem
      <3>2. CASE ~AtItem(p)
        <4>1. seen1 = seen  BY <2>4, <2>5, <3>2
        <4> QED  BY <2>1, <4>1
      <3> QED  BY <3>1, <3>2
    <2> QED  BY <2>6, <2>7 DEF p, seen1
  <1>3. ASSUME NEW t \in Tabs  PROVE Past(page[t], attempts, Carried)'
    <2>1. Past(page'[t], attempts', Carried')  BY <1>2
    <2> QED  BY <2>1 DEF Past
  <1>4. ASSUME NEW t \in Tabs  PROVE Within(page[t], Attempted(attempts))'
    <2>1. Within(page'[t], Attempted(attempts'))  BY <1>2
    <2> QED  BY <2>1 DEF Within, Attempted
  <1>5. ASSUME NEW t \in Tabs  PROVE Closing(page[t], session, net)'
    <2>1. Closing(page'[t], session', net')  OBVIOUS
    <2> QED  BY <2>1 DEF Closing
  <1> QED  BY <1>1, <1>3, <1>4, <1>5 DEF Scored

(* A step of the server that leaves the rows, and has no new close to tell *)
(* the page of.                                                            *)
LEMMA QuietScores ==
    ASSUME Inv, Scored, NEW r \in net, NEW s, net' \subseteq (net \ {r}) \cup {s},
           UNCHANGED <<attempts, page>>, s.kind = r.kind,
           s.kind \in {"attempt", "escape"} => s.body = r.body,
           s.kind = "close" => s.st = "err",
           session'.open = session.open, session'.score = session.score
    PROVE  Scored'
  <1>1. Carried' \subseteq Carried  BY DEF Carried
  <1>2. IsFiniteSet(attempts') /\ attempts' \subseteq Carried
    BY DEF Scored, Inv, Carried
  <1>3. ASSUME NEW t \in Tabs  PROVE Closing(page[t], session', net')
    <2>1. Closing(page[t], session, net)  BY DEF Scored
    <2>2. \A x \in net' : x.kind = "close"
                            => r.kind = "close" \/ x \in net
      OBVIOUS
    <2>3. \A x \in net' : x.kind = "close" /\ x.st \in {"tallied", "ok"} => x \in net
      OBVIOUS
    <2> QED  BY <2>1, <2>2, <2>3 DEF Closing
  <1> QED  BY <1>1, <1>2, <1>3, ServerScores

LEMMA ServeAttemptScores ==
    ASSUME Inv, Scored, NEW r \in net, ServeAttempt(r)
    PROVE  Scored'
  <1>1. r \in Requests /\ r.kind \in {"attempt", "escape"} /\ r.body \in Rows
    BY BodyTyped DEF ServeAttempt, Inv, TypeOK, AttemptRequests
  <1>2. PICK row : row = StoredFor(r.body)  OBVIOUS
  <1>3. /\ attempts \subseteq attempts' /\ attempts' \subseteq attempts \cup {r.body}
        /\ page' = page /\ session' = session
    BY DEF ServeAttempt, Insert
  <1>4. row \in attempts' /\ IsFiniteSet(attempts')
    BY <1>1, <1>2, StoredIsStored DEF ServeAttempt, Inv, TypeOK, StoreTypeOK
  <1>5. PICK s : /\ net' \subseteq (net \ {r}) \cup {s}
                 /\ s.kind = r.kind /\ s.body \in {row, r.body}
    BY <1>1, <1>2, AnswerReplaces DEF ServeAttempt
  <1>6. attempts' \subseteq Carried /\ s.body \in Carried
    BY <1>1, <1>3, <1>4, <1>5 DEF Carried
  <1>7. Carried' \subseteq Carried  BY <1>5, <1>6 DEF Carried
  <1>8. ASSUME NEW t \in Tabs  PROVE Closing(page[t], session', net')
    <2>1. Closing(page[t], session, net)  BY DEF Scored
    <2>2. \A x \in net' : x.kind = "close" => x \in net  BY <1>1, <1>5
    <2> QED  BY <1>3, <2>1, <2>2 DEF Closing
  <1> QED  BY <1>3, <1>4, <1>6, <1>7, <1>8, ServerScores

(* The server counts what a page shows that owes nothing.                  *)
LEMMA TallyCovers ==
    ASSUME Inv, Answers, Lasts, NEW t \in Tabs, Idle(page[t])
    PROVE  page[t].score.correct <= CommitFirstTally(attempts).correct
  <1>1. page[t].score.correct <= Cardinality(Lasting(attempts, Carried))
    BY LeavesLasts
  <1>2. Cardinality(Lasting(attempts, Carried)) <= CommitFirstTally(attempts).correct
    <2>1. /\ attempts \in SUBSET Rows /\ IsFiniteSet(attempts) /\ clock \in Nat
          /\ attempts \subseteq Carried /\ Stamped(attempts, clock)
      BY DEF Inv, TypeOK, StoreTypeOK, Carried, Lasts, Stamped
    <2> QED  BY <2>1, LastingCount
  <1>3. CommitFirstTally(attempts).correct \in Nat
    BY TallyTyped DEF Inv, Scores
  <1> QED  BY <1>1, <1>2, <1>3, LastsTyped

LEMMA TallyForCloseScores ==
    ASSUME Inv, Answers, Lasts, Scored, NEW r \in net, TallyForClose(r)
    PROVE  Scored'
  <1> DEFINE tally == CommitFirstTally(attempts)
             tallied == [r EXCEPT !.st = "tallied", !.body = tally]
             err == [r EXCEPT !.st = "err"]
  <1>1. r \in Requests /\ r.kind = "close"  BY DEF TallyForClose, Inv, TypeOK
  <1>2. /\ tallied.kind = "close" /\ tallied.st = "tallied" /\ tallied.body = tally
        /\ err.kind = "close" /\ err.st = "err"
    BY <1>1 DEF Requests
  <1>3. /\ \/ net' = (net \ {r}) \cup {tallied}
           \/ net' \subseteq (net \ {r}) \cup {err}
        /\ attempts' = attempts /\ page' = page /\ session' = session
    BY DEF TallyForClose, storeVars
  <1> HIDE DEF tallied, err, tally
  <1>4. CASE net' \subseteq (net \ {r}) \cup {err}
    BY <1>1, <1>2, <1>3, <1>4, QuietScores
  <1>5. CASE net' = (net \ {r}) \cup {tallied}
    <2>1. Carried' \subseteq Carried  BY <1>2, <1>3, <1>5, AsideCarries
    <2>2. IsFiniteSet(attempts') /\ attempts' \subseteq Carried
      BY <1>3 DEF Scored, Inv, Carried
    <2>3. ASSUME NEW t \in Tabs  PROVE Closing(page[t], session', net')
      <3>1. Closing(page[t], session, net)  BY DEF Scored
      <3>2. Ended(page[t])  BY <1>1, <3>1 DEF Closing
      <3>3. ~AtItem(page[t])  BY <3>2 DEF AtItem, Ended
      <3>4. page[t].score.correct <= tally.correct
        BY <3>3, RestHasStored, TallyCovers DEF tally
      <3>5. \A x \in net' : x = tallied \/ x \in net  BY <1>5
      <3>6. \A x \in net' : x.kind = "close" /\ x.st = "ok" => x \in net
        BY <1>2, <3>5
      <3>7. \A x \in net' : x.kind = "close" /\ x.st \in {"tallied", "ok"}
                              => page[t].score.correct <= x.body.correct
        BY <1>2, <3>1, <3>4, <3>5 DEF Closing
      <3> QED  BY <1>3, <3>1, <3>2, <3>6, <3>7 DEF Closing
    <2> QED  BY <1>3, <2>1, <2>2, <2>3, ServerScores
  <1> QED  BY <1>3, <1>4, <1>5

LEMMA ServeCloseScores ==
    ASSUME Inv, Scored, NEW r \in net, ServeClose(r)
    PROVE  Scored'
  <1> DEFINE ok == [r EXCEPT !.st = "ok", !.body = r.body]
             err == [r EXCEPT !.st = "err"]
  <1>1. r \in Requests /\ r.kind = "close" /\ r.st = "tallied"
    BY DEF ServeClose, Inv, TypeOK
  <1>2. /\ ok.kind = "close" /\ ok.st = "ok" /\ ok.body = r.body
        /\ err.kind = "close" /\ err.st = "err"
    BY <1>1 DEF Requests
  <1>3. /\ net' \subseteq (net \ {r}) \cup {ok, err}
        /\ attempts' = attempts /\ page' = page
    BY DEF ServeClose, Answer
  <1>4. session'.open = FALSE /\ session'.score = r.body
    BY DEF ServeClose, PatchClose
  <1> HIDE DEF ok, err
  <1>5. Carried' \subseteq Carried  BY <1>2, <1>3, AsideCarries
  <1>6. IsFiniteSet(attempts') /\ attempts' \subseteq Carried
    BY <1>3 DEF Scored, Inv, Carried
  <1>7. ASSUME NEW t \in Tabs  PROVE Closing(page[t], session', net')
    <2>1. Closing(page[t], session, net)  BY DEF Scored
    <2>2. Ended(page[t]) /\ page[t].score.correct <= r.body.correct
      BY <1>1, <2>1 DEF Closing
    <2>3. \A x \in net' : x.kind = "close" /\ x.st \in {"tallied", "ok"}
                            => page[t].score.correct <= x.body.correct
      BY <1>2, <1>3, <2>1, <2>2 DEF Closing
    <2>4. ~session'.open  BY <1>4
    <2> QED  BY <1>4, <2>2, <2>3, <2>4 DEF Closing
  <1> QED  BY <1>3, <1>5, <1>6, <1>7, ServerScores

LEMMA ServedScores ==
    ASSUME Inv, Answers, Lasts, Scored, NEW r \in net, Served(r) \/ RequestFails(r)
    PROVE  Scored'
  <1>1. r \in Requests  BY DEF Inv, TypeOK
  <1>2. CASE ServeAttempt(r)  BY <1>2, ServeAttemptScores
  <1>3. CASE ServeReview(r)
    <2>1. PICK s : net' \subseteq (net \ {r}) \cup {s} /\ s.kind = r.kind
      BY <1>1, <1>3, AnswerReplaces DEF ServeReview
    <2> QED  BY <1>3, <2>1, QuietScores DEF ServeReview
  <1>4. CASE ServePointer(r)
    <2>1. net' \subseteq (net \ {r}) \cup {r} /\ r.kind = "pointer"
          /\ UNCHANGED <<attempts, page>>
      BY <1>4 DEF ServePointer
    <2>2. session'.open = session.open /\ session'.score = session.score
      <3>1. session \in [open : BOOLEAN, score : Scores,
                         pointer : Questions \cup {NoQuestion}]
        BY DEF Inv, TypeOK, StoreTypeOK
      <3>2. session' \in {session, [session EXCEPT !.pointer = r.body]}
        BY <1>4 DEF ServePointer, SetPointer
      <3> QED  BY <3>1, <3>2
    <2> QED  BY <2>1, <2>2, QuietScores
  <1>5. CASE TallyForClose(r)  BY <1>5, TallyForCloseScores
  <1>6. CASE ServeClose(r)  BY <1>6, ServeCloseScores
  <1>7. CASE RequestFails(r)
    <2> DEFINE err == [r EXCEPT !.st = "err"]
    <2>1. err.kind = r.kind /\ err.body = r.body /\ err.st = "err"
      BY <1>1 DEF Requests
    <2>2. /\ net' \subseteq (net \ {r}) \cup {err}
          /\ UNCHANGED <<attempts, page>> /\ session' = session
      BY <1>7 DEF RequestFails, storeVars
    <2> HIDE DEF err
    <2> QED  BY <2>1, <2>2, QuietScores
  <1> QED  BY <1>2, <1>3, <1>4, <1>5, <1>6, <1>7 DEF Served


-----------------------------------------------------------------------------
(***************************************************************************)
(* The theorems.                                                           *)
(***************************************************************************)
LEMMA InitScored == Init => Scored
  <1> SUFFICES ASSUME Init PROVE Scored  OBVIOUS
  <1>1. \A t \in Tabs : page[t] = Mounted  BY DEF Init
  <1>2. net = {} /\ Carried = {} /\ attempts = {} /\ session.open
        /\ Attempted(attempts) = {}
    BY DEF Init, StoreInit, Carried, Attempted
  <1>3. Cardinality({}) = 0 /\ Target \in Nat  BY FS_EmptySet, QuizAssumption
  <1>4. /\ Mounted.phase = "resuming" /\ Mounted.score.correct = 0
        /\ Mounted.pending = NoPending /\ Mounted.persist = "idle"
    BY DEF Mounted, ZeroScore
  <1>5. ~AtItem(Mounted) /\ ~Unfirst(Mounted) /\ ~Solved(Mounted) /\ Idle(Mounted)
    BY <1>4 DEF AtItem, Unfirst, Solved, Idle
  <1>6. Past(Mounted, attempts, Carried)  BY <1>2, <1>4, <1>5 DEF Past
  <1>7. Within(Mounted, Attempted(attempts))
    BY <1>2, <1>3, <1>4, <1>5 DEF Within
  <1>8. Closing(Mounted, session, net)  BY <1>2, <1>4 DEF Closing
  <1> QED  BY <1>1, <1>2, <1>6, <1>7, <1>8 DEF Scored, FirstIsAll

(* Only a reload counts one.                                               *)
LEMMA ReloadsCounted ==
    ASSUME Inv, [Next]_vars
    PROVE  \/ reloads' = reloads /\ ~\E t \in Tabs : Reload(t)
           \/ reloads' = reloads + 1 /\ \E t \in Tabs : Reload(t)
  <1>1. reloads \in Nat  BY DEF Inv, TypeOK
  <1>2. CASE \E t \in Tabs : Reload(t)  BY <1>2 DEF Reload
  <1>3. CASE ~\E t \in Tabs : Reload(t)
    <2>1. CASE UNCHANGED vars  BY <1>3, <2>1 DEF vars
    <2>2. ASSUME NEW t \in Tabs, Learner(t) \/ PageRuns(t) \/ ReadFails(t)
          PROVE  reloads' = reloads
      <3>1. CASE OnSubmit(t) \/ OnRetryPersist(t) \/ OnEscape(t)
        BY <3>1 DEF OnSubmit, OnRetryPersist, PersistAnswer, OnEscape
      <3>2. CASE OnNext(t) \/ OnFinish(t) \/ OnEndSession(t) \/ CompletionEffect(t)
        BY <3>2 DEF OnNext, OnFinish, OnEndSession, CompletionEffect, CloseAndRoute
      <3>3. CASE \/ GetActive(t) \/ GetNext(t) \/ Show(t)
                 \/ CloseExhausted(t) \/ ReadFails(t)
        BY <3>3 DEF GetActive, GetNext, Show, CloseExhausted, ReadFails
      <3> QED  BY <1>3, <2>2, <3>1, <3>2, <3>3 DEF Learner, PageRuns
    <2>3. ASSUME NEW r \in net, Served(r) \/ RequestFails(r) \/ Heard(r)
          PROVE  reloads' = reloads
      <3>1. CASE Served(r) \/ RequestFails(r)
        BY <3>1 DEF Served, ServeAttempt, ServeReview, ServePointer, TallyForClose,
                    ServeClose, RequestFails
      <3>2. CASE Heard(r)
        BY <3>2 DEF Heard, AttemptHeard, ReviewHeard, PersistFailed, EscapeHeard,
                    EscapeFailed, CloseHeard, CloseFailed
      <3> QED  BY <2>3, <3>1, <3>2
    <2> QED  BY <1>3, <2>1, <2>2, <2>3 DEF Next
  <1> QED  BY <1>2, <1>3

LEMMA NextLasts ==
    ASSUME OnePage, Inv, Answers, reloads = 0 => Scored, reloads < 2 => Lasts, [Next]_vars
    PROVE  (reloads < 2 => Lasts)'
  <1> SUFFICES ASSUME reloads' < 2  PROVE Lasts'  OBVIOUS
  <1>1. reloads \in Nat  BY DEF Inv, TypeOK
  <1>2. Lasts  BY <1>1, ReloadsCounted
  <1>3. ASSUME NEW t \in Tabs, Learner(t) \/ PageRuns(t) \/ ReadFails(t)
        PROVE  Lasts'
    <2>1. CASE OnSubmit(t)  BY <1>2, <2>1, OnSubmitLasts
    <2>2. CASE OnRetryPersist(t)  BY <1>2, <2>2, OnRetryPersistLasts
    <2>3. CASE OnEscape(t)  BY <1>2, <2>3, OnEscapeLasts
    <2>4. CASE OnNext(t)  BY <1>2, <2>4, OnNextLasts
    <2>5. CASE OnFinish(t) \/ CompletionEffect(t) \/ OnEndSession(t)
      BY <1>2, <2>5, CloseLasts
    <2>6. CASE GetActive(t) \/ GetNext(t) \/ CloseExhausted(t) \/ ReadFails(t)
      BY <1>2, <2>6, ReadsLasts
    <2>7. CASE Show(t)  BY <1>2, <2>7, ShowLasts
    <2>9. CASE Reload(t)
      <3>1. reloads' = reloads + 1  BY <2>9 DEF Reload
      <3>2. Scored  BY <1>1, <3>1
      <3> QED  BY <1>2, <2>9, <3>2, ReloadLasts
    <2> QED  BY <1>3, <2>1, <2>2, <2>3, <2>4, <2>5, <2>6, <2>7, <2>9
             DEF Learner, PageRuns
  <1>4. ASSUME NEW r \in net, Served(r) \/ RequestFails(r) \/ Heard(r)
        PROVE  Lasts'
    <2>1. CASE Served(r) \/ RequestFails(r)  BY <1>2, <2>1, ServedLasts
    <2>2. CASE AttemptHeard(r)  BY <1>2, <2>2, AttemptHeardLasts
    <2>3. CASE ReviewHeard(r)  BY <1>2, <2>3, ReviewHeardLasts
    <2>4. CASE PersistFailed(r)  BY <1>2, <2>4, PersistFailedLasts
    <2>5. CASE EscapeHeard(r)  BY <1>2, <2>5, EscapeHeardLasts
    <2>6. CASE EscapeFailed(r) \/ CloseFailed(r)  BY <1>2, <2>6, FailedLasts
    <2>7. CASE CloseHeard(r)  BY <1>2, <2>7, CloseHeardLasts
    <2> QED  BY <1>4, <2>1, <2>2, <2>3, <2>4, <2>5, <2>6, <2>7 DEF Heard
  <1>5. CASE UNCHANGED vars
    <2>1. attempts' = attempts /\ page' = page /\ net' = net /\ clock' = clock
      BY <1>5 DEF vars, storeVars
    <2>2. Carried' = Carried  BY <2>1 DEF Carried
    <2> QED  BY <1>2, <2>1, <2>2
             DEF Lasts, Stamped, AtItem, Idle, OwnClose, Ended, Spoilt, Offered, Credited,
                 Lasting, FirstTries
  <1> QED  BY <1>3, <1>4, <1>5 DEF Next

LEMMA NextScored ==
    ASSUME OnePage, Inv, Answers, reloads < 2 => Lasts, reloads = 0 => Scored, [Next]_vars
    PROVE  (reloads = 0 => Scored)'
  <1> SUFFICES ASSUME reloads' = 0  PROVE Scored'  OBVIOUS
  <1>1. reloads = 0 /\ ~\E t \in Tabs : Reload(t)
    <2>1. reloads \in Nat  BY DEF Inv, TypeOK
    <2> QED  BY <2>1, ReloadsCounted
  <1>2. Scored /\ Lasts  BY <1>1
  <1>3. ASSUME NEW t \in Tabs, Learner(t) \/ PageRuns(t) \/ ReadFails(t)
        PROVE  Scored'
    <2>1. CASE OnSubmit(t)  BY <1>2, <2>1, OnSubmitScores
    <2>2. CASE OnRetryPersist(t)  BY <1>2, <2>2, OnRetryPersistScores
    <2>3. CASE OnEscape(t)  BY <1>2, <2>3, OnEscapeScores
    <2>4. CASE OnNext(t)  BY <1>2, <2>4, OnNextScores
    <2>5. CASE OnFinish(t) \/ CompletionEffect(t) \/ OnEndSession(t)
      BY <1>2, <2>5, CloseScores
    <2>6. CASE GetActive(t) \/ GetNext(t) \/ CloseExhausted(t) \/ ReadFails(t)
      BY <1>2, <2>6, ReadsScores
    <2>7. CASE Show(t)  BY <1>2, <2>7, ShowScores
    <2> QED  BY <1>1, <1>3, <2>1, <2>2, <2>3, <2>4, <2>5, <2>6, <2>7
             DEF Learner, PageRuns
  <1>4. ASSUME NEW r \in net, Served(r) \/ RequestFails(r) \/ Heard(r)
        PROVE  Scored'
    <2>1. CASE Served(r) \/ RequestFails(r)  BY <1>2, <2>1, ServedScores
    <2>2. CASE AttemptHeard(r)  BY <1>2, <2>2, AttemptHeardScores
    <2>3. CASE ReviewHeard(r)  BY <1>2, <2>3, ReviewHeardScores
    <2>4. CASE PersistFailed(r)  BY <1>2, <2>4, PersistFailedScores
    <2>5. CASE EscapeHeard(r)  BY <1>2, <2>5, EscapeHeardScores
    <2>6. CASE EscapeFailed(r) \/ CloseFailed(r)  BY <1>2, <2>6, FailedScores
    <2>7. CASE CloseHeard(r)  BY <1>2, <2>7, CloseHeardScores
    <2> QED  BY <1>4, <2>1, <2>2, <2>3, <2>4, <2>5, <2>6, <2>7 DEF Heard
  <1>5. CASE UNCHANGED vars
    <2>1. /\ attempts' = attempts /\ page' = page /\ net' = net /\ session' = session
      BY <1>5 DEF vars, storeVars
    <2>2. Carried' = Carried  BY <2>1 DEF Carried
    <2>3. IsFiniteSet(attempts') /\ attempts' \subseteq Carried
      BY <1>2, <2>1 DEF Scored, Inv, Carried
    <2>4. \A t \in Tabs : Closing(page[t], session', net')  BY <1>2, <2>1 DEF Scored
    <2> QED  BY <1>2, <2>1, <2>2, <2>3, <2>4, ServerScores
  <1> QED  BY <1>3, <1>4, <1>5 DEF Next

LEMMA ScoresHold ==
    ASSUME OnePage
    PROVE  Spec => [](Inv /\ Answers /\ (reloads < 2 => Lasts) /\ (reloads = 0 => Scored))
  <1>1. Init => Inv /\ Answers /\ (reloads < 2 => Lasts) /\ (reloads = 0 => Scored)
    BY InitInv, InitAnswers, InitLasts, InitScored
  <1>2. ASSUME Inv, Answers, reloads < 2 => Lasts, reloads = 0 => Scored, [Next]_vars
        PROVE  Inv' /\ Answers' /\ (reloads < 2 => Lasts)' /\ (reloads = 0 => Scored)'
    BY <1>2, NextInv, NextAnswers, NextLasts, NextScored
  <1> QED  BY <1>1, <1>2, PTL DEF Spec

(* One page: whatever is lost or fails, a screen whose writes are          *)
(* acknowledged claims no first try that the server does not count, up to  *)
(* the second reload; and the summary none at all, if there was no reload. *)
THEOREM NoFirstTryIsFalse ==
    ASSUME OnePage
    PROVE  Spec => []NoFalseFirstTry
  <1>1. ASSUME Inv, Answers, reloads < 2 => Lasts, reloads = 0 => Scored
        PROVE  NoFalseFirstTry
    <2> SUFFICES ASSUME NEW t \in Tabs
                 PROVE  /\ Idle(page[t]) /\ reloads < 2
                             => page[t].score.correct <= ServerTally.correct
                        /\ page[t].phase = "summary" /\ reloads = 0
                             => page[t].score.correct <= session.score.correct
      BY DEF NoFalseFirstTry
    <2>1. Idle(page[t]) /\ reloads < 2 => page[t].score.correct <= ServerTally.correct
      BY <1>1, TallyCovers DEF ServerTally
    <2>2. page[t].phase = "summary" /\ reloads = 0
            => page[t].score.correct <= session.score.correct
      BY <1>1 DEF Scored, Closing
    <2> QED  BY <2>1, <2>2
  <1> QED  BY <1>1, ScoresHold, PTL

(* One page: the server counts more questions than the target only after   *)
(* a reload.                                                               *)
THEOREM OverrunsNeedReload ==
    ASSUME OnePage
    PROVE  Spec => []OverrunNeedsReload
  <1>1. ASSUME Inv, reloads = 0 => Scored
        PROVE  OverrunNeedsReload
    <2> SUFFICES ASSUME reloads = 0  PROVE ServerTally.total <= Target
      <3>1. reloads \in Nat /\ ServerTally.total \in Nat /\ Target \in Nat
        BY <1>1, TallyTyped, QuizAssumption DEF Inv, TypeOK, ServerTally, Scores
      <3> QED  BY <3>1 DEF OverrunNeedsReload
    <2>1. PICK t \in Tabs : TRUE  BY DEF OnePage
    <2>2. Cardinality(Attempted(attempts)) <= Target
      BY <1>1, <2>1 DEF Scored, Within
    <2>3. ServerTally.total <= Cardinality(Attempted(attempts))
      BY <1>1, TotalIsSeen DEF Inv, ServerTally
    <2>4. /\ ServerTally.total \in Nat /\ Target \in Nat
          /\ Cardinality(Attempted(attempts)) \in Nat
      BY <1>1, <2>1, ScoreTyped, TallyTyped DEF Inv, ServerTally, Scores
    <2> QED  BY <2>2, <2>3, <2>4
  <1> QED  BY <1>1, ScoresHold, PTL
=============================================================================
