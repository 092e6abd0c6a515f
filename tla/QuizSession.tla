----------------------------- MODULE QuizSession -----------------------------
(***************************************************************************)
(* The practice quiz: pages of one learner that work on one open session,  *)
(* the requests between them and the server, and the server's rows.  The   *)
(* page grades an answer at once and saves it afterwards; a wrong answer   *)
(* opens the coached loop, which ends with the right answer or the priced  *)
(* escape.  The durable engine and the commit-first coach are switched on. *)
(*                                                                         *)
(* A request is sent, handled and heard in three steps.  It may fail       *)
(* before it is handled or after; the page cannot tell which.  A reload    *)
(* forgets the page and leaves its requests to be handled later.           *)
(***************************************************************************)
EXTENDS QuizStore

CONSTANTS
    Tabs,           \* the pages
    NoTab,          \* the owner of a request whose page is gone
    LoseRequests,   \* whether a request may fail unhandled
    LoseReplies,    \* whether a request may be handled and fail
    MaxFaults,      \* bound on failures
    MaxReloads,     \* bound on reloads
    MaxCalls        \* bound on the calls of record by the learner's hand

ASSUME SessionAssumption ==
    /\ NoTab \notin Tabs
    /\ LoseRequests \in BOOLEAN /\ LoseReplies \in BOOLEAN
    /\ MaxFaults \in Nat /\ MaxReloads \in Nat /\ MaxCalls \in Nat

VARIABLES
    page,       \* the state of each page
    net,        \* the requests under way
    clock,      \* created_at of the newest call of record
    faults, reloads,
    asked       \* history: what each page has asked, or met answered at its mount

vars == <<storeVars, page, net, clock, faults, reloads, asked>>

NoLetter == "no letter"

ASSUME LetterAssumption == NoLetter \notin Letters

NoPending == [key |-> 0, letter |-> NoLetter, first |-> FALSE, prior |-> FALSE]

(* The code's loading is resuming, advancing and loading while the server  *)
(* is asked, offered and exhausted when it has answered and the page has   *)
(* not heard, and halted when nothing more is asked.  solved is reviewing, *)
(* or answering with the coachedConfirm panel; q is the question shown or  *)
(* offered; active is the coached loop's letter; pending is                *)
(* pendingAnswerRef, whose question is q; persist is persistPending and    *)
(* persistError; failed is the page's error.                               *)
Pages ==
    [phase : {"resuming", "advancing", "loading", "offered", "exhausted",
              "halted", "answering", "solved", "done", "summary", "fresh"},
     q : Questions \cup {NoQuestion},
     active : Wrongs \cup {NoLetter},
     res : Resolutions \cup {NoRes},
     score : Scores,
     pending : [key : Nat, letter : Letters \cup {NoLetter},
                first : BOOLEAN, prior : BOOLEAN],
     persist : {"idle", "pending", "error"},
     closing : BOOLEAN,
     failed : BOOLEAN]

Mounted ==
    [phase |-> "resuming", q |-> NoQuestion, active |-> NoLetter,
     res |-> NoRes, score |-> ZeroScore, pending |-> NoPending,
     persist |-> "idle", closing |-> FALSE, failed |-> FALSE]

(***************************************************************************)
(* Requests.                                                               *)
(***************************************************************************)
Steps == {"sent", "tallied", "ok", "err"}

Requests ==
    [kind : {"attempt", "escape"}, tab : Tabs \cup {NoTab}, st : Steps, body : Rows]
      \cup [kind : {"review"}, tab : Tabs \cup {NoTab}, st : Steps, body : Seq(Rows)]
      \cup [kind : {"close"}, tab : Tabs \cup {NoTab}, st : Steps, body : Scores]
      \cup [kind : {"pointer"}, tab : {NoTab}, st : {"sent"}, body : Questions]

Request(kind, t, body) == [kind |-> kind, tab |-> t, st |-> "sent", body |-> body]

PointerTo(q) == Request("pointer", NoTab, q)
CloseBy(t) == Request("close", t, ZeroScore)

TypeOK ==
    /\ StoreTypeOK
    /\ page \in [Tabs -> Pages]
    /\ net \in SUBSET Requests
    /\ clock \in Nat /\ faults \in Nat /\ reloads \in Nat
    /\ asked \in [Tabs -> SUBSET Questions]

Init ==
    /\ StoreInit
    /\ page = [t \in Tabs |-> Mounted]
    /\ net = {}
    /\ clock = 0 /\ faults = 0 /\ reloads = 0
    /\ asked = [t \in Tabs |-> {}]

Becomes(t, p) == page' = [page EXCEPT ![t] = p]

Reading == {"resuming", "advancing", "loading", "offered", "exhausted"}

Idle(p) == p.persist = "idle"
Solved(p) == p.phase = "solved"
Complete(p) == IsAtTarget(p.score)

Usable(p) == ~p.failed

(***************************************************************************)
(* Mounting and loading.                                                   *)
(***************************************************************************)
FreshAnswering(p, q) ==
    [p EXCEPT !.phase = "answering", !.q = q, !.active = NoLetter,
              !.res = NoRes, !.pending = NoPending, !.persist = "idle"]

(* Mutant of PointerAttempted: only a resolving row counts as an attempt.  *)
PointerResolved ==
    \E r \in attempts : r.q = session.pointer /\ r.res # NoRes

PointerAttempted == session.pointer \in Attempted(attempts)

(* GET /session/active, at the server.  What it finds is on its way to the *)
(* page, and answers may land before it is there.                          *)
GetActive(t) ==
    LET p == page[t]
        score == CommitFirstTally(attempts)
    IN  /\ p.phase = "resuming"
        /\ \/ /\ ~session.open
              /\ Becomes(t, [p EXCEPT !.phase = "fresh"])
           \/ /\ session.open /\ IsAtTarget(score)
              /\ Becomes(t, [p EXCEPT !.phase = "exhausted"])
           \/ /\ session.open /\ ~IsAtTarget(score)
              /\ session.pointer = NoQuestion \/ PointerAttempted
              /\ Becomes(t, [p EXCEPT !.phase = "advancing", !.score = score])
           \/ /\ session.open /\ ~IsAtTarget(score)
              /\ session.pointer # NoQuestion /\ ~PointerAttempted
              /\ Becomes(t, [p EXCEPT !.phase = "offered", !.q = session.pointer,
                                      !.score = score])
        /\ UNCHANGED <<storeVars, net, clock, faults, reloads, asked>>

(* GET /next, at the server, asked by the mount or after Next.  With       *)
(* nothing to serve the mount shows no score.                              *)
GetNext(t) ==
    LET p == page[t]
    IN  /\ p.phase \in {"advancing", "loading"}
        /\ \/ \E q \in Servable :
                 Becomes(t, [p EXCEPT !.phase = "offered", !.q = q])
           \/ /\ Servable = {}
              /\ Becomes(t, [p EXCEPT
                    !.score = IF p.phase = "advancing" THEN ZeroScore ELSE @,
                    !.phase = "exhausted"])
        /\ UNCHANGED <<storeVars, net, clock, faults, reloads, asked>>

(* The page hears which question to ask, asks it and records the pointer.  *)
Show(t) ==
    LET p == page[t]
    IN  /\ p.phase = "offered"
        /\ Becomes(t, FreshAnswering(p, p.q))
        /\ net' = net \cup {PointerTo(p.q)}
        /\ asked' = [asked EXCEPT ![t] = @ \cup {p.q}]
        /\ UNCHANGED <<storeVars, clock, faults, reloads>>

(* The page hears that there is nothing to ask and closes the session.     *)
CloseExhausted(t) ==
    LET p == page[t]
    IN  /\ p.phase = "exhausted"
        /\ Becomes(t, [p EXCEPT !.phase = "halted", !.closing = TRUE])
        /\ net' = net \cup {CloseBy(t)}
        /\ UNCHANGED <<storeVars, clock, faults, reloads, asked>>

(* A read fails for good, before or after the server answered it: the page *)
(* shows the error.                                                        *)
ReadFails(t) ==
    LET p == page[t]
    IN  /\ p.phase \in Reading
        /\ (LoseRequests \/ LoseReplies) /\ faults < MaxFaults
        /\ faults' = faults + 1
        /\ Becomes(t, [p EXCEPT !.phase = "halted", !.failed = TRUE])
        /\ UNCHANGED <<storeVars, net, clock, reloads, asked>>

(***************************************************************************)
(* Answering.                                                              *)
(***************************************************************************)
(* The row that record stamps anew at each call.                           *)
NewRow(q, key, letter, res) ==
    [q |-> q, key |-> key, letter |-> letter, res |-> res, stamp |-> clock + 1]

ResolutionOf(letter, prior) ==
    IF letter # Right THEN NoRes
    ELSE IF prior THEN "coached" ELSE "first_try"

(* The reducer's submitted: a wrong letter opens or moves the coached      *)
(* loop, the right one is confirmed and counted.                           *)
Submitted(p, letter) ==
    IF letter # Right
    THEN [p EXCEPT !.active = letter]
    ELSE LET res == ResolutionOf(letter, p.active # NoLetter)
         IN  [p EXCEPT
                !.phase = "solved", !.active = NoLetter, !.res = res,
                !.score = [correct |-> @.correct + (IF res = "first_try" THEN 1 ELSE 0),
                           total |-> @.total + 1]]

(* The key of a pending answer is used again, by a retry and by the next   *)
(* submit alike.                                                           *)
ActionKey(p) == IF p.pending = NoPending THEN clock + 1 ELSE p.pending.key

(* persistAnswer, with the answer of pendingAnswerRef; resent is the served *)
(* pointer, which every change of the answering page sends again.          *)
PersistAnswer(t, p, pending, resent) ==
    /\ clock < MaxCalls
    /\ clock' = clock + 1
    /\ Becomes(t, [p EXCEPT !.pending = pending, !.persist = "pending"])
    /\ net' = net \cup {Request("attempt", t,
                 NewRow(p.q, pending.key, pending.letter,
                        ResolutionOf(pending.letter, pending.prior)))}
                  \cup resent
    /\ UNCHANGED <<storeVars, faults, reloads, asked>>

OnSubmit(t) ==
    LET p == page[t]
    IN  /\ p.phase = "answering" /\ Usable(p)
        /\ p.persist # "pending"
        /\ \E letter \in Letters \ {p.active} :
               PersistAnswer(t, Submitted(p, letter),
                   [key |-> ActionKey(p), letter |-> letter,
                    first |-> p.active = NoLetter, prior |-> p.active # NoLetter],
                   {PointerTo(p.q)})

OnRetryPersist(t) ==
    LET p == page[t]
    IN  /\ Usable(p)
        /\ p.persist = "error" /\ p.pending # NoPending
        /\ PersistAnswer(t, p, [p.pending EXCEPT !.key = ActionKey(p)], {})

(* The escape, offered when the ladder's last rung is shown.  It waits for *)
(* nothing and, until it is answered, shows nothing.                       *)
OnEscape(t) ==
    LET p == page[t]
    IN  /\ p.phase = "answering" /\ Usable(p)
        /\ p.active # NoLetter
        /\ clock < MaxCalls
        /\ clock' = clock + 1
        /\ net' = net \cup {Request("escape", t,
                     NewRow(p.q, clock + 1, p.active, "walked_through"))}
        /\ UNCHANGED <<storeVars, page, faults, reloads, asked>>

(* Mutant of AdvanceBlocked: a failed write does not block.                *)
AdvanceBlockedWhilePending(p) == p.persist = "pending"

AdvanceBlocked(p) == p.persist # "idle"

OnNext(t) ==
    LET p == page[t]
    IN  /\ Solved(p) /\ Usable(p)
        /\ ~AdvanceBlocked(p) /\ ~Complete(p)
        /\ Becomes(t, [p EXCEPT !.phase = "loading", !.pending = NoPending,
                                !.res = NoRes, !.active = NoLetter])
        /\ UNCHANGED <<storeVars, net, clock, faults, reloads, asked>>

(***************************************************************************)
(* Closing.                                                                *)
(***************************************************************************)
CloseAndRoute(t, p) ==
    /\ ~p.closing
    /\ Becomes(t, [p EXCEPT !.phase = IF Solved(p) THEN "done" ELSE @,
                            !.closing = TRUE])
    /\ net' = net \cup {CloseBy(t)}
    /\ UNCHANGED <<storeVars, clock, faults, reloads, asked>>

OnFinish(t) ==
    LET p == page[t]
    IN  /\ Solved(p) /\ Usable(p)
        /\ ~AdvanceBlocked(p) /\ ~Complete(p)
        /\ CloseAndRoute(t, p)

(* The completion effect; it runs on a page that shows an error, too.      *)
CompletionEffect(t) ==
    LET p == page[t]
    IN  /\ Complete(p) /\ ~AdvanceBlocked(p)
        /\ Solved(p)
        /\ CloseAndRoute(t, p)

OnEndSession(t) ==
    LET p == page[t]
    IN  /\ p.phase \in {"answering", "solved"} /\ Usable(p)
        /\ ~AdvanceBlocked(p) /\ ~Complete(p)
        /\ Becomes(t, [p EXCEPT !.phase = "done"])
        /\ net' = net \cup {CloseBy(t)}
        /\ UNCHANGED <<storeVars, clock, faults, reloads, asked>>

(* A reload: the page is gone, what it sent is not.                        *)
Orphan(r) == [r EXCEPT !.tab = NoTab]

Reload(t) ==
    /\ page[t].phase \notin {"summary", "fresh"}
    /\ reloads < MaxReloads
    /\ reloads' = reloads + 1
    /\ Becomes(t, Mounted)
    /\ asked' = [asked EXCEPT ![t] = Attempted(attempts)]
    /\ net' = {r \in net : r.tab # t}
                \cup {Orphan(r) : r \in {s \in net : s.tab = t /\ s.st \in {"sent", "tallied"}}}
    /\ UNCHANGED <<storeVars, clock, faults>>

(***************************************************************************)
(* The server handles a request.                                           *)
(***************************************************************************)
MayFault == faults < MaxFaults

(* The request is answered with body, or its reply is lost.                *)
Answer(r, body) ==
    LET rest == net \ {r}
    IN  \/ /\ r.tab = NoTab
           /\ net' = rest
           /\ UNCHANGED faults
        \/ /\ r.tab # NoTab
           /\ net' = rest \cup {[r EXCEPT !.st = "ok", !.body = body]}
           /\ UNCHANGED faults
        \/ /\ r.tab # NoTab
           /\ LoseReplies /\ MayFault
           /\ net' = rest \cup {[r EXCEPT !.st = "err"]}
           /\ faults' = faults + 1

(* The attempt goes through the database route, which asks whose the       *)
(* session is and not whether it is open.                                  *)
ServeAttempt(r) ==
    /\ r.kind \in {"attempt", "escape"} /\ r.st = "sent"
    /\ Insert(r.body)
    /\ Answer(r, StoredFor(r.body))
    /\ UNCHANGED <<session, card, page, clock, reloads, asked>>

ServeReview(r) ==
    /\ r.kind = "review" /\ r.st = "sent"
    /\ card' = r.body
    /\ Answer(r, r.body)
    /\ UNCHANGED <<session, attempts, page, clock, reloads, asked>>

ServePointer(r) ==
    /\ r.kind = "pointer"
    /\ IF session.open THEN SetPointer(r.body) ELSE UNCHANGED session
    /\ net' = net \ {r}
    /\ UNCHANGED <<attempts, card, page, clock, faults, reloads, asked>>

(* Close, first half: the guard and the tally.                             *)
TallyForClose(r) ==
    /\ r.kind = "close" /\ r.st = "sent"
    /\ net' = (net \ {r}) \cup
                (IF session.open
                 THEN {[r EXCEPT !.st = "tallied", !.body = CommitFirstTally(attempts)]}
                 ELSE IF r.tab = NoTab THEN {} ELSE {[r EXCEPT !.st = "err"]})
    /\ UNCHANGED <<storeVars, page, clock, faults, reloads, asked>>

(* Close, second half: the update, which does not look at the row again.   *)
ServeClose(r) ==
    /\ r.kind = "close" /\ r.st = "tallied"
    /\ PatchClose(r.body)
    /\ Answer(r, r.body)
    /\ UNCHANGED <<attempts, card, page, clock, reloads, asked>>

(* A request that never arrives.                                           *)
RequestFails(r) ==
    /\ r.st = "sent"
    /\ LoseRequests /\ MayFault
    /\ faults' = faults + 1
    /\ net' = (net \ {r}) \cup
                (IF r.tab = NoTab THEN {} ELSE {[r EXCEPT !.st = "err"]})
    /\ UNCHANGED <<storeVars, page, clock, reloads, asked>>

(***************************************************************************)
(* The page hears what became of its request.                              *)
(***************************************************************************)
Hears(r, step) == r.tab # NoTab /\ r.st = step

Settled(p) == [p EXCEPT !.pending = NoPending, !.persist = "idle"]

(* What scheduler.review writes for the row the server stored.             *)
ReviewOf(t, row) == {Request("review", t, Append(card, row))}

(* The first graded attempt of an item is reviewed before it is settled.   *)
AttemptHeard(r) ==
    LET p == page[r.tab]
    IN  /\ r.kind = "attempt" /\ Hears(r, "ok")
        /\ net' = (net \ {r}) \cup (IF p.pending.first THEN ReviewOf(r.tab, r.body) ELSE {})
        /\ Becomes(r.tab, IF p.pending.first THEN p ELSE Settled(p))
        /\ UNCHANGED <<storeVars, clock, faults, reloads, asked>>

ReviewHeard(r) ==
    /\ r.kind = "review" /\ Hears(r, "ok")
    /\ net' = net \ {r}
    /\ Becomes(r.tab, Settled(page[r.tab]))
    /\ UNCHANGED <<storeVars, clock, faults, reloads, asked>>

(* Mutant of PersistFailed: the failure is swallowed.                      *)
PersistSwallowed(r) ==
    /\ r.kind \in {"attempt", "review"} /\ Hears(r, "err")
    /\ net' = net \ {r}
    /\ UNCHANGED <<storeVars, page, clock, faults, reloads, asked>>

PersistFailed(r) ==
    /\ r.kind \in {"attempt", "review"} /\ Hears(r, "err")
    /\ net' = net \ {r}
    /\ Becomes(r.tab, [page[r.tab] EXCEPT !.persist = "error"])
    /\ UNCHANGED <<storeVars, clock, faults, reloads, asked>>

(* The reducer's escape_taken, for whatever item is in a coached loop.     *)
EscapeTaken(p) ==
    IF p.phase = "answering" /\ p.active # NoLetter
    THEN [p EXCEPT !.phase = "solved", !.active = NoLetter,
                   !.res = "walked_through", !.score.total = @ + 1]
    ELSE p

EscapeHeard(r) ==
    /\ r.kind = "escape" /\ Hears(r, "ok")
    /\ net' = net \ {r}
    /\ Becomes(r.tab, EscapeTaken(page[r.tab]))
    /\ UNCHANGED <<storeVars, clock, faults, reloads, asked>>

EscapeFailed(r) ==
    /\ r.kind = "escape" /\ Hears(r, "err")
    /\ net' = net \ {r}
    /\ Becomes(r.tab, [page[r.tab] EXCEPT !.failed = TRUE])
    /\ UNCHANGED <<storeVars, clock, faults, reloads, asked>>

CloseHeard(r) ==
    /\ r.kind = "close" /\ Hears(r, "ok")
    /\ net' = net \ {r}
    /\ Becomes(r.tab, [page[r.tab] EXCEPT !.phase = "summary"])
    /\ UNCHANGED <<storeVars, clock, faults, reloads, asked>>

(* Mutant of CloseFailed: the failure is not shown.                        *)
CloseFailedQuietly(r) ==
    /\ r.kind = "close" /\ Hears(r, "err")
    /\ net' = net \ {r}
    /\ Becomes(r.tab, [page[r.tab] EXCEPT !.closing = FALSE])
    /\ UNCHANGED <<storeVars, clock, faults, reloads, asked>>

CloseFailed(r) ==
    /\ r.kind = "close" /\ Hears(r, "err")
    /\ net' = net \ {r}
    /\ Becomes(r.tab, [page[r.tab] EXCEPT !.closing = FALSE, !.failed = TRUE])
    /\ UNCHANGED <<storeVars, clock, faults, reloads, asked>>

(***************************************************************************)
(* The specification.                                                      *)
(***************************************************************************)
Learner(t) ==
    \/ OnSubmit(t) \/ OnRetryPersist(t) \/ OnEscape(t) \/ OnNext(t)
    \/ OnFinish(t) \/ OnEndSession(t) \/ Reload(t)

PageRuns(t) ==
    \/ GetActive(t) \/ GetNext(t) \/ Show(t) \/ CloseExhausted(t)
    \/ CompletionEffect(t)

Served(r) ==
    ServeAttempt(r) \/ ServeReview(r) \/ ServePointer(r) \/ TallyForClose(r) \/ ServeClose(r)

Heard(r) ==
    \/ AttemptHeard(r) \/ ReviewHeard(r) \/ PersistFailed(r)
    \/ EscapeHeard(r) \/ EscapeFailed(r) \/ CloseHeard(r) \/ CloseFailed(r)

Next ==
    \/ \E t \in Tabs : Learner(t) \/ PageRuns(t) \/ ReadFails(t)
    \/ \E r \in net : Served(r) \/ RequestFails(r) \/ Heard(r)

Spec == Init /\ [][Next]_vars

(* Requests are handled and heard of, effects run.  The learner owes       *)
(* nothing, and a pointer write may stay under way for ever.               *)
FairSpec ==
    /\ Spec
    /\ WF_vars(\E r \in net : r.kind # "pointer" /\ (Served(r) \/ Heard(r)))
    /\ \A t \in Tabs : WF_vars(PageRuns(t))

(***************************************************************************)
(* Properties.                                                             *)
(***************************************************************************)
(* What the server counts now.                                             *)
ServerTally == CommitFirstTally(attempts)

(* What moved the skill's card is stored: scheduler.review runs on rows    *)
(* that record returned, whatever retries, lost replies and reloads.       *)
ReviewsBacked == \A i \in DOMAIN card : card[i] \in attempts

(* A screen whose writes are acknowledged claims no first try that the     *)
(* server does not count; nor, on a page that was never reloaded, does the *)
(* summary (FR-B10, FR-C1).  From the second reload on the screen may: a   *)
(* page that resumed with a first try of the page before it is left behind *)
(* by a late wrong answer of the page between.                             *)
NoFalseFirstTry ==
    \A t \in Tabs :
        /\ Idle(page[t]) /\ reloads < 2
             => page[t].score.correct <= ServerTally.correct
        /\ page[t].phase = "summary" /\ reloads = 0
             => page[t].score.correct <= session.score.correct

(* The server counts more than the target only after a reload, which can   *)
(* leave answers under way that the resumed page does not know of (FR-C2). *)
OverrunNeedsReload == ServerTally.total > Target => reloads > 0

(* A page asks no question twice, and none that had an answer when the     *)
(* page was mounted, although reads, writes and their failures are under   *)
(* way together (FR-B3-feedback, FR-B9).  An answer that a page before a   *)
(* reload, or another page, sent and that lands after the mount is no such *)
(* answer: its question may be asked.                                      *)
AsksTheUnanswered ==
    [][\A t \in Tabs :
          page[t].phase # "answering" /\ page'[t].phase = "answering"
            => page'[t].q \notin asked[t]]_vars

(* The page leaves a solved item, by Next or for the summary, only when    *)
(* the server has a row of the question, and a first try only when it has  *)
(* the first try (FR-A5, FR-A8).                                           *)
SolvedIsStored ==
    [][\A t \in Tabs :
          Solved(page[t]) /\ page'[t].phase \in {"loading", "done"}
            => \E r \in attempts :
                 /\ r.q = page[t].q
                 /\ page[t].res = "first_try" => r.res = "first_try"]_vars

(* A saved answer is acknowledged or reported: no page waits for ever.     *)
AnswerSettles ==
    \A t \in Tabs : page[t].persist = "pending" ~> page[t].persist # "pending"

(* Resolving the last item closes the session without the learner's help,  *)
(* unless the page shows an error or is reloaded (FR-C1).                  *)
CompletionCloses ==
    \A t \in Tabs :
        Complete(page[t]) /\ Idle(page[t])
          ~> page[t].phase \in {"summary", "resuming"} \/ page[t].failed
=============================================================================
