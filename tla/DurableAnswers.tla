---------------------------- MODULE DurableAnswers ----------------------------
(***************************************************************************)
(* What the exam write buffer promises the section that uses it, without   *)
(* queues, timers, mirrors or requests.                                    *)
(*                                                                         *)
(* An edit of a question makes its latest row not durable; after that the  *)
(* row may become durable, and it stays so until the question is edited    *)
(* again, whatever is retried or reloaded.  A save is confirmed only when  *)
(* the latest row of every question is durable.                            *)
(***************************************************************************)
CONSTANT Questions

VARIABLES
    durable,    \* the questions whose latest row the server holds
    confirmed   \* the caller has been told that everything is saved

Init ==
    /\ durable = Questions
    /\ confirmed = FALSE

Edit(q) ==
    /\ durable' = durable \ {q}
    /\ UNCHANGED confirmed

Save(S) ==
    /\ durable' = durable \cup S
    /\ UNCHANGED confirmed

Confirm ==
    /\ durable = Questions
    /\ confirmed' = TRUE
    /\ UNCHANGED durable

Acknowledge ==
    /\ confirmed' = FALSE
    /\ UNCHANGED durable

Next ==
    \/ \E q \in Questions : Edit(q)
    \/ \E S \in SUBSET Questions : Save(S)
    \/ Confirm
    \/ Acknowledge

Spec == Init /\ [][Next]_<<durable, confirmed>>
=============================================================================
