---------------------------- MODULE AtLeastOnceLog ----------------------------
(***************************************************************************)
(* What an outbox promises: entries are appended, each is settled (handed  *)
(* on, dead-lettered or left out on purpose) for a first time in their     *)
(* order, and the reader forgets an entry only after that.                 *)
(***************************************************************************)
EXTENDS Integers, Sequences

CONSTANTS Entries

VARIABLES
    log,        \* the entries
    settled,    \* how many have been settled
    acked       \* how many the reader will not look at again

logVars == <<log, settled, acked>>

LogInit == log = <<>> /\ settled = 0 /\ acked = 0

AppendEntry ==
    /\ \E e \in Entries : log' = Append(log, e)
    /\ UNCHANGED <<settled, acked>>

Settle ==
    /\ settled < Len(log)
    /\ settled' = settled + 1
    /\ UNCHANGED <<log, acked>>

Ack ==
    /\ \E n \in (acked + 1)..settled : acked' = n
    /\ UNCHANGED <<log, settled>>

LogNext == AppendEntry \/ Settle \/ Ack

LogSpec == LogInit /\ [][LogNext]_logVars
=============================================================================
