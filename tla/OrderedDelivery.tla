--------------------------- MODULE OrderedDelivery ---------------------------
(***************************************************************************)
(* What the outbox promises its subscribers (ADR-009): the events of one   *)
(* aggregate reach the event queue for the first time in the order of      *)
(* their ordering ids, without a gap.  Repeated deliveries are allowed and *)
(* are stuttering steps here: subscribers drop them by event id.           *)
(***************************************************************************)
EXTENDS Integers

CONSTANTS Aggregates, OrderingIDs

VARIABLES
    log,        \* committed events: [ord, agg]
    delivered   \* ordering ids that reached the event queue at least once

Recorded == [ord : OrderingIDs, agg : Aggregates]

(* A transaction commits an event behind all events of its aggregate.      *)
Record(e) ==
    /\ \A f \in log : f.ord # e.ord /\ (f.agg = e.agg => f.ord < e.ord)
    /\ log' = log \cup {e}
    /\ UNCHANGED delivered

(* The next event of an aggregate is delivered for the first time.         *)
Deliver(e) ==
    /\ e.ord \notin delivered
    /\ \A f \in log : f.agg = e.agg /\ f.ord < e.ord => f.ord \in delivered
    /\ delivered' = delivered \cup {e.ord}
    /\ UNCHANGED log

Init == log = {} /\ delivered = {}

Next ==
    \/ \E e \in Recorded : Record(e)
    \/ \E e \in log : Deliver(e)

Spec == Init /\ [][Next]_<<log, delivered>>
=============================================================================
