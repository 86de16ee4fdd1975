------------------------- MODULE OutboxWorkerProofs -------------------------
(***************************************************************************)
(* Any number of publishers, in any interleaving and with any crashes,     *)
(* implement OrderedDelivery.                                              *)
(***************************************************************************)
EXTENDS OutboxWorker, TLAPS

(* A claim is taken behind published predecessors only, and they stay      *)
(* published even after the claim is lost to another publisher.            *)
ClaimedInOrder ==
    \A p \in Publishers : pc[p] # "idle" =>
        /\ event[p] \in Recorded
        /\ \A f \in Predecessors(event[p]) : rows[f].status = "PUBLISHED"

SentBeforeMark == \A p \in Publishers : pc[p] = "mark" => event[p] \in delivered

OutboxInv ==
    /\ TypeOK
    /\ ClaimedInOrder
    /\ SentBeforeMark
    /\ PublishedWasDelivered

-----------------------------------------------------------------------------
\* The table before any event and publishers before any claim.
LEMMA InitInv == Init => OutboxInv
  BY BoundsAssumption
  DEF Init, OutboxInv, TypeOK, ClaimedInOrder, SentBeforeMark, PublishedWasDelivered,
      Recorded

(* How a step may touch a row: no aggregate changes and PUBLISHED is kept. *)
RowKept(e) ==
    /\ rows'[e] # None
    /\ rows'[e].agg = rows[e].agg
    /\ rows[e].status = "PUBLISHED" => rows'[e].status = "PUBLISHED"

\* No statement of the repository but the insert changes the set of rows, and
\* none takes a PUBLISHED row back.
LEMMA RowsKept ==
    ASSUME OutboxInv, [Next]_vars, NEW e \in Recorded
    PROVE  RowKept(e)
  <1>0. rows[e] \in Rows /\ e \in OrderingIDs
    BY DEF Recorded, OutboxInv, TypeOK
  <1>1. ASSUME NEW f \in OrderingIDs, NEW a \in Aggregates, Insert(f, a) PROVE RowKept(e)
    BY <1>0, <1>1 DEF Insert, RowKept, OutboxInv, TypeOK, Recorded
  <1>2. ASSUME NEW f \in OrderingIDs, NEW r \in Rows, rows' = [rows EXCEPT ![f] = r],
               f = e => r.agg = rows[e].agg /\ rows[e].status # "PUBLISHED"
        PROVE  RowKept(e)
    BY <1>0, <1>2, NoneAssumption DEF RowKept, OutboxInv, TypeOK
  <1>3. CASE UNCHANGED rows
    BY <1>0, <1>3, NoneAssumption DEF RowKept
  <1>4. ASSUME NEW p \in Publishers, NEW f \in OrderingIDs, Claim(p, f) PROVE RowKept(e)
    <2> DEFINE r == [agg |-> rows[f].agg, status |-> "CLAIMED",
                     attempts |-> rows[f].attempts + 1, token |-> tokens + 1,
                     due |-> rows[f].due, expired |-> FALSE]
    <2>1. rows[f] \in Rows /\ rows[f].status # "PUBLISHED"
      BY <1>4 DEF Claim, Eligible, Recorded, OutboxInv, TypeOK
    <2>2. r \in Rows /\ r.agg = rows[f].agg
      BY <2>1 DEF Rows, Statuses, OutboxInv, TypeOK
    <2>3. rows' = [rows EXCEPT ![f] = r]
      BY <1>4 DEF Claim
    <2> HIDE DEF r
    <2> QED
      BY <1>2, <2>1, <2>2, <2>3
  <1>5. ASSUME NEW p \in Publishers, NEW st \in Statuses, pc[p] # "idle", Owns(p),
               rows' = [rows EXCEPT ![event[p]] = Settled(event[p], st)]
        PROVE  RowKept(e)
    <2> DEFINE f == event[p]
    <2>1. rows[f] \in Rows /\ rows[f].status # "PUBLISHED" /\ f \in OrderingIDs
      BY <1>5 DEF Owns, ClaimedInOrder, Recorded, OutboxInv, TypeOK
    <2>2. Settled(f, st) \in Rows /\ Settled(f, st).agg = rows[f].agg
      BY <2>1 DEF Settled, Rows, Statuses
    <2> HIDE DEF f
    <2> QED
      BY <1>2, <1>5, <2>1, <2>2 DEF f
  <1>6. ASSUME NEW p \in Publishers, Publish(p) PROVE RowKept(e)
    BY <1>3, <1>5, <1>6
    DEF Publish, SendSucceeds, SendFails, MarkPublished, MarkRetry, Statuses
  <1>7. ASSUME NEW p \in Publishers, Crash(p) PROVE RowKept(e)
    BY <1>3, <1>7 DEF Crash
  <1>8. ASSUME NEW f \in OrderingIDs, NEW st \in Statuses, NEW x \in BOOLEAN,
               NEW d \in BOOLEAN, f \in Recorded, rows[f].status # "PUBLISHED",
               rows' = [rows EXCEPT ![f] =
                 [agg |-> rows[f].agg, status |-> st, attempts |-> rows[f].attempts,
                  token |-> rows[f].token, due |-> d, expired |-> x]]
        PROVE  RowKept(e)
    <2> DEFINE r == [agg |-> rows[f].agg, status |-> st, attempts |-> rows[f].attempts,
                     token |-> rows[f].token, due |-> d, expired |-> x]
    <2>1. rows[f] \in Rows
      BY <1>8 DEF Recorded, OutboxInv, TypeOK
    <2>2. r \in Rows /\ r.agg = rows[f].agg
      BY <2>1 DEF Rows
    <2> HIDE DEF r
    <2> QED
      BY <1>2, <1>8, <2>2 DEF r
  <1>9. ASSUME NEW f \in OrderingIDs, LeaseExpires(f) PROVE RowKept(e)
    <2>1. rows[f].due \in BOOLEAN
      BY <1>9 DEF LeaseExpires, Recorded, OutboxInv, TypeOK, Rows
    <2> QED
      BY <1>8, <1>9, <2>1 DEF LeaseExpires, Statuses
  <1>10. ASSUME NEW f \in OrderingIDs, BackoffElapses(f) PROVE RowKept(e)
    BY <1>8, <1>10 DEF BackoffElapses, Statuses
  <1>11. CASE UNCHANGED vars
    BY <1>3, <1>11 DEF vars
  <1> QED
    BY <1>1, <1>4, <1>6, <1>7, <1>9, <1>10, <1>11 DEF Next

\* Only the insert adds a row, and behind every row of its aggregate.
LEMMA RowsAdded ==
    ASSUME OutboxInv, [Next]_vars, NEW e \in OrderingIDs, rows[e] = None,
           rows'[e] # None
    PROVE  \E a \in Aggregates : Insert(e, a)
  <1>1. ASSUME NEW f \in OrderingIDs, NEW a \in Aggregates, Insert(f, a)
        PROVE  \E b \in Aggregates : Insert(e, b)
    BY <1>1 DEF Insert, OutboxInv, TypeOK
  <1>2. ASSUME NEW p \in Publishers, NEW f \in OrderingIDs, Claim(p, f) PROVE FALSE
    BY <1>2 DEF Claim, OutboxInv, TypeOK, Recorded
  <1>3. ASSUME NEW p \in Publishers, Publish(p) PROVE FALSE
    <2>1. CASE SendSucceeds(p) \/ SendFails(p)
      BY <2>1 DEF SendSucceeds, SendFails
    <2>2. CASE MarkPublished(p) \/ MarkRetry(p)
      BY <2>2 DEF MarkPublished, MarkRetry, OutboxInv, TypeOK, ClaimedInOrder, Recorded
    <2> QED
      BY <1>3, <2>1, <2>2 DEF Publish
  <1>4. ASSUME NEW p \in Publishers, Crash(p) PROVE FALSE
    BY <1>4 DEF Crash
  <1>5. ASSUME NEW f \in OrderingIDs, LeaseExpires(f) \/ BackoffElapses(f) PROVE FALSE
    BY <1>5 DEF LeaseExpires, BackoffElapses, OutboxInv, TypeOK, Recorded
  <1>6. ~UNCHANGED vars
    BY DEF vars
  <1> QED
    BY <1>1, <1>2, <1>3, <1>4, <1>5, <1>6 DEF Next

\* A published predecessor stays a published predecessor, and no event gets a
\* new predecessor.
LEMMA PredecessorsKept ==
    ASSUME OutboxInv, [Next]_vars, NEW e \in Recorded,
           \A f \in Predecessors(e) : rows[f].status = "PUBLISHED"
    PROVE  \A f \in Predecessors(e)' : rows'[f].status = "PUBLISHED"
  <1> SUFFICES ASSUME NEW f \in OrderingIDs, rows'[f] # None,
                      rows'[f].agg = rows'[e].agg, f < e
               PROVE  rows'[f].status = "PUBLISHED"
    BY DEF Predecessors, Recorded
  <1>1. RowKept(e) /\ e \in OrderingIDs
    BY RowsKept DEF Recorded
  <1>2. CASE rows[f] # None
    <2>1. f \in Recorded /\ RowKept(f)
      BY <1>2, RowsKept DEF Recorded
    <2> QED
      BY <1>1, <2>1 DEF RowKept, Predecessors
  <1>3. CASE rows[f] = None
    <2>1. PICK a \in Aggregates : Insert(f, a)
      BY <1>3, RowsAdded
    <2>2. rows'[f].agg = a
      BY <2>1 DEF Insert, OutboxInv, TypeOK
    <2>3. e < f
      BY <1>1, <2>1, <2>2 DEF Insert, RowKept
    <2> QED
      BY <1>1, <2>3 DEF OrderingIDs
  <1> QED
    BY <1>2, <1>3

\* Every step keeps the types.
LEMMA TypeStep ==
    ASSUME OutboxInv, [Next]_vars
    PROVE  TypeOK'
  <1>1. ASSUME NEW f \in OrderingIDs, NEW a \in Aggregates, Insert(f, a) PROVE TypeOK'
    BY <1>1 DEF Insert, OutboxInv, TypeOK, Rows, Statuses, local
  <1>2. ASSUME NEW p \in Publishers, NEW f \in OrderingIDs, Claim(p, f) PROVE TypeOK'
    <2>1. rows[f] \in Rows
      BY <1>2 DEF Claim, Recorded, OutboxInv, TypeOK
    <2> QED
      BY <1>2, <2>1 DEF Claim, OutboxInv, TypeOK, Rows, Statuses
  <1>3. ASSUME NEW p \in Publishers, Publish(p) PROVE TypeOK'
    <2>1. pc[p] # "idle" => rows[event[p]] \in Rows /\ event[p] \in OrderingIDs
      BY DEF OutboxInv, TypeOK, ClaimedInOrder, Recorded
    <2>2. CASE SendSucceeds(p)
      BY <2>1, <2>2 DEF SendSucceeds, OutboxInv, TypeOK
    <2>3. CASE SendFails(p)
      BY <2>1, <2>3 DEF SendFails, OutboxInv, TypeOK
    <2>4. ASSUME NEW st \in Statuses, pc[p] # "idle" PROVE Settled(event[p], st) \in Rows
      BY <2>1, <2>4 DEF Settled, Rows, Statuses
    <2>5. CASE MarkPublished(p)
      BY <2>1, <2>4, <2>5 DEF MarkPublished, EndClaim, OutboxInv, TypeOK, Statuses
    <2>6. CASE MarkRetry(p)
      BY <2>1, <2>4, <2>6 DEF MarkRetry, EndClaim, OutboxInv, TypeOK, Statuses
    <2> QED
      BY <1>3, <2>2, <2>3, <2>5, <2>6 DEF Publish
  <1>4. ASSUME NEW p \in Publishers, Crash(p) PROVE TypeOK'
    BY <1>4, BoundsAssumption DEF Crash, EndClaim, OutboxInv, TypeOK
  <1>5. ASSUME NEW f \in OrderingIDs, LeaseExpires(f) PROVE TypeOK'
    <2>1. rows[f] \in Rows
      BY <1>5 DEF LeaseExpires, Recorded, OutboxInv, TypeOK
    <2> QED
      BY <1>5, <2>1, BoundsAssumption
      DEF LeaseExpires, OutboxInv, TypeOK, Rows, Statuses, local
  <1>6. ASSUME NEW f \in OrderingIDs, BackoffElapses(f) PROVE TypeOK'
    <2>1. rows[f] \in Rows
      BY <1>6 DEF BackoffElapses, Recorded, OutboxInv, TypeOK
    <2> QED
      BY <1>6, <2>1 DEF BackoffElapses, OutboxInv, TypeOK, Rows, Statuses, local
  <1>7. CASE UNCHANGED vars
    BY <1>7 DEF vars, local, OutboxInv, TypeOK
  <1> QED
    BY <1>1, <1>2, <1>3, <1>4, <1>5, <1>6, <1>7 DEF Next

\* Delivery is never undone.
LEMMA DeliveredKept ==
    ASSUME [Next]_vars
    PROVE  delivered \subseteq delivered'
  BY DEF Next, vars, Insert, Claim, Publish, SendSucceeds, SendFails, MarkPublished,
     MarkRetry, Crash, LeaseExpires, BackoffElapses

(* A publisher's claim after the step: a new one, or the one it had.       *)
ClaimAfter(p) ==
    pc'[p] # "idle" =>
        \/ event'[p] = event[p] /\ pc[p] # "idle"
        \/ event'[p] \in Recorded /\ Eligible(event'[p])

\* A publisher only changes events by claiming an eligible row.
LEMMA ClaimKept ==
    ASSUME OutboxInv, [Next]_vars, NEW q \in Publishers
    PROVE  ClaimAfter(q)
  <1>1. ASSUME NEW f \in OrderingIDs, NEW a \in Aggregates, Insert(f, a) PROVE ClaimAfter(q)
    BY <1>1 DEF Insert, local, ClaimAfter
  <1>2. ASSUME NEW p \in Publishers, NEW f \in OrderingIDs, Claim(p, f) PROVE ClaimAfter(q)
    BY <1>2 DEF Claim, ClaimAfter, OutboxInv, TypeOK
  <1>3. ASSUME NEW p \in Publishers, Publish(p) PROVE ClaimAfter(q)
    BY <1>3 DEF Publish, SendSucceeds, SendFails, MarkPublished, MarkRetry, EndClaim,
       ClaimAfter, OutboxInv, TypeOK
  <1>4. ASSUME NEW p \in Publishers, Crash(p) PROVE ClaimAfter(q)
    BY <1>4 DEF Crash, EndClaim, ClaimAfter, OutboxInv, TypeOK
  <1>5. ASSUME NEW f \in OrderingIDs, LeaseExpires(f) \/ BackoffElapses(f) PROVE ClaimAfter(q)
    BY <1>5 DEF LeaseExpires, BackoffElapses, local, ClaimAfter
  <1>6. CASE UNCHANGED vars
    BY <1>6 DEF vars, local, ClaimAfter
  <1> QED
    BY <1>1, <1>2, <1>3, <1>4, <1>5, <1>6 DEF Next

\* The inductive step.
LEMMA NextInv == OutboxInv /\ [Next]_vars => OutboxInv'
  <1> SUFFICES ASSUME OutboxInv, [Next]_vars PROVE OutboxInv'
    OBVIOUS
  <1>1. TypeOK'
    BY TypeStep
  <1>2. ClaimedInOrder'
    <2> SUFFICES ASSUME NEW p \in Publishers, NEW e, pc'[p] # "idle", event'[p] = e
                 PROVE  /\ e \in Recorded'
                        /\ \A f \in Recorded' : (rows'[f].agg = rows'[e].agg /\ f < e)
                              => rows'[f].status = "PUBLISHED"
      BY DEF ClaimedInOrder, Predecessors, Recorded
    <2>1. e \in Recorded /\ \A f \in Predecessors(e) : rows[f].status = "PUBLISHED"
      BY ClaimKept DEF ClaimAfter, Eligible, OutboxInv, ClaimedInOrder
    <2>2. e \in Recorded'
      BY <2>1, RowsKept DEF RowKept, Recorded
    <2>3. \A f \in Predecessors(e)' : rows'[f].status = "PUBLISHED"
      BY <2>1, PredecessorsKept
    <2> QED
      BY <2>2, <2>3 DEF Predecessors, Recorded
  <1>3. SentBeforeMark'
    <2> SUFFICES ASSUME NEW q \in Publishers, pc'[q] = "mark"
                 PROVE  event'[q] \in delivered'
      BY DEF SentBeforeMark
    <2>1. \/ pc[q] = "mark" /\ event'[q] = event[q]
          \/ SendSucceeds(q)
      BY DEF Next, Publish, Insert, Claim, SendSucceeds, SendFails, MarkPublished,
         MarkRetry, Crash, LeaseExpires, BackoffElapses, EndClaim, vars, local,
         OutboxInv, TypeOK
    <2> QED
      BY <2>1, DeliveredKept DEF OutboxInv, SentBeforeMark, SendSucceeds
  <1>4. PublishedWasDelivered'
    <2> SUFFICES ASSUME NEW e \in OrderingIDs, rows'[e] # None,
                        rows'[e].status = "PUBLISHED"
                 PROVE  e \in delivered'
      BY DEF PublishedWasDelivered, Recorded
    <2> DEFINE Goal == \/ rows[e] # None /\ rows[e].status = "PUBLISHED"
                       \/ \E p \in Publishers : pc[p] = "mark" /\ event[p] = e
    <2>1. Goal
      <3>1. ASSUME NEW f \in OrderingIDs, NEW a \in Aggregates, Insert(f, a) PROVE Goal
        BY <3>1 DEF Insert, OutboxInv, TypeOK
      <3>2. ASSUME NEW p \in Publishers, NEW f \in OrderingIDs, Claim(p, f) PROVE Goal
        BY <3>2 DEF Claim, OutboxInv, TypeOK
      <3>3. ASSUME NEW p \in Publishers, SendSucceeds(p) \/ SendFails(p) \/ Crash(p) PROVE Goal
        BY <3>3 DEF SendSucceeds, SendFails, Crash
      <3>4. ASSUME NEW p \in Publishers, MarkPublished(p) PROVE Goal
        BY <3>4 DEF MarkPublished, OutboxInv, TypeOK
      <3>5. ASSUME NEW p \in Publishers, MarkRetry(p) PROVE Goal
        BY <3>5 DEF MarkRetry, Settled, OutboxInv, TypeOK
      <3>6. ASSUME NEW f \in OrderingIDs, LeaseExpires(f) \/ BackoffElapses(f) PROVE Goal
        BY <3>6 DEF LeaseExpires, BackoffElapses, OutboxInv, TypeOK
      <3>7. CASE UNCHANGED vars
        BY <3>7 DEF vars
      <3> QED
        BY <3>1, <3>2, <3>3, <3>4, <3>5, <3>6, <3>7 DEF Next, Publish
    <2> QED
      BY <2>1, DeliveredKept DEF OutboxInv, SentBeforeMark, PublishedWasDelivered, Recorded
  <1> QED
    BY <1>1, <1>2, <1>3, <1>4 DEF OutboxInv

\* In every reachable state of every instance a PUBLISHED row's event has reached
\* the queue: no crash or stall between SendEvent and MarkPublished loses one.
THEOREM NoEventLost == Spec => []PublishedWasDelivered
  <1>1. OutboxInv => PublishedWasDelivered
    BY DEF OutboxInv
  <1> QED
    BY <1>1, InitInv, NextInv, PTL DEF Spec

-----------------------------------------------------------------------------
(* Refinement.                                                             *)

\* A row appears as an abstract Record, a first delivery as an abstract Deliver,
\* and every other step of the publishers leaves log and deliveries alone.
LEMMA NextRefines ==
    ASSUME OutboxInv, [Next]_vars
    PROVE  [Delivery!Next]_<<{[ord |-> e, agg |-> rows[e].agg] : e \in Recorded}, delivered>>
  <1> DEFINE log == {[ord |-> e, agg |-> rows[e].agg] : e \in Recorded}
             log1 == {[ord |-> e, agg |-> rows'[e].agg] : e \in Recorded'}
  <1>1. ASSUME NEW f \in OrderingIDs, NEW a \in Aggregates, Insert(f, a)
        PROVE  Delivery!Record([ord |-> f, agg |-> a])
    <2>0. [agg |-> a, status |-> "PENDING", attempts |-> 0,
           token |-> 0, due |-> TRUE, expired |-> FALSE] \in Rows
      BY DEF Rows, Statuses
    <2>1. rows'[f] # None /\ rows'[f].agg = a
      BY <1>1, <2>0, NoneAssumption DEF Insert, OutboxInv, TypeOK
    <2>2. \A e \in OrderingIDs \ {f} : rows'[e] = rows[e]
      BY <1>1 DEF Insert, OutboxInv, TypeOK
    <2>3. log1 = log \cup {[ord |-> f, agg |-> a]}
      BY <1>1, <2>1, <2>2 DEF Recorded, Insert
    <2>4. \A g \in log : g.ord # f /\ (g.agg = a => g.ord < f)
      BY <1>1 DEF Insert, Recorded
    <2> QED
      BY <1>1, <2>3, <2>4 DEF Delivery!Record, Insert
  <1>2. ASSUME ~\E f \in OrderingIDs, a \in Aggregates : Insert(f, a)
        PROVE  log1 = log
    <2>1. Recorded' = Recorded
      BY <1>2, RowsAdded, RowsKept DEF Recorded, RowKept
    <2>2. \A e \in Recorded : rows'[e].agg = rows[e].agg
      BY RowsKept DEF RowKept
    <2> QED
      BY <2>1, <2>2
  <1>3. ASSUME NEW p \in Publishers, pc[p] = "send",
               delivered' = delivered \cup {event[p]}, event[p] \notin delivered, log1 = log
        PROVE  \E g \in log : Delivery!Deliver(g)
    <2> DEFINE g == [ord |-> event[p], agg |-> rows[event[p]].agg]
    <2>1. event[p] \in Recorded /\ g \in log
      BY <1>3 DEF OutboxInv, ClaimedInOrder
    <2>2. \A f \in Predecessors(event[p]) : f \in delivered
      BY <1>3 DEF OutboxInv, ClaimedInOrder, PublishedWasDelivered, Predecessors
    <2>3. \A f \in log : f.agg = g.agg /\ f.ord < g.ord => f.ord \in delivered
      BY <2>2 DEF Predecessors
    <2>4. Delivery!Deliver(g)
      BY <1>3, <2>3 DEF Delivery!Deliver
    <2> QED
      BY <2>1, <2>4
  <1>4. \/ delivered' = delivered
        \/ \E p \in Publishers : /\ pc[p] = "send"
                                 /\ delivered' = delivered \cup {event[p]}
                                 /\ event[p] \notin delivered
                                 /\ \A f \in OrderingIDs, a \in Aggregates : ~Insert(f, a)
    BY DEF Next, vars, Insert, Claim, Publish, SendSucceeds, SendFails, MarkPublished,
       MarkRetry, Crash, LeaseExpires, BackoffElapses
  <1>5. CASE \E f \in OrderingIDs, a \in Aggregates : Insert(f, a)
    <2>1. PICK f \in OrderingIDs, a \in Aggregates : Insert(f, a)
      BY <1>5
    <2>2. [ord |-> f, agg |-> a] \in Delivery!Recorded
      BY DEF Delivery!Recorded
    <2> QED
      BY <1>1, <2>1, <2>2 DEF Delivery!Next
  <1>6. CASE ~\E f \in OrderingIDs, a \in Aggregates : Insert(f, a)
    BY <1>2, <1>3, <1>4, <1>6 DEF Delivery!Next
  <1> QED
    BY <1>5, <1>6

\* The publishers deliver the events of every aggregate in order and without a
\* gap, for any number of publishers, aggregates, events, attempts and faults.
THEOREM PublishersImplementOrderedDelivery == Spec => DeliversInOrder
  <1>1. Init => Delivery!Init
    BY DEF Init, Delivery!Init, Recorded
  <1>2. OutboxInv /\ [Next]_vars =>
          [Delivery!Next]_<<{[ord |-> e, agg |-> rows[e].agg] : e \in Recorded}, delivered>>
    BY NextRefines
  <1> QED
    BY <1>1, <1>2, InitInv, NextInv, PTL DEF Spec, DeliversInOrder, Delivery!Spec

-----------------------------------------------------------------------------
(* Stale publishers.                                                       *)

(* What ClaimIsExclusive says of one row in one step.                      *)
RowProtected(e) ==
    /\ rows[e].status \in {"PUBLISHED", "FAILED"} => rows'[e] = rows[e]
    /\ (rows[e].status = "CLAIMED" /\ rows'[e].status # "CLAIMED") =>
          \E p \in Publishers : /\ event[p] = e /\ token[p] = rows[e].token
                                /\ pc[p] # "idle" /\ pc'[p] = "idle"

\* A final row is left alone, and only its own publisher ends a claim: the
\* token in the WHERE clauses fends off every other one.
LEMMA StepProtects ==
    ASSUME OutboxInv, Next, NEW e \in Recorded
    PROVE  RowProtected(e)
  <1>1. ASSUME NEW f \in OrderingIDs, NEW a \in Aggregates, Insert(f, a) PROVE RowProtected(e)
    BY <1>1 DEF Insert, RowProtected, OutboxInv, TypeOK, Recorded
  <1>2. ASSUME NEW p \in Publishers, NEW f \in OrderingIDs, Claim(p, f) PROVE RowProtected(e)
    BY <1>2 DEF Claim, Eligible, RowProtected, OutboxInv, TypeOK, Recorded
  <1>3. ASSUME NEW p \in Publishers, SendSucceeds(p) \/ SendFails(p) \/ Crash(p)
        PROVE  RowProtected(e)
    BY <1>3 DEF SendSucceeds, SendFails, Crash, RowProtected
  <1>4. ASSUME NEW p \in Publishers, MarkPublished(p) PROVE RowProtected(e)
    BY <1>4 DEF MarkPublished, Owns, EndClaim, RowProtected, OutboxInv, TypeOK, Recorded
  <1>5. ASSUME NEW p \in Publishers, MarkRetry(p) PROVE RowProtected(e)
    BY <1>5 DEF MarkRetry, Owns, EndClaim, RowProtected, OutboxInv, TypeOK, Recorded
  <1>6. ASSUME NEW f \in OrderingIDs, LeaseExpires(f) PROVE RowProtected(e)
    BY <1>6 DEF LeaseExpires, RowProtected, OutboxInv, TypeOK, Recorded
  <1>7. ASSUME NEW f \in OrderingIDs, BackoffElapses(f) PROVE RowProtected(e)
    BY <1>7 DEF BackoffElapses, RowProtected, OutboxInv, TypeOK, Recorded
  <1> QED
    BY <1>1, <1>2, <1>3, <1>4, <1>5, <1>6, <1>7 DEF Next, Publish

\* PUBLISHED and FAILED are final and a recovered claim is safe from the
\* publisher that lost it, for every number of publishers and faults.
THEOREM StaleClaimsAreHarmless == Spec => ClaimIsExclusive
  <1>1. OutboxInv /\ [Next]_vars => [\A e \in Recorded : RowProtected(e)]_vars
    BY StepProtects
  <1> QED
    BY <1>1, InitInv, NextInv, PTL DEF Spec, ClaimIsExclusive, RowProtected
=============================================================================
