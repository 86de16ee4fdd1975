-------------------------- MODULE SQSConsumerProofs --------------------------
(***************************************************************************)
(* The consumer, for any number of consumers, messages, faults and         *)
(* shutdowns: what may be acknowledged, where a message is while its       *)
(* visibility timer runs, what a receive is spent on, and in which order   *)
(* the messages of a wallet take effect.                                   *)
(***************************************************************************)
EXTENDS SQSConsumer, FiniteSetTheorems, WellFoundedInduction, TLAPS

Statuses == {"visible", "hidden", "backoff", "deleted", "dlq"}

(* What the actions need of the variables' types.                          *)
Typed ==
    /\ status \in [Messages -> Statuses]
    /\ pc \in [Consumers -> PCs]
    /\ batch \in [Consumers -> SUBSET Messages]

(* A loop about to call DeleteMessage does so for a committed message: the *)
(* commit of one step is what entitles the delete of a later one.          *)
DeleteEntitled ==
    \A c \in Consumers : pc[c] = "delete" => Current(c) \in committed

AckInv == Typed /\ DeleteEntitled /\ DeletedWasCommitted

-----------------------------------------------------------------------------
(* Steps that take no message off the queue for good and send no loop to   *)
(* DeleteMessage keep the rule.                                            *)
LEMMA QuietSteps ==
    ASSUME AckInv, committed \subseteq committed',
           status' \in [Messages -> Statuses],
           pc' \in [Consumers -> PCs],
           batch' \in [Consumers -> SUBSET Messages],
           \A m \in Messages : status'[m] = "deleted" => status[m] = "deleted",
           \A c \in Consumers :
               pc'[c] = "delete" => pc[c] = "delete" /\ batch'[c] = batch[c]
    PROVE  AckInv'
  BY DEF AckInv, Typed, DeleteEntitled, DeletedWasCommitted, Current

(* A message is given the status s other than deleted.                     *)
LEMMA SetStatusQuiet ==
    ASSUME NEW m, NEW s \in Statuses \ {"deleted"},
           Typed, SetStatus(m, s)
    PROVE  /\ status' \in [Messages -> Statuses]
           /\ \A n \in Messages : status'[n] = "deleted" => status[n] = "deleted"
  BY DEF SetStatus, Typed, Statuses

(* A loop goes to a label other than delete and touches no other batch.    *)
LEMMA GotoQuiet ==
    ASSUME NEW c \in Consumers, NEW l \in PCs \ {"delete"},
           Typed, Goto(c, l),
           \A d \in Consumers \ {c} : batch'[d] = batch[d]
    PROVE  /\ pc' \in [Consumers -> PCs]
           /\ \A d \in Consumers :
                  pc'[d] = "delete" => pc[d] = "delete" /\ batch'[d] = batch[d]
  BY DEF Goto, Typed, PCs

(* The end of handleMessage.                                               *)
LEMMA HandledQuiet ==
    ASSUME NEW c \in Consumers, Typed, Handled(c)
    PROVE  /\ pc' \in [Consumers -> PCs]
           /\ batch' \in [Consumers -> SUBSET Messages]
           /\ \A d \in Consumers :
                  pc'[d] = "delete" => pc[d] = "delete" /\ batch'[d] = batch[d]
  BY DEF Handled, Goto, Typed, PCs

(* The lifecycle of a consumer.                                            *)
LEMMA LifecycleAck ==
    ASSUME AckInv, NEW c \in Consumers,
           Start(c) \/ Stop(c) \/ Stopped(c) \/ Crash(c)
    PROVE  AckInv'
  <1>1. Typed
    BY DEF AckInv
  <1>2. \/ Goto(c, "poll") /\ UNCHANGED batch
        \/ UNCHANGED <<pc, batch>>
        \/ Goto(c, "stopped") /\ batch' \in {batch, [batch EXCEPT ![c] = {}]}
    BY DEF Start, Stop, Stopped, Crash
  <1>3. UNCHANGED <<status, committed>>
    BY DEF Start, Stop, Stopped, Crash, queue
  <1>4. /\ pc' \in [Consumers -> PCs]
        /\ batch' \in [Consumers -> SUBSET Messages]
        /\ \A d \in Consumers :
               pc'[d] = "delete" => pc[d] = "delete" /\ batch'[d] = batch[d]
    BY <1>1, <1>2 DEF Goto, Typed, PCs
  <1>5. QED
    BY <1>1, <1>3, <1>4, QuietSteps DEF Typed

(* Polling and receiving.                                                  *)
LEMMA ReceiveAck ==
    ASSUME AckInv, NEW c \in Consumers,
           Poll(c) \/ Receive(c) \/ ReceiveEmpty(c) \/ ReceiveFails(c)
             \/ ReceiveLost(c) \/ NextMessage(c)
    PROVE  AckInv'
  <1>1. Typed
    BY DEF AckInv
  <1>2. /\ status' \in [Messages -> Statuses]
        /\ \A m \in Messages : status'[m] = "deleted" => status[m] = "deleted"
    <2>1. \/ UNCHANGED status
          \/ \E b \in Batches :
               status' = [m \in Messages |-> IF m \in b THEN "hidden" ELSE status[m]]
      BY DEF Poll, Receive, ReceiveEmpty, ReceiveFails, ReceiveLost, NextMessage, queue
    <2>2. QED
      BY <1>1, <2>1 DEF Typed, Statuses
  <1>3. PICK l \in PCs \ {"delete"} : Goto(c, l)
    BY DEF Poll, Receive, ReceiveEmpty, ReceiveFails, ReceiveLost, NextMessage, PCs
  <1>4. UNCHANGED committed
    BY DEF Poll, Receive, ReceiveEmpty, ReceiveFails, ReceiveLost, NextMessage
  <1>5. \/ UNCHANGED batch
        \/ \E b \in SUBSET Messages : batch' = [batch EXCEPT ![c] = b]
    BY DEF Poll, Receive, ReceiveEmpty, ReceiveFails, ReceiveLost, NextMessage, Batches
  <1>6. /\ batch' \in [Consumers -> SUBSET Messages]
        /\ \A d \in Consumers \ {c} : batch'[d] = batch[d]
    BY <1>1, <1>5 DEF Typed
  <1>7. QED
    BY <1>1, <1>2, <1>3, <1>4, <1>6, GotoQuiet, QuietSteps

(* A release or a retry never takes a message off the queue.               *)
LEMMA GiveBackAck ==
    ASSUME AckInv, NEW c \in Consumers,
           Drain(c) \/ Release(c) \/ Retry(c) \/ RetryFails(c)
    PROVE  AckInv'
  <1>1. Typed
    BY DEF AckInv
  <1>2. /\ status' \in [Messages -> Statuses]
        /\ \A m \in Messages : status'[m] = "deleted" => status[m] = "deleted"
    <2>1. \/ UNCHANGED status
          \/ \E s \in {"visible", "backoff"} : SetStatus(Current(c), s)
      BY DEF Drain, Release, Retry, RetryFails, ReleaseCall, queue
    <2>2. QED
      BY <1>1, <2>1, SetStatusQuiet DEF Typed, Statuses
  <1>3. UNCHANGED committed
    BY DEF Drain, Release, Retry, RetryFails
  <1>4. CASE Drain(c)
    <2>1. PICK l \in PCs \ {"delete"} : Goto(c, l)
      BY <1>4 DEF Drain, PCs
    <2>2. /\ batch' \in [Consumers -> SUBSET Messages]
          /\ \A d \in Consumers \ {c} : batch'[d] = batch[d]
      BY <1>1, <1>4 DEF Drain, Typed
    <2>3. QED
      BY <1>1, <1>2, <1>3, <2>1, <2>2, GotoQuiet, QuietSteps
  <1>5. CASE Handled(c)
    BY <1>1, <1>2, <1>3, <1>5, HandledQuiet, QuietSteps
  <1>6. QED
    BY <1>4, <1>5 DEF Release, Retry, RetryFails

(* ProcessMessage: the only way to DeleteMessage is its success.           *)
LEMMA ProcessAck ==
    ASSUME AckInv, NEW c \in Consumers, ProcessSucceeds(c) \/ ProcessFails(c)
    PROVE  AckInv'
  <1>1. Typed /\ UNCHANGED <<status, batch>> /\ committed \subseteq committed'
    BY DEF AckInv, ProcessSucceeds, ProcessFails, ProcessError, queue
  <1>2. CASE ProcessFails(c)
    <2>1. PICK l \in PCs \ {"delete"} : Goto(c, l)
      BY <1>2 DEF ProcessFails, PCs
    <2>2. QED
      BY <1>1, <2>1, GotoQuiet, QuietSteps DEF Typed
  <1>3. CASE ProcessSucceeds(c)
    <2>1. Current(c)' = Current(c) /\ Current(c) \in committed'
      BY <1>1, <1>3 DEF ProcessSucceeds, Current
    <2>2. \A d \in Consumers \ {c} : pc'[d] = pc[d] /\ batch'[d] = batch[d]
      BY <1>1, <1>3 DEF ProcessSucceeds, Goto, Typed
    <2>3. Typed'
      BY <1>1, <1>3 DEF ProcessSucceeds, Goto, Typed, PCs
    <2>4. DeleteEntitled'
      BY <1>1, <2>1, <2>2 DEF AckInv, DeleteEntitled, Current
    <2>5. DeletedWasCommitted'
      BY <1>1 DEF AckInv, DeletedWasCommitted
    <2>6. QED
      BY <2>3, <2>4, <2>5 DEF AckInv
  <1>4. QED
    BY <1>2, <1>3

(* DeleteMessage removes the current message, which is committed.          *)
LEMMA DeleteAck ==
    ASSUME AckInv, NEW c \in Consumers, DeleteSucceeds(c) \/ DeleteFails(c)
    PROVE  AckInv'
  <1>1. Typed /\ UNCHANGED committed /\ Current(c) \in committed
    BY DEF AckInv, DeleteEntitled, DeleteSucceeds, DeleteFails
  <1>2. UNCHANGED status \/ SetStatus(Current(c), "deleted")
    BY DEF DeleteSucceeds, DeleteFails
  <1>3. /\ status' \in [Messages -> Statuses]
        /\ DeletedWasCommitted'
    BY <1>1, <1>2 DEF AckInv, DeletedWasCommitted, SetStatus, Typed, Statuses
  <1>4. Handled(c) \/ (Goto(c, "release") /\ UNCHANGED batch)
    BY DEF DeleteSucceeds, DeleteFails
  <1>5. /\ pc' \in [Consumers -> PCs]
        /\ batch' \in [Consumers -> SUBSET Messages]
        /\ \A d \in Consumers :
               pc'[d] = "delete" => pc[d] = "delete" /\ batch'[d] = batch[d]
    BY <1>1, <1>4 DEF Handled, Goto, Typed, PCs
  <1>6. DeleteEntitled'
    BY <1>1, <1>5 DEF AckInv, DeleteEntitled, Current
  <1>7. QED
    BY <1>3, <1>5, <1>6 DEF AckInv, Typed

(* The queue's own steps.                                                  *)
LEMMA QueueAck ==
    ASSUME AckInv, NEW m \in Messages, VisibilityExpires(m) \/ Redrive(m)
    PROVE  AckInv'
  <1>1. Typed /\ UNCHANGED <<committed, pc, batch>>
    BY DEF AckInv, VisibilityExpires, Redrive
  <1>2. \E s \in {"visible", "dlq"} : SetStatus(m, s)
    BY DEF VisibilityExpires, Redrive
  <1>3. QED
    BY <1>1, <1>2, SetStatusQuiet, QuietSteps DEF Typed, Statuses

-----------------------------------------------------------------------------
\* No message is acknowledged before its effect is durable: with any number of
\* consumers, stalled or crashed anywhere, handleMessage deletes a message only
\* after ProcessMessage has committed it.
THEOREM DeletedOnlyAfterCommit == Spec => []DeletedWasCommitted
  <1>1. Init => AckInv
    BY DEF Init, AckInv, Typed, DeleteEntitled, DeletedWasCommitted, Statuses, PCs
  <1>2. AckInv /\ [Next]_vars => AckInv'
    <2>1. SUFFICES ASSUME AckInv, [Next]_vars PROVE AckInv'
      OBVIOUS
    <2>2. CASE UNCHANGED vars
      BY <2>1, <2>2, QuietSteps DEF AckInv, Typed, vars, queue
    <2>3. ASSUME NEW c \in Consumers,
                 Run(c) \/ ReceiveLost(c) \/ Start(c) \/ Stop(c) \/ Stopped(c) \/ Crash(c)
          PROVE  AckInv'
      BY <2>1, <2>3, LifecycleAck, ReceiveAck, GiveBackAck, ProcessAck, DeleteAck DEF Run
    <2>4. ASSUME NEW m \in Messages, VisibilityExpires(m) \/ Redrive(m)
          PROVE  AckInv'
      BY <2>1, <2>4, QueueAck
    <2>5. QED
      BY <2>1, <2>2, <2>3, <2>4 DEF Next
  <1>3. AckInv => DeletedWasCommitted
    BY DEF AckInv
  <1>4. QED
    BY <1>1, <1>2, <1>3, PTL DEF Spec

-----------------------------------------------------------------------------
(* The turns of the poll loop: when it holds a batch, when its context is  *)
(* cancelled, and that a receipt handle is one the queue has issued.       *)
Turns ==
    \A c \in Consumers :
        /\ pc[c] \in {"stopped", "poll", "receiving", "done"} => batch[c] = {}
        /\ pc[c] \in {"drain", "process", "delete", "retry", "release"} => batch[c] # {}
        /\ ~active[c] => pc[c] = "stopped"
        /\ pc[c] \in {"drain", "release"} => cancelled[c]
        /\ \A m \in Messages : handle[c][m] <= receives[m]
        /\ \A m \in batch[c] : handle[c][m] # 0

TurnInv == TypeOK /\ Turns

(* A non-empty set of naturals has a least element, and Min finds it.      *)
LEMMA MinOfNaturals ==
    ASSUME NEW S \in SUBSET Nat, S # {}
    PROVE  Min(S) \in S /\ \A y \in S : Min(S) <= y
  <1> DEFINE Less == {p \in Nat \X Nat : p[1] < p[2]}
  <1>1. IsWellFoundedOn(Less, Nat)
    BY NatLessThanWellFounded DEF OpToRel
  <1> HIDE DEF Less
  <1>2. PICK x \in S : \A y \in S : ~(<<y, x>> \in Less)
    BY <1>1, WFMin
  <1>3. \A y \in S : x <= y
    <2>1. SUFFICES ASSUME NEW y \in S, ~(x <= y) PROVE FALSE
      OBVIOUS
    <2>2. x \in Nat /\ y \in Nat /\ y < x
      BY <2>1
    <2>3. <<y, x>> \in Less
      BY <2>2 DEF Less
    <2>4. QED
      BY <1>2, <2>3
  <1>4. QED
    BY <1>3 DEF Min

(* The message a loop is at is the earliest of its batch.                  *)
LEMMA CurrentIsFirst ==
    ASSUME TypeOK, NEW c \in Consumers, batch[c] # {}
    PROVE  /\ Current(c) \in batch[c] /\ Current(c) \in Messages
           /\ \A n \in batch[c] : Current(c) <= n
  <1>1. batch[c] \in SUBSET Messages /\ batch[c] \in SUBSET Nat
    BY MessagesAssumption DEF TypeOK
  <1>2. QED
    BY <1>1, MinOfNaturals DEF Current

(* What the bounds of a step may become.                                   *)
LEMMA FaultCounts ==
    ASSUME TypeOK, Fault
    PROVE  /\ faults' = faults + 1 /\ stops' = stops
           /\ faults' \in 0 .. MaxFaults /\ stops' \in 0 .. MaxStops
  BY ConfigAssumption DEF TypeOK, Fault

(* The lifecycle of a consumer.                                            *)
LEMMA LifecycleTurns ==
    ASSUME TurnInv, NEW c \in Consumers,
           Start(c) \/ Stop(c) \/ Stopped(c) \/ Crash(c)
    PROVE  TurnInv'
  <1> USE DEF TurnInv, TypeOK, Goto, PCs, queue, bounds
  <1>1. CASE Start(c)
    BY <1>1 DEF Start, Turns
  <1>2. CASE Stop(c)
    BY <1>2, ConfigAssumption DEF Stop, Turns
  <1>3. CASE Stopped(c)
    BY <1>3 DEF Stopped, Turns
  <1>4. CASE Crash(c)
    BY <1>4, FaultCounts DEF Crash, Turns
  <1>5. QED
    BY <1>1, <1>2, <1>3, <1>4

(* Polling and receiving.                                                  *)
LEMMA ReceiveTurns ==
    ASSUME TurnInv, NEW c \in Consumers,
           \/ Poll(c) \/ Receive(c) \/ ReceiveEmpty(c) \/ ReceiveFails(c)
           \/ ReceiveLost(c) \/ NextMessage(c)
    PROVE  TurnInv'
  <1> USE DEF TurnInv, TypeOK, Goto, PCs, queue, bounds
  <1>1. CASE Poll(c)
    BY <1>1 DEF Poll, Turns
  <1>2. CASE Receive(c)
    BY <1>2 DEF Receive, Turns, Batches
  <1>3. CASE ReceiveEmpty(c)
    BY <1>3 DEF ReceiveEmpty, Turns
  <1>4. CASE ReceiveFails(c)
    BY <1>4, FaultCounts DEF ReceiveFails, CallFails, Turns
  <1>5. CASE ReceiveLost(c)
    BY <1>5, FaultCounts DEF ReceiveLost, CallFails, Turns, Batches
  <1>6. CASE NextMessage(c)
    BY <1>6 DEF NextMessage, Turns
  <1>7. QED
    BY <1>1, <1>2, <1>3, <1>4, <1>5, <1>6

(* A message of the batch is given back.                                   *)
LEMMA GiveBackTurns ==
    ASSUME TurnInv, NEW c \in Consumers,
           Drain(c) \/ Release(c) \/ Retry(c) \/ RetryFails(c)
    PROVE  TurnInv'
  <1> USE DEF TurnInv, TypeOK, Goto, PCs, queue, bounds
  <1>1. CASE Drain(c)
    BY <1>1, FaultCounts DEF Drain, ReleaseCall, SetStatus, Turns
  <1>2. CASE Release(c)
    BY <1>2, FaultCounts DEF Release, ReleaseCall, SetStatus, Handled, Turns
  <1>3. CASE Retry(c)
    BY <1>3 DEF Retry, SetStatus, Handled, Turns
  <1>4. CASE RetryFails(c)
    BY <1>4, FaultCounts DEF RetryFails, CallFails, Handled, Turns
  <1>5. QED
    BY <1>1, <1>2, <1>3, <1>4

(* ProcessMessage and DeleteMessage.                                       *)
LEMMA ProcessTurns ==
    ASSUME TurnInv, NEW c \in Consumers,
           ProcessSucceeds(c) \/ ProcessFails(c) \/ DeleteSucceeds(c) \/ DeleteFails(c)
    PROVE  TurnInv'
  <1> USE DEF TurnInv, TypeOK, Goto, PCs, queue, bounds
  <1>1. pc[c] = "process" => Current(c) \in Messages
    BY CurrentIsFirst DEF Turns
  <1>2. CASE ProcessSucceeds(c)
    BY <1>1, <1>2 DEF ProcessSucceeds, Turns
  <1>3. CASE ProcessFails(c)
    BY <1>1, <1>3, FaultCounts DEF ProcessFails, ProcessError, CallFails, Turns
  <1>4. CASE DeleteSucceeds(c)
    BY <1>4 DEF DeleteSucceeds, SetStatus, Handled, Turns
  <1>5. CASE DeleteFails(c)
    <2>1. /\ status' \in [Messages -> {"visible", "hidden", "backoff", "deleted", "dlq"}]
          /\ faults' \in 0 .. MaxFaults /\ stops' \in 0 .. MaxStops
      BY <1>5, FaultCounts DEF DeleteFails, CallFails, SetStatus
    <2>2. UNCHANGED <<receives, committed, active, cancelled, handle>>
      BY <1>5 DEF DeleteFails, Handled
    <2>3. CASE cancelled[c] /\ Goto(c, "release") /\ UNCHANGED batch
      BY <1>5, <2>1, <2>2, <2>3 DEF DeleteFails, Turns
    <2>4. CASE Handled(c)
      BY <1>5, <2>1, <2>2, <2>4 DEF DeleteFails, Handled, Turns
    <2>5. QED
      BY <1>5, <2>3, <2>4 DEF DeleteFails
  <1>6. QED
    BY <1>2, <1>3, <1>4, <1>5

(* The queue's own steps.                                                  *)
LEMMA QueueTurns ==
    ASSUME TurnInv, NEW m \in Messages, VisibilityExpires(m) \/ Redrive(m)
    PROVE  TurnInv'
  <1>1. CASE VisibilityExpires(m)
    BY <1>1, FaultCounts DEF VisibilityExpires, SetStatus, TurnInv, TypeOK, Turns, bounds
  <1>2. CASE Redrive(m)
    BY <1>2 DEF Redrive, SetStatus, TurnInv, TypeOK, Turns, bounds
  <1>3. QED
    BY <1>1, <1>2

LEMMA TurnInvariant == Spec => []TurnInv
  <1>1. Init => TurnInv
    BY ConfigAssumption DEF Init, TurnInv, TypeOK, Turns, PCs
  <1>2. TurnInv /\ [Next]_vars => TurnInv'
    <2>1. SUFFICES ASSUME TurnInv, [Next]_vars PROVE TurnInv'
      OBVIOUS
    <2>2. CASE UNCHANGED vars
      BY <2>1, <2>2 DEF vars, queue, bounds, TurnInv, TypeOK, Turns
    <2>3. ASSUME NEW c \in Consumers,
                 Run(c) \/ ReceiveLost(c) \/ Start(c) \/ Stop(c) \/ Stopped(c) \/ Crash(c)
          PROVE  TurnInv'
      BY <2>1, <2>3, LifecycleTurns, ReceiveTurns, GiveBackTurns, ProcessTurns DEF Run
    <2>4. ASSUME NEW m \in Messages, VisibilityExpires(m) \/ Redrive(m)
          PROVE  TurnInv'
      BY <2>1, <2>4, QueueTurns
    <2>5. QED
      BY <2>1, <2>2, <2>3, <2>4 DEF Next
  <1>3. QED
    BY <1>1, <1>2, PTL DEF Spec

-----------------------------------------------------------------------------
(* Without faults only a message that can never be processed gets to the   *)
(* retry, which is the one call that a shutdown makes fail silently.       *)
RetriesArePoison ==
    faults = 0 => \A c \in Consumers : pc[c] = "retry" => Current(c) \in Poison

(* A hidden message has been received, so handle 0 is not its handle, and  *)
(* a cancelled context has had its Stop.                                   *)
HiddenWasReceived == \A m \in Messages : status[m] = "hidden" => receives[m] # 0

CancelledByStop == \A c \in Consumers : cancelled[c] => stops > 0

HandsInv ==
    RetriesArePoison /\ HiddenWasReceived /\ CancelledByStop /\ NoneAbandoned

(* A step that hides no message and takes none out of the hands that hold  *)
(* it under the handle in force.                                           *)
LEMMA HandsKept ==
    ASSUME HandsInv, RetriesArePoison', faults' = 0 => faults = 0,
           UNCHANGED <<receives, handle>>, stops > 0 => stops' > 0,
           \A c \in Consumers : cancelled'[c] => cancelled[c],
           \A m \in Messages : status'[m] = "hidden" => status[m] = "hidden",
           \A m \in Messages \ Poison :
               faults' = 0 /\ status'[m] = "hidden" => (Held(m) => Held(m)')
    PROVE  HandsInv'
  <1>1. \A m : HandleLost(m) => HandleLost(m)'
    BY DEF HandleLost
  <1>2. NoneAbandoned'
    BY <1>1 DEF HandsInv, NoneAbandoned
  <1>3. HiddenWasReceived' /\ CancelledByStop'
    BY DEF HandsInv, HiddenWasReceived, CancelledByStop
  <1>4. QED
    BY <1>2, <1>3 DEF HandsInv

(* The same for a loop that only moves on, to a label other than retry.    *)
LEMMA HandsKeptByMove ==
    ASSUME HandsInv, TypeOK, faults' = 0 => faults = 0, NEW c \in Consumers,
           NEW l \in PCs \ {"retry"}, Goto(c, l), stops > 0 => stops' > 0,
           \A d \in Consumers : cancelled'[d] => cancelled[d],
           UNCHANGED <<status, receives, batch, handle>>
    PROVE  HandsInv'
  <1>1. RetriesArePoison'
    BY DEF HandsInv, RetriesArePoison, Goto, TypeOK, Current
  <1>2. \A m : Held(m) => Held(m)'
    BY DEF Held
  <1>3. QED
    BY <1>1, <1>2, HandsKept

(* The lifecycle of a consumer: a crash is a fault.                        *)
LEMMA LifecycleHands ==
    ASSUME HandsInv, TurnInv, NEW c \in Consumers,
           Start(c) \/ Stop(c) \/ Stopped(c) \/ Crash(c)
    PROVE  HandsInv'
  <1>1. TypeOK
    BY DEF TurnInv
  <1>2. CASE Start(c) \/ Stopped(c)
    <2>1. \E l \in {"poll", "stopped"} : Goto(c, l)
      BY <1>2 DEF Start, Stopped
    <2>2. UNCHANGED <<faults, stops, status, receives, batch, handle>>
      BY <1>2 DEF Start, Stopped, queue, bounds
    <2>3. \A d \in Consumers : cancelled'[d] => cancelled[d]
      BY <1>1, <1>2 DEF Start, Stopped, TypeOK
    <2>4. QED
      BY <1>1, <2>1, <2>2, <2>3, HandsKeptByMove DEF PCs
  <1>3. CASE Stop(c)
    <2>1. UNCHANGED <<faults, status, receives, pc, batch, handle>>
      BY <1>3 DEF Stop, queue
    <2>2. stops' > 0
      BY <1>1, <1>3 DEF Stop, TypeOK
    <2>3. RetriesArePoison' /\ HiddenWasReceived' /\ CancelledByStop'
      BY <2>1, <2>2 DEF HandsInv, RetriesArePoison, Current, HiddenWasReceived, CancelledByStop
    <2>4. NoneAbandoned'
      BY <2>1, <2>2 DEF HandsInv, NoneAbandoned, Held, HandleLost
    <2>5. QED
      BY <2>3, <2>4 DEF HandsInv
  <1>4. CASE Crash(c)
    <2>1. faults' # 0 /\ stops' = stops
      BY <1>1, <1>4, FaultCounts DEF Crash, TypeOK
    <2>2. UNCHANGED <<status, receives, cancelled>>
      BY <1>4 DEF Crash, queue
    <2>3. QED
      BY <2>1, <2>2 DEF HandsInv, RetriesArePoison, HiddenWasReceived, CancelledByStop,
         NoneAbandoned
  <1>5. QED
    BY <1>2, <1>3, <1>4

(* A received message is in the hands of the loop that received it, which  *)
(* had none; an answer is lost by a fault or a shutdown, and then no loop  *)
(* has the handle.                                                         *)
LEMMA ReceiveHands ==
    ASSUME HandsInv, TurnInv, NEW c \in Consumers,
           \/ Poll(c) \/ Receive(c) \/ ReceiveEmpty(c) \/ ReceiveFails(c)
           \/ ReceiveLost(c) \/ NextMessage(c)
    PROVE  HandsInv'
  <1>1. TypeOK
    BY DEF TurnInv
  <1>2. CASE Poll(c) \/ ReceiveEmpty(c) \/ ReceiveFails(c)
    <2>1. \E l \in {"poll", "done", "receiving"} : Goto(c, l)
      BY <1>2 DEF Poll, ReceiveEmpty, ReceiveFails
    <2>2. UNCHANGED <<status, receives, batch, handle>>
      BY <1>2 DEF Poll, ReceiveEmpty, ReceiveFails, queue
    <2>3. /\ faults' = 0 => faults = 0
          /\ UNCHANGED <<stops, cancelled>>
      BY <1>1, <1>2, FaultCounts DEF Poll, ReceiveEmpty, ReceiveFails, CallFails, bounds,
         TypeOK
    <2>4. QED
      BY <1>1, <2>1, <2>2, <2>3, HandsKeptByMove DEF PCs
  <1>3. CASE Receive(c)
    <2>1. UNCHANGED <<faults, stops, cancelled>> /\ batch[c] = {}
      BY <1>3 DEF Receive, bounds, TurnInv, Turns
    <2>2. RetriesArePoison'
      BY <1>1, <1>3, <2>1 DEF Receive, HandsInv, RetriesArePoison, Goto, TypeOK, Current
    <2>3. PICK b \in Batches :
            /\ status' = [n \in Messages |-> IF n \in b THEN "hidden" ELSE status[n]]
            /\ receives' = [n \in Messages |->
                              IF n \in b THEN receives[n] + 1 ELSE receives[n]]
            /\ batch' = [batch EXCEPT ![c] = b]
            /\ handle' = [handle EXCEPT ![c] =
                             [n \in Messages |-> IF n \in b THEN receives'[n] ELSE 0]]
      BY <1>3 DEF Receive
    <2>4. HiddenWasReceived'
      BY <1>1, <2>3 DEF HandsInv, HiddenWasReceived, TypeOK
    <2>5. ASSUME faults = 0, NEW m \in Messages \ Poison, status'[m] = "hidden"
          PROVE  Held(m)' \/ HandleLost(m)'
      <3>1. CASE m \in b
        BY <1>1, <2>3, <3>1 DEF Held, TypeOK
      <3>2. CASE m \notin b /\ Held(m)
        <4>1. PICK d \in Consumers : m \in batch[d] /\ handle[d][m] = receives[m]
          BY <3>2 DEF Held
        <4>2. d # c
          BY <2>1, <4>1
        <4>3. QED
          BY <1>1, <2>3, <3>2, <4>1, <4>2 DEF Held, TypeOK
      <3>3. CASE m \notin b /\ HandleLost(m)
        <4>1. status[m] = "hidden" /\ receives'[m] = receives[m]
          BY <2>3, <2>5, <3>3
        <4>2. receives[m] # 0
          BY <4>1 DEF HandsInv, HiddenWasReceived
        <4>3. \A d \in Consumers : handle'[d][m] \in {handle[d][m], 0}
          BY <1>1, <2>3, <3>3 DEF TypeOK
        <4>4. QED
          BY <2>1, <3>3, <4>1, <4>2, <4>3 DEF HandleLost
      <3>4. QED
        BY <2>3, <2>5, <3>1, <3>2, <3>3 DEF HandsInv, NoneAbandoned
    <2>6. QED
      BY <2>1, <2>2, <2>4, <2>5 DEF HandsInv, NoneAbandoned, CancelledByStop
  <1>4. CASE ReceiveLost(c)
    <2>1. PICK b \in Batches :
            /\ status' = [n \in Messages |-> IF n \in b THEN "hidden" ELSE status[n]]
            /\ receives' = [n \in Messages |->
                              IF n \in b THEN receives[n] + 1 ELSE receives[n]]
      BY <1>4 DEF ReceiveLost
    <2>2. UNCHANGED <<cancelled, batch, handle>> /\ CallFails(c)
      BY <1>4 DEF ReceiveLost
    <2>3. /\ stops' = stops
          /\ faults' = 0 => faults = 0 /\ cancelled[c]
      BY <1>1, <2>2, FaultCounts DEF CallFails, bounds, TypeOK
    <2>4. RetriesArePoison'
      BY <1>1, <1>4, <2>2, <2>3 DEF ReceiveLost, HandsInv, RetriesArePoison, Goto, TypeOK,
         Current
    <2>5. HiddenWasReceived' /\ CancelledByStop'
      BY <1>1, <2>1, <2>2, <2>3 DEF HandsInv, HiddenWasReceived, CancelledByStop, TypeOK
    <2>6. ASSUME faults' = 0, NEW m \in Messages \ Poison, status'[m] = "hidden"
          PROVE  Held(m)' \/ HandleLost(m)'
      <3>1. CASE m \in b
        <4>1. receives'[m] = receives[m] + 1 /\ receives[m] \in Nat
          BY <1>1, <2>1, <3>1 DEF TypeOK
        <4>2. \A d \in Consumers : handle[d][m] \in Nat /\ handle[d][m] <= receives[m]
          BY <1>1 DEF TurnInv, Turns, TypeOK
        <4>3. \A d \in Consumers : handle'[d][m] # receives'[m]
          BY <2>2, <4>1, <4>2
        <4>4. stops' > 0
          BY <2>3, <2>6 DEF HandsInv, CancelledByStop
        <4>5. QED
          BY <4>3, <4>4 DEF HandleLost
      <3>2. CASE m \notin b
        <4>1. status[m] = "hidden" /\ receives'[m] = receives[m]
          BY <2>1, <2>6, <3>2
        <4>2. Held(m) \/ HandleLost(m)
          BY <2>3, <2>6, <4>1 DEF HandsInv, NoneAbandoned
        <4>3. QED
          BY <2>2, <2>3, <4>1, <4>2 DEF Held, HandleLost
      <3>3. QED
        BY <3>1, <3>2
    <2>7. QED
      BY <2>4, <2>5, <2>6 DEF HandsInv, NoneAbandoned
  <1>5. CASE NextMessage(c)
    <2>1. UNCHANGED <<faults, stops, status, receives, cancelled, batch, handle>>
      BY <1>5 DEF NextMessage, queue, bounds
    <2>2. RetriesArePoison'
      BY <1>1, <1>5, <2>1 DEF NextMessage, Decodes, Poison, HandsInv, RetriesArePoison,
         Goto, TypeOK, Current
    <2>3. \A m : Held(m) => Held(m)'
      BY <2>1 DEF Held
    <2>4. QED
      BY <2>1, <2>2, <2>3, HandsKept
  <1>6. QED
    BY <1>2, <1>3, <1>4, <1>5

(* A loop that is done with a message loses none that is hidden under the  *)
(* handle the loop has.                                                    *)
LEMMA DoneKeepsHands ==
    ASSUME HandsInv, TypeOK, NEW c \in Consumers,
           NEW l \in PCs \ {"retry"}, Goto(c, l),
           batch' = [batch EXCEPT ![c] = @ \ {Current(c)}],
           faults' = 0 => faults = 0, UNCHANGED <<stops, receives, cancelled, handle>>,
           \A m \in Messages : status'[m] = "hidden" => status[m] = "hidden",
           faults' = 0 /\ Current(c) \in Messages \ Poison
               /\ status'[Current(c)] = "hidden"
               => ~HandleValid(Current(c), handle[c][Current(c)])
    PROVE  HandsInv'
  <1>1. RetriesArePoison'
    BY DEF HandsInv, RetriesArePoison, Goto, TypeOK, Current
  <1>2. ASSUME faults' = 0, NEW m \in Messages \ Poison, status'[m] = "hidden"
        PROVE  Held(m) => Held(m)'
    <2>1. SUFFICES ASSUME Held(m) PROVE Held(m)'
      OBVIOUS
    <2>2. PICK d \in Consumers : m \in batch[d] /\ handle[d][m] = receives[m]
      BY <2>1 DEF Held
    <2>3. ~(d = c /\ m = Current(c))
      BY <1>2, <2>2 DEF HandleValid
    <2>4. QED
      BY <2>2, <2>3 DEF Held, TypeOK
  <1>3. QED
    BY <1>1, <1>2, HandsKept

(* ChangeMessageVisibility is made, made in vain because the handle is no  *)
(* longer in force, or fails: a fault, except for the retry of a message   *)
(* that can never be processed.                                            *)
LEMMA GiveBackHands ==
    ASSUME HandsInv, TurnInv, NEW c \in Consumers,
           Drain(c) \/ Release(c) \/ Retry(c) \/ RetryFails(c)
    PROVE  HandsInv'
  <1>1. TypeOK /\ Current(c) \in Messages
    BY CurrentIsFirst DEF TurnInv, Turns, Drain, Release, Retry, RetryFails
  <1>2. PICK l \in PCs \ {"retry"} : Goto(c, l)
    BY DEF Drain, Release, Retry, RetryFails, Handled, PCs
  <1>3. /\ batch' = [batch EXCEPT ![c] = @ \ {Current(c)}]
        /\ UNCHANGED <<receives, cancelled, handle>>
    BY DEF Drain, Release, Retry, RetryFails, Handled, queue
  <1>4. stops' = stops /\ (faults' = 0 => faults = 0)
    BY <1>1, FaultCounts DEF Drain, Release, Retry, RetryFails, CallFails, ReleaseCall,
       bounds, TypeOK
  <1>5. \A m \in Messages : status'[m] = "hidden" => status[m] = "hidden"
    BY <1>1 DEF Drain, Release, Retry, RetryFails, ReleaseCall, SetStatus, queue, TypeOK
  <1>6. ASSUME faults' = 0, Current(c) \in Messages \ Poison,
               status'[Current(c)] = "hidden"
        PROVE  ~HandleValid(Current(c), handle[c][Current(c)])
    <2>1. CASE Drain(c) \/ Release(c)
      <3>1. ReleaseCall(c) /\ ~Fault
        BY <1>1, <1>6, <2>1, FaultCounts DEF Drain, Release, TypeOK
      <3>2. QED
        BY <1>1, <1>6, <3>1 DEF ReleaseCall, SetStatus, TypeOK
    <2>2. CASE Retry(c)
      BY <1>1, <1>6, <2>2 DEF Retry, SetStatus, TypeOK
    <2>3. CASE RetryFails(c)
      BY <1>4, <1>6, <2>3 DEF RetryFails, HandsInv, RetriesArePoison
    <2>4. QED
      BY <2>1, <2>2, <2>3
  <1>7. QED
    BY <1>1, <1>2, <1>3, <1>4, <1>5, <1>6, DoneKeepsHands

(* ProcessMessage keeps the message, and DeleteMessage keeps it unless it  *)
(* is gone, was taken over, or a fault.                                    *)
LEMMA ProcessHands ==
    ASSUME HandsInv, TurnInv, NEW c \in Consumers,
           ProcessSucceeds(c) \/ ProcessFails(c) \/ DeleteSucceeds(c) \/ DeleteFails(c)
    PROVE  HandsInv'
  <1>1. TypeOK /\ Current(c) \in Messages
    BY CurrentIsFirst DEF TurnInv, Turns, ProcessSucceeds, ProcessFails,
       DeleteSucceeds, DeleteFails
  <1>2. CASE ProcessSucceeds(c)
    BY <1>1, <1>2, HandsKeptByMove DEF ProcessSucceeds, queue, bounds, PCs
  <1>3. CASE ProcessFails(c)
    <2>1. UNCHANGED <<status, receives, cancelled, batch, handle>>
      BY <1>3 DEF ProcessFails, queue
    <2>2. stops' = stops /\ (faults' = 0 => faults = 0)
      BY <1>1, <1>3, FaultCounts DEF ProcessFails, ProcessError, CallFails, bounds, TypeOK
    <2>3. ASSUME faults' = 0, ~cancelled[c] PROVE Current(c) \in Poison
      BY <1>1, <1>3, <2>3, FaultCounts DEF ProcessFails, ProcessError, CallFails, Poison,
         TypeOK
    <2>4. RetriesArePoison'
      BY <1>1, <1>3, <2>1, <2>2, <2>3 DEF ProcessFails, HandsInv, RetriesArePoison,
         Goto, TypeOK, Current
    <2>5. \A m : Held(m) => Held(m)'
      BY <2>1 DEF Held
    <2>6. QED
      BY <2>1, <2>2, <2>4, <2>5, HandsKept
  <1>4. CASE DeleteSucceeds(c)
    <2>1. /\ Goto(c, "next") /\ batch' = [batch EXCEPT ![c] = @ \ {Current(c)}]
          /\ UNCHANGED <<faults, stops, receives, cancelled, handle>>
      BY <1>4 DEF DeleteSucceeds, Handled, bounds
    <2>2. /\ \A m \in Messages : status'[m] = "hidden" => status[m] = "hidden"
          /\ status'[Current(c)] # "hidden"
      BY <1>1, <1>4 DEF DeleteSucceeds, SetStatus, TypeOK
    <2>3. QED
      BY <1>1, <2>1, <2>2, DoneKeepsHands DEF PCs
  <1>5. CASE DeleteFails(c)
    <2>1. /\ \A m \in Messages : status'[m] = "hidden" => status[m] = "hidden"
          /\ UNCHANGED <<receives, cancelled, handle>>
      BY <1>1, <1>5 DEF DeleteFails, Handled, SetStatus, TypeOK
    <2>2. stops' = stops /\ (faults' = 0 => faults = 0)
      BY <1>1, <1>5, FaultCounts DEF DeleteFails, CallFails, bounds, TypeOK
    <2>3. CASE cancelled[c]
      <3>1. Goto(c, "release") /\ UNCHANGED batch
        BY <1>5, <2>3 DEF DeleteFails
      <3>2. RetriesArePoison'
        BY <1>1, <2>2, <3>1 DEF HandsInv, RetriesArePoison, Goto, TypeOK, Current
      <3>3. \A m : Held(m) => Held(m)'
        BY <2>1, <3>1 DEF Held
      <3>4. QED
        BY <2>1, <2>2, <3>1, <3>2, <3>3, HandsKept
    <2>4. CASE ~cancelled[c]
      <3>1. Goto(c, "next") /\ batch' = [batch EXCEPT ![c] = @ \ {Current(c)}]
        BY <1>5, <2>4 DEF DeleteFails, Handled
      <3>2. faults' = 0 => ~HandleValid(Current(c), handle[c][Current(c)])
        BY <1>1, <1>5, <2>4, FaultCounts DEF DeleteFails, CallFails, TypeOK
      <3>3. QED
        BY <1>1, <2>1, <2>2, <3>1, <3>2, DoneKeepsHands DEF PCs
    <2>5. QED
      BY <2>3, <2>4
  <1>6. QED
    BY <1>2, <1>3, <1>4, <1>5

(* The queue hides nothing.                                                *)
LEMMA QueueHands ==
    ASSUME HandsInv, TurnInv, NEW m \in Messages, VisibilityExpires(m) \/ Redrive(m)
    PROVE  HandsInv'
  <1>1. TypeOK /\ UNCHANGED <<receives, pc, cancelled, batch, handle>>
    BY DEF TurnInv, VisibilityExpires, Redrive
  <1>2. stops' = stops /\ (faults' = 0 => faults = 0)
    BY <1>1, FaultCounts DEF VisibilityExpires, Redrive, bounds, TypeOK
  <1>3. \A n \in Messages : status'[n] = "hidden" => status[n] = "hidden"
    BY <1>1 DEF VisibilityExpires, Redrive, SetStatus, TypeOK
  <1>4. RetriesArePoison'
    BY <1>1, <1>2 DEF HandsInv, RetriesArePoison, Current
  <1>5. \A n : Held(n) => Held(n)'
    BY <1>1 DEF Held
  <1>6. QED
    BY <1>1, <1>2, <1>3, <1>4, <1>5, HandsKept

\* A shutdown abandons no message that a consumer was given: for any number of
\* consumers and wherever a Stop cuts a batch, a hidden message that can be
\* processed is in the hands of a loop whose receipt handle is in force, unless a
\* call has failed.  The messages of a receive that Stop cut before its answer
\* arrived are the exception: no loop has their handles.
THEOREM ShutdownReleasesWhatItHolds == Spec => []NoneAbandoned
  <1>1. Init => HandsInv
    BY DEF Init, HandsInv, RetriesArePoison, HiddenWasReceived, CancelledByStop,
       NoneAbandoned
  <1>2. HandsInv /\ TurnInv /\ [Next]_vars => HandsInv'
    <2>1. SUFFICES ASSUME HandsInv, TurnInv, [Next]_vars PROVE HandsInv'
      OBVIOUS
    <2>2. CASE UNCHANGED vars
      BY <2>1, <2>2 DEF vars, queue, bounds, HandsInv, RetriesArePoison, HiddenWasReceived,
         CancelledByStop, NoneAbandoned, Held, HandleLost, Current
    <2>3. ASSUME NEW c \in Consumers,
                 Run(c) \/ ReceiveLost(c) \/ Start(c) \/ Stop(c) \/ Stopped(c) \/ Crash(c)
          PROVE  HandsInv'
      BY <2>1, <2>3, LifecycleHands, ReceiveHands, GiveBackHands, ProcessHands DEF Run
    <2>4. ASSUME NEW m \in Messages, VisibilityExpires(m) \/ Redrive(m)
          PROVE  HandsInv'
      BY <2>1, <2>4, QueueHands
    <2>5. QED
      BY <2>1, <2>2, <2>3, <2>4 DEF Next
  <1>3. HandsInv => NoneAbandoned
    BY DEF HandsInv
  <1>4. QED
    BY <1>1, <1>2, <1>3, TurnInvariant, PTL DEF Spec

-----------------------------------------------------------------------------
(* When a loop received m it received every earlier message of the wallet  *)
(* that was still in the queue.                                            *)
BatchesInOrder ==
    \A c \in Consumers : \A m \in batch[c] : \A n \in EarlierInGroup(m) :
        n \in InQueue => handle[c][n] # 0

(* A message that has left the queue does not come back.                   *)
LEMMA LeavesForGood ==
    ASSUME TurnInv, [Next]_vars
    PROVE  InQueue' \subseteq InQueue
  <1> USE DEF InQueue
  <1>1. TypeOK
    BY DEF TurnInv
  <1>2. CASE UNCHANGED status
    BY <1>2
  <1>3. ASSUME NEW m, m \in InQueue, NEW s, SetStatus(m, s)
        PROVE  InQueue' \subseteq InQueue
    BY <1>1, <1>3 DEF SetStatus, TypeOK
  <1>4. ASSUME NEW m, NEW s \in {"deleted", "dlq"}, SetStatus(m, s)
        PROVE  InQueue' \subseteq InQueue
    BY <1>1, <1>4 DEF SetStatus, TypeOK
  <1>5. ASSUME NEW b \in Batches,
               status' = [m \in Messages |-> IF m \in b THEN "hidden" ELSE status[m]]
        PROVE  InQueue' \subseteq InQueue
    BY <1>5 DEF Batches
  <1>6. ASSUME NEW c \in Consumers, Run(c) \/ ReceiveLost(c)
        PROVE  InQueue' \subseteq InQueue
    <2>1. CASE \/ Poll(c) \/ ReceiveEmpty(c) \/ ReceiveFails(c) \/ NextMessage(c)
               \/ ProcessSucceeds(c) \/ ProcessFails(c) \/ RetryFails(c)
      BY <1>2, <2>1 DEF Poll, ReceiveEmpty, ReceiveFails, NextMessage, ProcessSucceeds,
         ProcessFails, RetryFails, queue
    <2>2. CASE Receive(c) \/ ReceiveLost(c)
      BY <1>5, <2>2 DEF Receive, ReceiveLost
    <2>3. CASE DeleteSucceeds(c) \/ DeleteFails(c)
      BY <1>2, <1>4, <2>3 DEF DeleteSucceeds, DeleteFails
    <2>4. CASE Drain(c) \/ Release(c) \/ Retry(c)
      <3>1. Current(c) \in Messages
        BY <1>1, <2>4, CurrentIsFirst DEF TurnInv, Turns, Drain, Release, Retry
      <3>2. \/ UNCHANGED status
            \/ /\ HandleValid(Current(c), handle[c][Current(c)])
               /\ \E s \in {"visible", "backoff"} : SetStatus(Current(c), s)
        BY <2>4 DEF Drain, Release, Retry, ReleaseCall
      <3>3. QED
        BY <1>2, <1>3, <3>1, <3>2 DEF HandleValid
    <2>5. QED
      BY <1>6, <2>1, <2>2, <2>3, <2>4 DEF Run
  <1>7. ASSUME NEW c \in Consumers, Start(c) \/ Stop(c) \/ Stopped(c) \/ Crash(c)
        PROVE  InQueue' \subseteq InQueue
    BY <1>2, <1>7 DEF Start, Stop, Stopped, Crash, queue
  <1>8. ASSUME NEW m \in Messages, VisibilityExpires(m) \/ Redrive(m)
        PROVE  InQueue' \subseteq InQueue
    BY <1>3, <1>4, <1>8 DEF VisibilityExpires, Redrive
  <1>9. QED
    BY <1>2, <1>6, <1>7, <1>8 DEF Next, vars, queue

(* Only a receive changes the handles of a loop or adds to its batch.      *)
LEMMA OnlyReceiveFills ==
    ASSUME TurnInv, [Next]_vars, NEW c \in Consumers
    PROVE  Receive(c) \/ (batch'[c] \subseteq batch[c] /\ handle'[c] = handle[c])
  <1>1. TypeOK
    BY DEF TurnInv
  <1>2. CASE UNCHANGED <<batch, handle>>
    BY <1>2
  <1>3. ASSUME NEW d \in Consumers, Run(d) \/ ReceiveLost(d)
        PROVE  Receive(c) \/ (batch'[c] \subseteq batch[c] /\ handle'[c] = handle[c])
    <2>1. \/ Receive(d)
          \/ UNCHANGED <<batch, handle>>
          \/ batch' = [batch EXCEPT ![d] = @ \ {Current(d)}] /\ UNCHANGED handle
      BY <1>3 DEF Run, Poll, ReceiveEmpty, ReceiveFails, ReceiveLost, NextMessage, Drain,
         ProcessSucceeds, ProcessFails, DeleteSucceeds, DeleteFails, Retry, RetryFails,
         Release, Handled
    <2>2. CASE Receive(d) /\ d # c
      BY <1>1, <2>2 DEF Receive, TypeOK
    <2>3. QED
      BY <1>1, <2>1, <2>2 DEF TypeOK
  <1>4. ASSUME NEW d \in Consumers, Start(d) \/ Stop(d) \/ Stopped(d) \/ Crash(d)
        PROVE  batch'[c] \subseteq batch[c] /\ handle'[c] = handle[c]
    BY <1>1, <1>4 DEF Start, Stop, Stopped, Crash, TypeOK
  <1>5. ASSUME NEW m \in Messages, VisibilityExpires(m) \/ Redrive(m)
        PROVE  UNCHANGED <<batch, handle>>
    BY <1>5 DEF VisibilityExpires, Redrive
  <1>6. QED
    BY <1>2, <1>3, <1>4, <1>5 DEF Next, vars

LEMMA OrderInvariant == Spec => []BatchesInOrder
  <1>1. Init => BatchesInOrder
    BY DEF Init, BatchesInOrder
  <1>2. BatchesInOrder /\ TurnInv /\ [Next]_vars => BatchesInOrder'
    <2>1. SUFFICES ASSUME BatchesInOrder, TurnInv, [Next]_vars,
                          NEW c \in Consumers, NEW m \in batch'[c],
                          NEW n \in EarlierInGroup(m), n \in InQueue'
                   PROVE  handle'[c][n] # 0
      BY DEF BatchesInOrder, EarlierInGroup
    <2>2. n \in InQueue /\ n \in Messages
      BY <2>1, LeavesForGood DEF EarlierInGroup
    <2>3. CASE Receive(c)
      <3>1. PICK b \in Batches :
              /\ receives' = [k \in Messages |->
                                IF k \in b THEN receives[k] + 1 ELSE receives[k]]
              /\ batch' = [batch EXCEPT ![c] = b]
              /\ handle' = [handle EXCEPT ![c] =
                               [k \in Messages |-> IF k \in b THEN receives'[k] ELSE 0]]
        BY <2>3 DEF Receive
      <3>2. m \in b /\ n \in b
        BY <2>1, <2>2, <3>1 DEF Batches, TurnInv, TypeOK
      <3>3. handle'[c][n] = receives[n] + 1 /\ receives[n] \in Nat
        BY <2>1, <2>2, <3>1, <3>2 DEF TurnInv, TypeOK
      <3>4. QED
        BY <3>3
    <2>4. CASE batch'[c] \subseteq batch[c] /\ handle'[c] = handle[c]
      BY <2>1, <2>2, <2>4 DEF BatchesInOrder
    <2>5. QED
      BY <2>1, <2>3, <2>4, OnlyReceiveFills
  <1>3. QED
    BY <1>1, <1>2, TurnInvariant, PTL DEF Spec

\* The messages of one wallet take effect in the order they were sent, over any
\* number of poll loops, stalls, crashes and redeliveries: what a commit leaves
\* behind is committed, dead-lettered, or failed in the very batch whose rest
\* handleMessage then went on with.
THEOREM WalletOrderIsKept == Spec => CommitsInGroupOrder
  <1> DEFINE InOrder(m) ==
                \A n \in EarlierInGroup(m) :
                    \/ n \in committed \/ status[n] = "dlq"
                    \/ \E c \in Consumers :
                         m \in batch[c] /\ m = Current(c) /\ FailedInBatch(c, n)
  <1>1. ASSUME TurnInv, BatchesInOrder, DeletedWasCommitted, [Next]_vars
        PROVE  [\A m \in committed' \ committed : InOrder(m)]_vars
    <2>1. SUFFICES ASSUME NEW m \in committed' \ committed, NEW n \in EarlierInGroup(m),
                          n \notin committed, status[n] # "dlq"
                   PROVE  \E c \in Consumers :
                            m \in batch[c] /\ m = Current(c) /\ FailedInBatch(c, n)
      OBVIOUS
    <2>2. PICK c \in Consumers : pc[c] = "process" /\ m = Current(c)
      <3>1. ~UNCHANGED committed
        BY <2>1
      <3>2. PICK c \in Consumers : ProcessSucceeds(c) \/ ProcessFails(c)
        BY <1>1, <3>1 DEF Next, Run, Start, Stop, Stopped, Crash, Poll, Receive,
           ReceiveEmpty, ReceiveFails, ReceiveLost, NextMessage, Drain, DeleteSucceeds,
           DeleteFails, Retry, RetryFails, Release, VisibilityExpires, Redrive, vars
      <3>3. QED
        BY <2>1, <3>2 DEF ProcessSucceeds, ProcessFails, ProcessError
    <2>3. m \in batch[c] /\ \A k \in batch[c] : m <= k
      BY <1>1, <2>2, CurrentIsFirst DEF TurnInv, Turns
    <2>4. n \in InQueue
      BY <1>1, <2>1 DEF TurnInv, TypeOK, EarlierInGroup, InQueue, DeletedWasCommitted
    <2>5. handle[c][n] # 0
      BY <1>1, <2>1, <2>3, <2>4 DEF BatchesInOrder
    <2>6. n \notin batch[c]
      <3>1. n < m /\ n \in Nat /\ m \in Nat
        BY <1>1, <2>1, <2>3, MessagesAssumption DEF EarlierInGroup, TurnInv, TypeOK
      <3>2. QED
        BY <2>3, <3>1
    <2>7. QED
      BY <2>2, <2>3, <2>5, <2>6 DEF FailedInBatch
  <1>2. QED
    BY <1>1, TurnInvariant, OrderInvariant, DeletedOnlyAfterCommit, PTL
       DEF Spec, CommitsInGroupOrder

-----------------------------------------------------------------------------
(* A loop holds the message under the handle in force.                     *)
InHand(c, m) == m \in batch[c] /\ HandleValid(m, handle[c][m])

(* Stopping loops that may still release the message: each has a shutdown  *)
(* to spend on it.                                                         *)
Claims(m) ==
    {c \in Consumers : cancelled[c] /\ (pc[c] = "receiving" \/ InHand(c, m))}

(* The last receive may still end well: no fault or shutdown has been      *)
(* charged for it.                                                         *)
Uncharged(m) ==
    /\ \E c \in Consumers : InHand(c, m)
    /\ \A c \in Consumers : InHand(c, m) => ~(pc[c] = "retry" /\ m = Current(c))

Credit(m) == IF Uncharged(m) THEN 1 ELSE 0

(* Every receive of a message, but one that may end well, is charged to a  *)
(* fault or a shutdown of its own.                                         *)
Account(m) ==
    m \in InQueue =>
        receives[m] + Cardinality(Claims(m)) <= faults + stops + Credit(m)

Stopping == {c \in Consumers : cancelled[c]}

SpendInv ==
    /\ IsFiniteSet(Stopping)
    /\ \A m \in Messages \ Poison : Account(m)
    /\ OnlyPoisonIsDeadLettered

LEMMA ClaimsAreFinite ==
    ASSUME IsFiniteSet(Stopping), NEW m
    PROVE  IsFiniteSet(Claims(m)) /\ Cardinality(Claims(m)) \in Nat
  <1>1. Claims(m) \subseteq Stopping
    BY DEF Claims, Stopping
  <1>2. QED
    BY <1>1, FS_Subset, FS_CardinalityType

(* Faults and shutdowns are counted in naturals.                           *)
LEMMA BudgetIsNatural ==
    ASSUME TypeOK, TypeOK'
    PROVE  faults + stops \in Nat /\ faults' + stops' \in Nat
  <1>1. faults \in 0 .. MaxFaults /\ stops \in 0 .. MaxStops
    BY DEF TypeOK
  <1>2. faults' \in 0 .. MaxFaults /\ stops' \in 0 .. MaxStops
    BY DEF TypeOK
  <1>3. MaxFaults \in Nat /\ MaxStops \in Nat
    BY ConfigAssumption
  <1>4. faults \in Nat /\ stops \in Nat /\ faults' \in Nat /\ stops' \in Nat
    BY <1>1, <1>2, <1>3
  <1>5. \A a, b \in Nat : a + b \in Nat
    OBVIOUS
  <1>6. QED
    BY <1>4, <1>5

LEMMA Balance ==
    ASSUME NEW r \in Nat, NEW c \in Nat, NEW b \in Nat, NEW k \in {0, 1},
           NEW d \in Nat, NEW e \in Nat, NEW l \in {0, 1},
           r + c <= b + k, d <= c, b <= e, k <= l \/ d < c \/ b < e
    PROVE  r + d <= e + l
  OBVIOUS

(* The account of a message in a step that does not receive it: no claim   *)
(* is made, and if the credit is lost a fault, a shutdown or a claim pays. *)
LEMMA AccountKept ==
    ASSUME IsFiniteSet(Stopping), TypeOK, TypeOK', NEW m \in Messages, Account(m),
           InQueue' \subseteq InQueue, receives'[m] = receives[m],
           faults + stops <= faults' + stops',
           Claims(m)' \subseteq Claims(m),
           \/ m \notin InQueue'
           \/ Uncharged(m) => Uncharged(m)'
           \/ faults + stops < faults' + stops'
           \/ Claims(m)' # Claims(m)
    PROVE  Account(m)'
  <1>1. SUFFICES ASSUME m \in InQueue'
                 PROVE  receives'[m] + Cardinality(Claims(m)') <= faults' + stops' + Credit(m)'
    BY DEF Account
  <1>2. receives[m] + Cardinality(Claims(m)) <= faults + stops + Credit(m)
    BY <1>1 DEF Account
  <1>3. /\ IsFiniteSet(Claims(m)') /\ Cardinality(Claims(m)) \in Nat
        /\ Cardinality(Claims(m)') \in Nat
        /\ Cardinality(Claims(m)') <= Cardinality(Claims(m))
        /\ Claims(m)' # Claims(m) => Cardinality(Claims(m)') < Cardinality(Claims(m))
    <2>1. IsFiniteSet(Claims(m)) /\ Cardinality(Claims(m)) \in Nat
      BY ClaimsAreFinite
    <2>2. /\ IsFiniteSet(Claims(m)')
          /\ Cardinality(Claims(m)') <= Cardinality(Claims(m))
          /\ Cardinality(Claims(m)) = Cardinality(Claims(m)') => Claims(m) = Claims(m)'
      BY <2>1, FS_Subset
    <2>3. Cardinality(Claims(m)') \in Nat
      BY <2>2, FS_CardinalityType
    <2>4. QED
      BY <2>1, <2>2, <2>3
  <1>4. receives[m] \in Nat /\ faults + stops \in Nat /\ faults' + stops' \in Nat
    BY BudgetIsNatural DEF TypeOK
  <1>5. /\ Credit(m) \in {0, 1} /\ Credit(m)' \in {0, 1}
        /\ (Uncharged(m) => Uncharged(m)') => Credit(m) <= Credit(m)'
    BY DEF Credit
  <1>6. \/ Credit(m) <= Credit(m)'
        \/ Cardinality(Claims(m)') < Cardinality(Claims(m))
        \/ faults + stops < faults' + stops'
    BY <1>1, <1>3, <1>5
  <1>7. QED
    BY <1>2, <1>3, <1>4, <1>5, <1>6, Balance

(* The same for all messages.                                              *)
LEMMA SpendKept ==
    ASSUME SpendInv, TypeOK, TypeOK', InQueue' \subseteq InQueue, UNCHANGED receives,
           faults + stops <= faults' + stops',
           \A c \in Consumers : cancelled'[c] => cancelled[c],
           \A c \in Consumers : cancelled'[c] /\ pc'[c] = "receiving" => pc[c] = "receiving",
           \A m \in Messages \ Poison : status'[m] = "dlq" => status[m] = "dlq",
           \A m \in Messages \ Poison : \A c \in Consumers : InHand(c, m)' => InHand(c, m),
           \A m \in Messages \ Poison :
               \/ m \notin InQueue'
               \/ Uncharged(m) => Uncharged(m)'
               \/ faults + stops < faults' + stops'
               \/ Claims(m)' # Claims(m)
    PROVE  SpendInv'
  <1>1. IsFiniteSet(Stopping')
    <2>1. Stopping' \subseteq Stopping
      BY DEF Stopping
    <2>2. QED
      BY <2>1, FS_Subset DEF SpendInv
  <1>2. ASSUME NEW m \in Messages \ Poison
        PROVE  Account(m)'
    <2>1. Claims(m)' \subseteq Claims(m)
      BY <1>2 DEF Claims
    <2>2. IsFiniteSet(Stopping) /\ Account(m) /\ receives'[m] = receives[m]
      BY <1>2 DEF SpendInv
    <2>3. \/ m \notin InQueue'
          \/ Uncharged(m) => Uncharged(m)'
          \/ faults + stops < faults' + stops'
          \/ Claims(m)' # Claims(m)
      BY <1>2
    <2>4. QED
      BY <2>1, <2>2, <2>3, AccountKept
  <1>3. OnlyPoisonIsDeadLettered'
    <2>1. /\ faults + stops \in Nat /\ faults' + stops' \in Nat
          /\ MaxReceiveCount \in Nat
      BY ConfigAssumption, BudgetIsNatural
    <2>2. faults + stops >= MaxReceiveCount => faults' + stops' >= MaxReceiveCount
      BY <2>1
    <2>3. QED
      BY <2>2 DEF SpendInv, OnlyPoisonIsDeadLettered
  <1>4. QED
    BY <1>1, <1>2, <1>3 DEF SpendInv

(* What every step may rely on.                                            *)
Step == TurnInv /\ TurnInv' /\ InQueue' \subseteq InQueue

(* A fault is one more than the faults and shutdowns before.               *)
LEMMA FaultPays ==
    ASSUME TypeOK, TypeOK', Fault
    PROVE  faults + stops < faults' + stops' /\ faults + stops <= faults' + stops'
  <1>1. faults \in Nat /\ stops \in Nat
    BY ConfigAssumption DEF TypeOK
  <1>2. faults' = faults + 1 /\ stops' = stops
    BY DEF Fault
  <1>3. QED
    BY <1>1, <1>2

(* A loop moves on and neither the queue nor a batch changes: it does not  *)
(* begin to receive with a cancelled context, and it gets to the retry of  *)
(* a message that can be processed only by a fault.                        *)
LEMMA SpendMove ==
    ASSUME SpendInv, Step, NEW c \in Consumers, NEW l \in PCs, Goto(c, l),
           UNCHANGED <<status, receives, batch, handle>>,
           \A d \in Consumers : cancelled'[d] => cancelled[d],
           l = "receiving" => ~cancelled[c],
           faults + stops <= faults' + stops',
           \/ l # "retry" \/ Current(c) \in Poison
           \/ faults + stops < faults' + stops'
    PROVE  SpendInv'
  <1>1. TypeOK /\ TypeOK' /\ InQueue' \subseteq InQueue
    BY DEF Step, TurnInv
  <1>2. pc' = [pc EXCEPT ![c] = l]
    BY DEF Goto
  <1>3. \A m : \A d \in Consumers : InHand(d, m)' <=> InHand(d, m)
    BY DEF InHand, HandleValid
  <1>4. \A d \in Consumers :
            cancelled'[d] /\ pc'[d] = "receiving" => pc[d] = "receiving"
    BY <1>1, <1>2 DEF TypeOK
  <1>5. ASSUME NEW m \in Messages \ Poison, ~(faults + stops < faults' + stops'),
               Uncharged(m)
        PROVE  Uncharged(m)'
    <2>1. \A d \in Consumers : Current(d)' = Current(d)
      BY DEF Current
    <2>2. \A d \in Consumers : pc'[d] = "retry" /\ m = Current(d) => pc[d] = "retry"
      BY <1>1, <1>2, <1>5 DEF TypeOK
    <2>3. QED
      BY <1>3, <1>5, <2>1, <2>2 DEF Uncharged
  <1>6. \A m \in Messages \ Poison : status'[m] = "dlq" => status[m] = "dlq"
    OBVIOUS
  <1>7. QED
    BY <1>1, <1>3, <1>4, <1>5, <1>6, SpendKept

(* A loop drops the message it is at, and the status of that message only  *)
(* changes within the queue or to deleted.  Dropping it under the handle   *)
(* in force is paid for, unless the message is deleted or was at its       *)
(* retry.                                                                  *)
LEMMA SpendDrop ==
    ASSUME SpendInv, Step, NEW c \in Consumers,
           NEW l \in PCs \ {"retry", "receiving"}, Goto(c, l),
           batch' = [batch EXCEPT ![c] = @ \ {Current(c)}],
           UNCHANGED <<receives, handle, cancelled>>,
           NEW s \in {"visible", "backoff", "deleted"},
           status' \in {status, [status EXCEPT ![Current(c)] = s]},
           status' # status => HandleValid(Current(c), handle[c][Current(c)]),
           batch[c] # {},
           faults + stops <= faults' + stops',
           \/ ~HandleValid(Current(c), handle[c][Current(c)])
           \/ status'[Current(c)] = "deleted"
           \/ Current(c) \in Poison
           \/ pc[c] = "retry"
           \/ cancelled[c]
           \/ faults + stops < faults' + stops'
    PROVE  SpendInv'
  <1>1. TypeOK /\ TypeOK' /\ InQueue' \subseteq InQueue
    BY DEF Step, TurnInv
  <1>2. PICK i : i = Current(c)
    OBVIOUS
  <1>3. /\ pc' = [pc EXCEPT ![c] = l]
        /\ i \in batch[c] /\ i \in Messages
    BY <1>1, <1>2, CurrentIsFirst DEF Goto
  <1>4. /\ \A m \in Messages : m # i => status'[m] = status[m]
        /\ status'[i] \in {"hidden", "backoff"} => status[i] \in {"hidden", "backoff"}
    BY <1>1, <1>2, <1>3 DEF HandleValid, TypeOK
  <1>5. /\ batch'[c] = batch[c] \ {i} /\ pc'[c] = l
        /\ l # "retry" /\ l # "receiving"
        /\ \A d \in Consumers \ {c} :
               batch'[d] = batch[d] /\ pc'[d] = pc[d] /\ Current(d)' = Current(d)
    BY <1>1, <1>2, <1>3 DEF TypeOK, Current
  <1>6. ASSUME NEW m \in Messages, NEW d \in Consumers
        PROVE  InHand(d, m)' => InHand(d, m)
    BY <1>4, <1>5, <1>6 DEF InHand, HandleValid
  <1>7. ASSUME NEW m \in Messages, NEW d \in Consumers, m # i \/ d # c,
               status'[m] = status[m]
        PROVE  InHand(d, m) => InHand(d, m)'
    <2>1. m \in batch[d] => m \in batch'[d]
      BY <1>5, <1>7
    <2>2. HandleValid(m, handle[d][m]) => HandleValid(m, handle[d][m])'
      BY <1>7 DEF HandleValid
    <2>3. QED
      BY <2>1, <2>2 DEF InHand
  <1>8. ASSUME NEW m \in Messages, Uncharged(m), status'[m] = status[m],
               m # i \/ ~InHand(c, m)
        PROVE  Uncharged(m)'
    <2>1. PICK d \in Consumers : InHand(d, m)
      BY <1>8 DEF Uncharged
    <2>2. InHand(d, m)'
      BY <1>7, <1>8, <2>1
    <2>3. ASSUME NEW e \in Consumers, InHand(e, m)'
          PROVE  ~(pc'[e] = "retry" /\ m = Current(e)')
      BY <1>5, <1>6, <1>8, <2>3 DEF Uncharged
    <2>4. QED
      BY <2>2, <2>3 DEF Uncharged
  <1>9. ASSUME NEW m \in Messages \ Poison
        PROVE  \/ m \notin InQueue'
               \/ Uncharged(m) => Uncharged(m)'
               \/ faults + stops < faults' + stops'
               \/ Claims(m)' # Claims(m)
    <2>1. CASE m # i
      BY <1>4, <1>8, <1>9, <2>1
    <2>2. CASE m = i /\ ~HandleValid(i, handle[c][i])
      BY <1>2, <1>3, <1>8, <2>2 DEF InHand
    <2>3. CASE m = i /\ status'[i] = "deleted"
      BY <2>3 DEF InQueue
    <2>4. CASE m = i /\ HandleValid(i, handle[c][i]) /\ pc[c] = "retry"
      BY <1>2, <1>3, <2>4 DEF Uncharged, InHand
    <2>5. CASE m = i /\ HandleValid(i, handle[c][i]) /\ cancelled[c]
      <3>1. c \in Claims(i)
        BY <1>3, <2>5 DEF Claims, InHand
      <3>2. c \notin Claims(i)'
        <4>1. pc'[c] # "receiving" /\ i \notin batch'[c]
          BY <1>5
        <4>2. QED
          BY <4>1 DEF Claims, InHand
      <3>3. QED
        BY <2>5, <3>1, <3>2
    <2>6. QED
      BY <1>2, <2>1, <2>2, <2>3, <2>4, <2>5
  <1>10. /\ \A d \in Consumers : cancelled'[d] => cancelled[d]
         /\ \A d \in Consumers :
                cancelled'[d] /\ pc'[d] = "receiving" => pc[d] = "receiving"
         /\ \A m \in Messages \ Poison : status'[m] = "dlq" => status[m] = "dlq"
    BY <1>1, <1>3, <1>5 DEF TypeOK
  <1>11. QED
    BY <1>1, <1>6, <1>9, <1>10, SpendKept

(* Steps that move a loop and leave the queue and the batches alone.       *)
LEMMA MoveSpends ==
    ASSUME SpendInv, Step, NEW c \in Consumers,
           \/ Start(c) \/ Stopped(c) \/ Poll(c) \/ ReceiveEmpty(c) \/ ReceiveFails(c)
           \/ NextMessage(c) \/ ProcessSucceeds(c) \/ ProcessFails(c)
    PROVE  SpendInv'
  <1>1. TypeOK /\ TypeOK'
    BY DEF Step, TurnInv
  <1>2. UNCHANGED <<status, receives, batch, handle>>
    BY DEF Start, Stopped, Poll, ReceiveEmpty, ReceiveFails, NextMessage,
       ProcessSucceeds, ProcessFails, queue
  <1>3. \A d \in Consumers : cancelled'[d] => cancelled[d]
    BY <1>1 DEF Start, Stopped, Poll, ReceiveEmpty, ReceiveFails, NextMessage,
       ProcessSucceeds, ProcessFails, TypeOK
  <1>4. UNCHANGED bounds \/ Fault
    BY DEF Start, Stopped, Poll, ReceiveEmpty, ReceiveFails, NextMessage,
       ProcessSucceeds, ProcessFails, ProcessError, CallFails
  <1>5. faults + stops <= faults' + stops'
    BY <1>1, <1>4, FaultPays, BudgetIsNatural DEF bounds
  <1>6. \E l \in PCs : /\ Goto(c, l)
                       /\ l = "receiving" => ~cancelled[c]
                       /\ l # "retry" \/ Current(c) \in Poison \/ Fault
    BY DEF Start, Stopped, Poll, ReceiveEmpty, ReceiveFails, NextMessage, Decodes,
       ProcessSucceeds, ProcessFails, ProcessError, CallFails, PCs, Poison
  <1>7. QED
    BY <1>1, <1>2, <1>3, <1>5, <1>6, FaultPays, SpendMove

(* Steps that end the handling of a message.                               *)
LEMMA DropSpends ==
    ASSUME SpendInv, Step, NEW c \in Consumers,
           \/ Drain(c) \/ Release(c) \/ Retry(c) \/ RetryFails(c)
           \/ DeleteSucceeds(c) \/ (DeleteFails(c) /\ ~cancelled[c])
    PROVE  SpendInv'
  <1>1. TypeOK /\ TypeOK' /\ batch[c] # {} /\ Current(c) \in Messages
    BY CurrentIsFirst DEF Step, TurnInv, Turns, Drain, Release, Retry, RetryFails,
       DeleteSucceeds, DeleteFails
  <1>2. PICK l \in PCs \ {"retry", "receiving"} : Goto(c, l)
    BY DEF Drain, Release, Retry, RetryFails, DeleteSucceeds, DeleteFails, Handled, PCs
  <1>3. /\ batch' = [batch EXCEPT ![c] = @ \ {Current(c)}]
        /\ UNCHANGED <<receives, handle, cancelled>>
    BY DEF Drain, Release, Retry, RetryFails, DeleteSucceeds, DeleteFails, Handled, queue
  <1>4. PICK s \in {"visible", "backoff", "deleted"} :
            /\ status' \in {status, [status EXCEPT ![Current(c)] = s]}
            /\ status' # status => HandleValid(Current(c), handle[c][Current(c)])
    BY DEF Drain, Release, Retry, RetryFails, DeleteSucceeds, DeleteFails, ReleaseCall,
       SetStatus, queue
  <1>5. UNCHANGED bounds \/ Fault
    BY DEF Drain, Release, Retry, RetryFails, DeleteSucceeds, DeleteFails, CallFails,
       ReleaseCall
  <1>6. faults + stops <= faults' + stops'
    BY <1>1, <1>5, FaultPays, BudgetIsNatural DEF bounds
  <1>7. \/ ~HandleValid(Current(c), handle[c][Current(c)])
        \/ status'[Current(c)] = "deleted"
        \/ pc[c] = "retry"
        \/ cancelled[c]
        \/ faults + stops < faults' + stops'
    <2>1. CASE Drain(c) \/ Release(c)
      BY <2>1 DEF Drain, Release, Step, TurnInv, Turns
    <2>2. CASE Retry(c) \/ RetryFails(c)
      BY <2>2 DEF Retry, RetryFails
    <2>3. CASE DeleteSucceeds(c)
      BY <1>1, <2>3 DEF DeleteSucceeds, SetStatus, TypeOK
    <2>4. CASE DeleteFails(c) /\ ~cancelled[c]
      BY <1>1, <2>4, FaultPays DEF DeleteFails, CallFails
    <2>5. QED
      BY <2>1, <2>2, <2>3, <2>4
  <1>8. QED
    BY <1>1, <1>2, <1>3, <1>4, <1>6, <1>7, SpendDrop

(* A failed delete of a stopping loop goes on to the release, and may have *)
(* reached the queue.                                                      *)
LEMMA DeleteCancelledSpends ==
    ASSUME SpendInv, Step, NEW c \in Consumers, DeleteFails(c), cancelled[c]
    PROVE  SpendInv'
  <1>1. TypeOK /\ TypeOK' /\ InQueue' \subseteq InQueue /\ Current(c) \in Messages
    BY CurrentIsFirst DEF Step, TurnInv, Turns, DeleteFails
  <1>2. Goto(c, "release") /\ UNCHANGED <<receives, batch, handle, cancelled>>
    BY DEF DeleteFails
  <1>3. UNCHANGED bounds \/ Fault
    BY DEF DeleteFails, CallFails
  <1>4. faults + stops <= faults' + stops'
    BY <1>1, <1>3, FaultPays, BudgetIsNatural DEF bounds
  <1>5. CASE UNCHANGED status
    BY <1>2, <1>4, <1>5, SpendMove DEF PCs
  <1>6. CASE SetStatus(Current(c), "deleted")
    <2>1. \A m \in Messages : status'[m] \in {status[m], "deleted"}
      BY <1>1, <1>6 DEF SetStatus, TypeOK
    <2>2. \A m \in Messages : \A d \in Consumers : InHand(d, m)' => InHand(d, m)
      BY <1>2, <2>1 DEF InHand, HandleValid
    <2>3. \A m \in Messages : m \in InQueue' => status'[m] = status[m]
      BY <2>1 DEF InQueue
    <2>4. \A d \in Consumers : pc'[d] \in {pc[d], "release"} /\ Current(d)' = Current(d)
      BY <1>1, <1>2 DEF Goto, TypeOK, Current
    <2>5. ASSUME NEW m \in Messages, m \in InQueue', Uncharged(m)
          PROVE  Uncharged(m)'
      <3>1. \A d \in Consumers : InHand(d, m)' <=> InHand(d, m)
        BY <1>2, <2>3, <2>5 DEF InHand, HandleValid
      <3>2. QED
        BY <2>4, <2>5, <3>1 DEF Uncharged
    <2>6. /\ \A d \in Consumers : cancelled'[d] => cancelled[d]
          /\ \A d \in Consumers :
                 cancelled'[d] /\ pc'[d] = "receiving" => pc[d] = "receiving"
          /\ \A m \in Messages \ Poison : status'[m] = "dlq" => status[m] = "dlq"
      BY <1>2, <2>1, <2>4
    <2>7. QED
      BY <1>1, <1>2, <1>4, <2>2, <2>5, <2>6, SpendKept
  <1>7. QED
    BY <1>5, <1>6 DEF DeleteFails

(* A crash pays for every message of the batch.                            *)
LEMMA CrashSpends ==
    ASSUME SpendInv, Step, NEW c \in Consumers, Crash(c)
    PROVE  SpendInv'
  <1>1. TypeOK /\ TypeOK' /\ InQueue' \subseteq InQueue
    BY DEF Step, TurnInv
  <1>2. /\ UNCHANGED <<status, receives, handle, cancelled>>
        /\ batch' = [batch EXCEPT ![c] = {}]
        /\ Goto(c, "stopped")
        /\ faults + stops < faults' + stops' /\ faults + stops <= faults' + stops'
    BY <1>1, FaultPays DEF Crash, queue
  <1>3. \A d \in Consumers : batch'[d] \subseteq batch[d]
    BY <1>1, <1>2 DEF TypeOK
  <1>4. \A m : \A d \in Consumers : InHand(d, m)' => InHand(d, m)
    BY <1>2, <1>3 DEF InHand, HandleValid
  <1>5. \A d \in Consumers :
            cancelled'[d] /\ pc'[d] = "receiving" => pc[d] = "receiving"
    BY <1>1, <1>2 DEF Goto, TypeOK
  <1>6. QED
    BY <1>1, <1>2, <1>4, <1>5, SpendKept

(* Stop gives the loop a shutdown to spend.                                *)
LEMMA StopSpends ==
    ASSUME SpendInv, Step, NEW c \in Consumers, Stop(c)
    PROVE  SpendInv'
  <1>1. TypeOK /\ TypeOK'
    BY DEF Step, TurnInv
  <1>2. /\ UNCHANGED <<status, receives, batch, handle, pc, faults>>
        /\ stops' = stops + 1 /\ cancelled' = [cancelled EXCEPT ![c] = TRUE]
    BY DEF Stop, queue
  <1>3. faults \in Nat /\ stops \in Nat /\ MaxReceiveCount \in Nat
    BY <1>1, ConfigAssumption DEF TypeOK
  <1>4. IsFiniteSet(Stopping')
    <2>1. Stopping' \subseteq Stopping \cup {c}
      BY <1>1, <1>2 DEF Stopping, TypeOK
    <2>2. IsFiniteSet(Stopping \cup {c})
      BY FS_AddElement DEF SpendInv
    <2>3. QED
      BY <2>1, <2>2, FS_Subset
  <1>5. ASSUME NEW m \in Messages \ Poison PROVE Account(m)'
    <2>1. SUFFICES ASSUME m \in InQueue'
                   PROVE  receives'[m] + Cardinality(Claims(m)')
                            <= faults' + stops' + Credit(m)'
      BY DEF Account
    <2>2. /\ receives[m] + Cardinality(Claims(m)) <= faults + stops + Credit(m)
          /\ IsFiniteSet(Claims(m)) /\ Cardinality(Claims(m)) \in Nat
      BY <1>2, <1>5, <2>1, ClaimsAreFinite DEF SpendInv, Account, InQueue
    <2>3. Credit(m)' = Credit(m) /\ Credit(m) \in Nat
      BY <1>2 DEF Credit, Uncharged, InHand, HandleValid, Current
    <2>4. Claims(m)' \subseteq Claims(m) \cup {c}
      BY <1>1, <1>2 DEF Claims, InHand, HandleValid, TypeOK
    <2>5. /\ IsFiniteSet(Claims(m) \cup {c})
          /\ Cardinality(Claims(m) \cup {c}) \in Nat
          /\ Cardinality(Claims(m) \cup {c}) <= Cardinality(Claims(m)) + 1
      <3>1. /\ IsFiniteSet(Claims(m) \cup {c})
            /\ Cardinality(Claims(m) \cup {c}) =
                 IF c \in Claims(m) THEN Cardinality(Claims(m))
                                   ELSE Cardinality(Claims(m)) + 1
        BY <2>2, FS_AddElement
      <3>2. QED
        BY <2>2, <3>1
    <2>6. /\ Cardinality(Claims(m)') <= Cardinality(Claims(m) \cup {c})
          /\ Cardinality(Claims(m)') \in Nat
      BY <2>4, <2>5, FS_Subset, FS_CardinalityType
    <2>7. receives[m] \in Nat
      BY <1>1, <1>5 DEF TypeOK
    <2>8. QED
      BY <1>2, <1>3, <2>2, <2>3, <2>5, <2>6, <2>7
  <1>6. OnlyPoisonIsDeadLettered'
    <2>1. faults + stops >= MaxReceiveCount => faults' + stops' >= MaxReceiveCount
      BY <1>2, <1>3
    <2>2. QED
      BY <1>2, <2>1 DEF SpendInv, OnlyPoisonIsDeadLettered
  <1>7. QED
    BY <1>4, <1>5, <1>6 DEF SpendInv

(* The account of a message that is received: the receive is a credit of   *)
(* the loop that gets it, or paid for by the fault or the claim of the     *)
(* shutdown that loses the answer.                                         *)
LEMMA AccountReceived ==
    ASSUME IsFiniteSet(Stopping), TypeOK, TypeOK', NEW m \in Messages, Account(m),
           status[m] = "visible", receives'[m] = receives[m] + 1,
           Claims(m)' \subseteq Claims(m),
           faults + stops <= faults' + stops',
           \/ faults + stops < faults' + stops'
           \/ Claims(m)' # Claims(m)
           \/ Uncharged(m)'
    PROVE  Account(m)'
  <1>1. ~Uncharged(m) /\ m \in InQueue
    BY DEF Uncharged, InHand, HandleValid, InQueue
  <1>2. receives[m] + Cardinality(Claims(m)) <= faults + stops
    <2>1. receives[m] + Cardinality(Claims(m)) <= faults + stops + 0
      BY <1>1 DEF Account, Credit
    <2>2. QED
      BY <2>1, BudgetIsNatural
  <1>3. IsFiniteSet(Claims(m)) /\ Cardinality(Claims(m)) \in Nat
    BY ClaimsAreFinite
  <1>4. /\ Cardinality(Claims(m)') \in Nat
        /\ Cardinality(Claims(m)') <= Cardinality(Claims(m))
        /\ Claims(m)' # Claims(m) => Cardinality(Claims(m)') < Cardinality(Claims(m))
    <2>1. /\ IsFiniteSet(Claims(m)')
          /\ Cardinality(Claims(m)') <= Cardinality(Claims(m))
          /\ Cardinality(Claims(m)) = Cardinality(Claims(m)') => Claims(m) = Claims(m)'
      BY <1>3, FS_Subset
    <2>2. Cardinality(Claims(m)') \in Nat
      BY <2>1, FS_CardinalityType
    <2>3. QED
      BY <1>3, <2>1, <2>2
  <1>5. receives[m] \in Nat /\ faults + stops \in Nat /\ faults' + stops' \in Nat
    BY BudgetIsNatural DEF TypeOK
  <1>6. Credit(m)' \in {0, 1} /\ (Uncharged(m)' => Credit(m)' = 1)
    BY DEF Credit
  <1>7. receives[m] + 1 + Cardinality(Claims(m)') <= faults' + stops' + Credit(m)'
    BY <1>2, <1>3, <1>4, <1>5, <1>6
  <1>8. QED
    BY <1>7 DEF Account

(* A handle issued before is not in force after another receive.           *)
LEMMA OldHandlesLapse ==
    ASSUME TurnInv, NEW m \in Messages, NEW d \in Consumers,
           receives'[m] = receives[m] + 1, handle'[d] = handle[d]
    PROVE  ~InHand(d, m)'
  <1>1. handle[d][m] <= receives[m] /\ handle[d][m] \in Nat /\ receives[m] \in Nat
    BY DEF TurnInv, Turns, TypeOK
  <1>2. handle'[d][m] # receives'[m]
    BY <1>1
  <1>3. QED
    BY <1>2 DEF InHand, HandleValid

(* Receiving a batch, whether or not its answer arrives.                   *)
LEMMA ReceiveSpends ==
    ASSUME SpendInv, Step, NEW c \in Consumers, Receive(c) \/ ReceiveLost(c)
    PROVE  SpendInv'
  <1>1. TypeOK /\ TypeOK' /\ TurnInv /\ InQueue' \subseteq InQueue
    BY DEF Step, TurnInv
  <1>2. PICK b \in Batches :
          /\ status' = [m \in Messages |-> IF m \in b THEN "hidden" ELSE status[m]]
          /\ receives' = [m \in Messages |->
                            IF m \in b THEN receives[m] + 1 ELSE receives[m]]
          /\ \/ ReceiveLost(c) /\ UNCHANGED <<batch, handle>>
             \/ /\ Receive(c)
                /\ batch' = [batch EXCEPT ![c] = b]
                /\ handle' = [handle EXCEPT ![c] =
                                 [m \in Messages |-> IF m \in b THEN receives'[m] ELSE 0]]
    BY DEF Receive, ReceiveLost
  <1>3. /\ UNCHANGED cancelled /\ batch[c] = {} /\ pc[c] = "receiving"
        /\ \E l \in {"next", "poll", "done"} : Goto(c, l)
    BY <1>1 DEF Receive, ReceiveLost, TurnInv, Turns
  <1>4. /\ pc'[c] \notin {"receiving", "retry"}
        /\ \A d \in Consumers \ {c} :
               /\ pc'[d] = pc[d] /\ batch'[d] = batch[d] /\ handle'[d] = handle[d]
               /\ Current(d)' = Current(d)
    BY <1>1, <1>2, <1>3 DEF Goto, TypeOK, Current
  <1>5. /\ faults + stops <= faults' + stops'
        /\ ReceiveLost(c) => cancelled[c] \/ faults + stops < faults' + stops'
    <2>1. UNCHANGED bounds \/ Fault
      BY DEF Receive, ReceiveLost, CallFails
    <2>2. ReceiveLost(c) => cancelled[c] \/ Fault
      BY DEF ReceiveLost, CallFails
    <2>3. QED
      BY <1>1, <2>1, <2>2, FaultPays, BudgetIsNatural DEF bounds
  <1>6. ASSUME NEW m \in Messages, m \in b, Account(m) PROVE Account(m)'
    <2>1. status[m] = "visible" /\ receives'[m] = receives[m] + 1 /\ status'[m] = "hidden"
      BY <1>2, <1>6 DEF Batches
    <2>2. \A d \in Consumers \ {c} : ~InHand(d, m)'
      BY <1>1, <1>4, <2>1, OldHandlesLapse
    <2>3. Claims(m)' \subseteq Claims(m)
      BY <1>3, <1>4, <2>2 DEF Claims
    <2>4. CASE Receive(c) /\ handle' = [handle EXCEPT ![c] =
                                 [n \in Messages |-> IF n \in b THEN receives'[n] ELSE 0]]
                          /\ batch' = [batch EXCEPT ![c] = b]
      <3>1. m \in batch'[c] /\ handle'[c][m] = receives'[m]
        BY <1>1, <1>6, <2>4 DEF TypeOK
      <3>2. InHand(c, m)'
        BY <2>1, <3>1 DEF InHand, HandleValid
      <3>3. Uncharged(m)'
        BY <1>4, <2>2, <3>2 DEF Uncharged
      <3>4. QED
        BY <1>1, <1>5, <1>6, <2>1, <2>3, <3>3, AccountReceived DEF SpendInv
    <2>5. CASE ReceiveLost(c) /\ UNCHANGED <<batch, handle>>
      <3>1. cancelled[c] => c \in Claims(m)
        BY <1>3 DEF Claims
      <3>2. c \notin Claims(m)'
        <4>1. batch'[c] = {} /\ pc'[c] # "receiving"
          BY <1>3, <1>4, <2>5
        <4>2. QED
          BY <4>1 DEF Claims, InHand
      <3>3. Claims(m)' # Claims(m) \/ faults + stops < faults' + stops'
        BY <1>5, <2>5, <3>1, <3>2
      <3>4. QED
        BY <1>1, <1>5, <1>6, <2>1, <2>3, <3>3, AccountReceived DEF SpendInv
    <2>6. QED
      BY <1>2, <2>4, <2>5
  <1>7. ASSUME NEW m \in Messages, m \notin b, Account(m) PROVE Account(m)'
    <2>1. status'[m] = status[m] /\ receives'[m] = receives[m]
      BY <1>2, <1>7
    <2>2. ~InHand(c, m)' /\ ~InHand(c, m)
      BY <1>1, <1>2, <1>3, <1>7 DEF InHand, TypeOK
    <2>3. \A d \in Consumers : InHand(d, m)' <=> InHand(d, m)
      BY <1>4, <2>1, <2>2 DEF InHand, HandleValid
    <2>4. Claims(m)' \subseteq Claims(m)
      BY <1>3, <1>4, <2>3 DEF Claims
    <2>5. Uncharged(m) => Uncharged(m)'
      BY <1>4, <2>3 DEF Uncharged
    <2>6. QED
      BY <1>1, <1>5, <1>7, <2>1, <2>4, <2>5, AccountKept DEF SpendInv
  <1>8. IsFiniteSet(Stopping')
    BY <1>3 DEF SpendInv, Stopping
  <1>9. OnlyPoisonIsDeadLettered'
    <2>1. \A m \in Messages : status'[m] = "dlq" => status[m] = "dlq"
      BY <1>2
    <2>2. MaxReceiveCount \in Nat
      BY ConfigAssumption
    <2>3. faults + stops >= MaxReceiveCount => faults' + stops' >= MaxReceiveCount
      BY <1>1, <1>5, <2>2, BudgetIsNatural
    <2>4. QED
      BY <2>1, <2>3 DEF SpendInv, OnlyPoisonIsDeadLettered
  <1>10. QED
    BY <1>6, <1>7, <1>8, <1>9 DEF SpendInv

(* A visibility timer that takes the message out of a loop's hands is a    *)
(* fault; otherwise the message was in no hands.                           *)
LEMMA ExpirySpends ==
    ASSUME SpendInv, Step, NEW m \in Messages, VisibilityExpires(m)
    PROVE  SpendInv'
  <1>1. TypeOK /\ TypeOK' /\ InQueue' \subseteq InQueue
    BY DEF Step, TurnInv
  <1>2. /\ UNCHANGED <<receives, pc, cancelled, batch, handle>>
        /\ status' = [status EXCEPT ![m] = "visible"]
        /\ IF Held(m) THEN Fault ELSE UNCHANGED bounds
    BY DEF VisibilityExpires, SetStatus
  <1>3. /\ faults + stops <= faults' + stops'
        /\ Held(m) => faults + stops < faults' + stops'
    BY <1>1, <1>2, FaultPays, BudgetIsNatural DEF bounds
  <1>4. status'[m] = "visible" /\ \A n \in Messages \ {m} : status'[n] = status[n]
    BY <1>1, <1>2 DEF TypeOK
  <1>5. \A n \in Messages : \A d \in Consumers : InHand(d, n)' => InHand(d, n)
    BY <1>2, <1>4 DEF InHand, HandleValid
  <1>6. Uncharged(m) => Held(m)
    BY DEF Uncharged, InHand, HandleValid, Held
  <1>7. \A n \in Messages \ {m} : Uncharged(n) => Uncharged(n)'
    BY <1>2, <1>4 DEF Uncharged, InHand, HandleValid, Current
  <1>8. /\ \A d \in Consumers : cancelled'[d] => cancelled[d]
        /\ \A d \in Consumers :
               cancelled'[d] /\ pc'[d] = "receiving" => pc[d] = "receiving"
        /\ \A n \in Messages \ Poison : status'[n] = "dlq" => status[n] = "dlq"
    BY <1>2, <1>4
  <1>9. \A n \in Messages \ Poison :
            \/ n \notin InQueue'
            \/ Uncharged(n) => Uncharged(n)'
            \/ faults + stops < faults' + stops'
            \/ Claims(n)' # Claims(n)
    BY <1>3, <1>6, <1>7
  <1>10. QED
    BY <1>1, <1>2, <1>3, <1>5, <1>8, <1>9, SpendKept

(* The redrive finds all receives of a message paid for.                   *)
LEMMA RedriveSpends ==
    ASSUME SpendInv, Step, NEW m \in Messages, Redrive(m)
    PROVE  SpendInv'
  <1>1. TypeOK /\ TypeOK' /\ InQueue' \subseteq InQueue
    BY DEF Step, TurnInv
  <1>2. /\ UNCHANGED <<receives, pc, cancelled, batch, handle, faults, stops>>
        /\ status' = [status EXCEPT ![m] = "dlq"]
        /\ status[m] = "visible" /\ receives[m] >= MaxReceiveCount
    BY DEF Redrive, SetStatus, bounds
  <1>3. status'[m] = "dlq" /\ \A n \in Messages \ {m} : status'[n] = status[n]
    BY <1>1, <1>2 DEF TypeOK
  <1>4. ASSUME m \notin Poison PROVE faults + stops >= MaxReceiveCount
    <2>1. ~Uncharged(m) /\ m \in InQueue
      BY <1>2 DEF Uncharged, InHand, HandleValid, InQueue
    <2>2. receives[m] + Cardinality(Claims(m)) <= faults + stops + 0
      BY <1>4, <2>1 DEF SpendInv, Account, Credit
    <2>3. Cardinality(Claims(m)) \in Nat /\ receives[m] \in Nat /\ MaxReceiveCount \in Nat
      BY <1>1, ClaimsAreFinite, ConfigAssumption DEF SpendInv, TypeOK
    <2>4. QED
      BY <1>1, <1>2, <2>2, <2>3, BudgetIsNatural
  <1>5. OnlyPoisonIsDeadLettered'
    BY <1>2, <1>3, <1>4 DEF SpendInv, OnlyPoisonIsDeadLettered
  <1>6. ASSUME NEW n \in Messages \ Poison PROVE Account(n)'
    <2>1. CASE n = m
      BY <1>3, <2>1 DEF Account, InQueue
    <2>2. CASE n # m
      <3>1. status'[n] = status[n]
        BY <1>3, <1>6, <2>2
      <3>2. \A d \in Consumers : InHand(d, n)' <=> InHand(d, n)
        BY <1>2, <3>1 DEF InHand, HandleValid
      <3>3. Claims(n)' = Claims(n)
        BY <1>2, <3>2 DEF Claims
      <3>4. Credit(n)' = Credit(n)
        BY <1>2, <3>2 DEF Credit, Uncharged, Current
      <3>5. QED
        BY <1>1, <1>2, <1>6, <3>3, <3>4 DEF SpendInv, Account
    <2>3. QED
      BY <2>1, <2>2
  <1>7. QED
    BY <1>2, <1>5, <1>6 DEF SpendInv, Stopping

\* The receive limit is not spent on healthy messages: for any number of
\* consumers and any redrive policy, a message that can be processed is moved to
\* the dead-letter queue only after as many failed calls, stalls, crashes and
\* shutdowns as it had receives, since release and retry never cost a receive
\* that no fault or shutdown pays for.
THEOREM ReceivesAreAccountedFor == Spec => []OnlyPoisonIsDeadLettered
  <1>1. Init => SpendInv
    <2>1. SUFFICES ASSUME Init PROVE SpendInv
      OBVIOUS
    <2>2. Stopping = {} /\ \A m : Claims(m) = {}
      BY <2>1 DEF Init, Stopping, Claims
    <2>3. ASSUME NEW m \in Messages PROVE ~Uncharged(m)
      BY <2>1 DEF Init, Uncharged, InHand
    <2>4. ASSUME NEW m \in Messages PROVE Account(m)
      <3>1. Cardinality(Claims(m)) = 0
        BY <2>2, FS_EmptySet
      <3>2. Credit(m) = 0 /\ receives[m] = 0 /\ faults = 0 /\ stops = 0
        BY <2>1, <2>3 DEF Init, Credit
      <3>3. QED
        BY <3>1, <3>2 DEF Account
    <2>5. QED
      BY <2>1, <2>2, <2>4, FS_EmptySet DEF Init, SpendInv, OnlyPoisonIsDeadLettered
  <1>2. SpendInv /\ TurnInv /\ TurnInv' /\ [Next]_vars => SpendInv'
    <2>1. SUFFICES ASSUME SpendInv, TurnInv, TurnInv', [Next]_vars PROVE SpendInv'
      OBVIOUS
    <2>2. Step
      BY <2>1, LeavesForGood DEF Step
    <2>3. CASE UNCHANGED vars
      BY <2>1, <2>3 DEF vars, queue, bounds, SpendInv, Stopping, Account, Claims, Credit,
         Uncharged, InHand, HandleValid, InQueue, Current, OnlyPoisonIsDeadLettered
    <2>4. ASSUME NEW c \in Consumers,
                 Run(c) \/ ReceiveLost(c) \/ Start(c) \/ Stop(c) \/ Stopped(c) \/ Crash(c)
          PROVE  SpendInv'
      BY <2>1, <2>2, <2>4, MoveSpends, DropSpends, DeleteCancelledSpends, CrashSpends,
         StopSpends, ReceiveSpends DEF Run
    <2>5. ASSUME NEW m \in Messages, VisibilityExpires(m) \/ Redrive(m)
          PROVE  SpendInv'
      BY <2>1, <2>2, <2>5, ExpirySpends, RedriveSpends
    <2>6. QED
      BY <2>1, <2>3, <2>4, <2>5 DEF Next
  <1>3. SpendInv => OnlyPoisonIsDeadLettered
    BY DEF SpendInv
  <1>4. QED
    BY <1>1, <1>2, <1>3, TurnInvariant, PTL DEF Spec

\* The queue and the loops keep to their types on every path, a crash and a late
\* answer included.
THEOREM ConsumerIsTyped == Spec => []TypeOK
  <1>1. TurnInv => TypeOK
    BY DEF TurnInv
  <1>2. QED
    BY <1>1, TurnInvariant, PTL
=============================================================================
