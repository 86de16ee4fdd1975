----------------------------- MODULE SQSConsumer -----------------------------
(***************************************************************************)
(* transport/messaging/consumer.go: the poll loops of any number of        *)
(* application instances over the FIFO queue of wager messages.            *)
(*                                                                         *)
(* Messages are numbered in the order they were sent.  A receipt handle    *)
(* is the number of the receive that issued it, which is also the          *)
(* ApproximateReceiveCount the consumer reads.  ProcessMessage is          *)
(* FinancialService; here it commits a message or fails.  Visibility       *)
(* timers are abstracted to the moment they run out.                       *)
(***************************************************************************)
EXTENDS Integers, FiniteSets, FiniteSetsExt

CONSTANTS
    Consumers,      \* poll loops
    Messages,       \* messages sent, a set of naturals
    GroupOf,        \* MessageGroupId of a message
    Malformed,      \* messages DecodeMessage rejects
    Conflicting,    \* messages ProcessMessage always refuses
    MaxMessages,    \* Config.MaxMessages
    MaxReceiveCount,    \* of the queue's redrive policy
    RetryBackoff,   \* Config.RetryVisibilityBackoff, in seconds
    VisibilityTimeout,  \* Config.VisibilityTimeout, in seconds
    MaxFaults,      \* bound: failed calls, stalls and crashes
    MaxStops        \* bound: shutdowns

ASSUME MessagesAssumption ==
    /\ Messages \subseteq Nat /\ IsFiniteSet(Messages)
    /\ Malformed \subseteq Messages /\ Conflicting \subseteq Messages

ASSUME ConfigAssumption ==
    /\ MaxMessages \in 1 .. 10
    /\ MaxReceiveCount \in Nat \ {0}
    /\ RetryBackoff \in Nat /\ VisibilityTimeout \in Nat \ {0}
    /\ MaxFaults \in Nat /\ MaxStops \in Nat

VARIABLES
    status,     \* per message: visible, hidden, backoff, deleted, dlq
    receives,   \* per message: receives so far
    committed,  \* messages whose ProcessMessage transaction is durable
    faults,     \* failed calls, stalls and crashes so far
    stops,      \* shutdowns so far
    pc,         \* per consumer: where its poll loop is
    active,     \* per consumer: Consumer.active # nil
    cancelled,  \* per consumer: its run context is cancelled
    batch,      \* per consumer: messages received and not yet handled
    handle      \* per consumer: ReceiptHandle of each message of the batch

queue == <<status, receives>>
bounds == <<faults, stops>>
vars == <<queue, committed, bounds, pc, active, cancelled, batch, handle>>

PCs ==
    {"stopped", "poll", "receiving", "next", "drain", "process", "delete",
     "retry", "release", "done"}

Poison == Malformed \cup Conflicting

-----------------------------------------------------------------------------
(* The queue.                                                              *)

InQueue == {m \in Messages : status[m] \in {"visible", "hidden", "backoff"}}

EarlierInGroup(m) == {n \in Messages : GroupOf[n] = GroupOf[m] /\ n < m}

(* A FIFO receive: no message of a group overtakes one still in the queue, *)
(* unless both are in the batch.                                           *)
Batches ==
    {b \in SUBSET Messages :
        /\ b # {} /\ Cardinality(b) <= MaxMessages
        /\ \A m \in b : /\ status[m] = "visible"
                        /\ receives[m] < MaxReceiveCount
                        /\ EarlierInGroup(m) \cap InQueue \subseteq b}

(* A call with handle h of message m reaches the message.                  *)
HandleValid(m, h) == status[m] \in {"hidden", "backoff"} /\ receives[m] = h

SetStatus(m, s) == status' = [status EXCEPT ![m] = s]

(* Some consumer is still going to handle the message under its handle.    *)
Held(m) ==
    \E c \in Consumers : m \in batch[c] /\ handle[c][m] = receives[m]

Fault ==
    /\ faults < MaxFaults
    /\ faults' = faults + 1
    /\ UNCHANGED stops

-----------------------------------------------------------------------------
(* The consumer.                                                           *)

Current(c) == Min(batch[c])

Goto(c, label) == pc' = [pc EXCEPT ![c] = label]

(* A call under the run context returns an error: its context is cancelled *)
(* by Stop, or it is a fault.  Either way it may have taken effect.        *)
CallFails(c) == IF cancelled[c] THEN UNCHANGED bounds ELSE Fault

(* DecodeMessage and messageType.                                          *)
Decodes(m) == m \notin Malformed

RetryDelay(attempt) ==
    LET delay == RetryBackoff * 2 ^ Min({attempt - 1, 30})
    IN  IF RetryBackoff = 0 THEN 0 ELSE Min({delay, VisibilityTimeout - 1})

(* handleMessage returns to the loop over the batch.                       *)
Handled(c) ==
    /\ batch' = [batch EXCEPT ![c] = @ \ {Current(c)}]
    /\ Goto(c, "next")
    /\ UNCHANGED handle

Start(c) ==
    /\ ~active[c]
    /\ active' = [active EXCEPT ![c] = TRUE]
    /\ cancelled' = [cancelled EXCEPT ![c] = FALSE]
    /\ Goto(c, "poll")
    /\ UNCHANGED <<queue, committed, bounds, batch, handle>>

(* Stop cancels the run context, and waits for done.                       *)
Stop(c) ==
    /\ active[c] /\ ~cancelled[c]
    /\ stops < MaxStops
    /\ stops' = stops + 1
    /\ cancelled' = [cancelled EXCEPT ![c] = TRUE]
    /\ UNCHANGED <<queue, committed, faults, pc, active, batch, handle>>

Stopped(c) ==
    /\ pc[c] = "done" /\ cancelled[c]
    /\ active' = [active EXCEPT ![c] = FALSE]
    /\ Goto(c, "stopped")
    /\ UNCHANGED <<queue, committed, bounds, cancelled, batch, handle>>

(* The process dies, or exits because the deadline of Stop has passed.     *)
Crash(c) ==
    /\ active[c]
    /\ Fault
    /\ active' = [active EXCEPT ![c] = FALSE]
    /\ batch' = [batch EXCEPT ![c] = {}]
    /\ Goto(c, "stopped")
    /\ UNCHANGED <<queue, committed, cancelled, handle>>

(* The top of the loop.                                                    *)
Poll(c) ==
    /\ pc[c] = "poll"
    /\ Goto(c, IF cancelled[c] THEN "done" ELSE "receiving")
    /\ UNCHANGED <<queue, committed, bounds, active, cancelled, batch, handle>>

Receive(c) ==
    /\ pc[c] = "receiving"
    /\ \E b \in Batches :
         /\ status' = [m \in Messages |-> IF m \in b THEN "hidden" ELSE status[m]]
         /\ receives' = [m \in Messages |->
                           IF m \in b THEN receives[m] + 1 ELSE receives[m]]
         /\ batch' = [batch EXCEPT ![c] = b]
         /\ handle' = [handle EXCEPT ![c] =
                          [m \in Messages |-> IF m \in b THEN receives'[m] ELSE 0]]
    /\ Goto(c, "next")
    /\ UNCHANGED <<committed, bounds, active, cancelled>>

(* Long polling returns empty handed.                                      *)
ReceiveEmpty(c) ==
    /\ pc[c] = "receiving"
    /\ Batches = {}
    /\ Goto(c, "poll")
    /\ UNCHANGED <<queue, committed, bounds, active, cancelled, batch, handle>>

(* Seeded fault: the loop returns on any error.                            *)
ReceiveFailsForGood(c) ==
    /\ pc[c] = "receiving"
    /\ CallFails(c)
    /\ Goto(c, "done")
    /\ UNCHANGED <<queue, committed, active, cancelled, batch, handle>>

(* ReceiveMessage returns an error: the loop ends or waits a second.       *)
ReceiveFails(c) ==
    /\ pc[c] = "receiving"
    /\ CallFails(c)
    /\ Goto(c, IF cancelled[c] THEN "done" ELSE "poll")
    /\ UNCHANGED <<queue, committed, active, cancelled, batch, handle>>

(* The queue hands out a batch but its answer never arrives, because Stop  *)
(* cuts the long poll or by a fault.                                       *)
ReceiveLost(c) ==
    /\ pc[c] = "receiving"
    /\ \E b \in Batches :
         /\ status' = [m \in Messages |-> IF m \in b THEN "hidden" ELSE status[m]]
         /\ receives' = [m \in Messages |->
                           IF m \in b THEN receives[m] + 1 ELSE receives[m]]
    /\ CallFails(c)
    /\ Goto(c, IF cancelled[c] THEN "done" ELSE "poll")
    /\ UNCHANGED <<committed, active, cancelled, batch, handle>>

(* The range over the batch, and handleMessage up to DecodeMessage.        *)
NextMessage(c) ==
    /\ pc[c] = "next"
    /\ Goto(c, IF batch[c] = {} THEN "poll"
               ELSE IF cancelled[c] THEN "drain"
               ELSE IF Decodes(Current(c)) THEN "process" ELSE "retry")
    /\ UNCHANGED <<queue, committed, bounds, active, cancelled, batch, handle>>

(* release: ChangeMessageVisibility(0) under a context of its own, whose   *)
(* error is ignored.                                                       *)
ReleaseCall(c) ==
    LET m == Current(c) IN
    \/ /\ IF HandleValid(m, handle[c][m]) THEN SetStatus(m, "visible")
                                          ELSE UNCHANGED status
       /\ UNCHANGED bounds
    \/ UNCHANGED status /\ Fault

(* Seeded fault: the loop just returns.                                    *)
DrainForgets(c) ==
    /\ pc[c] = "drain"
    /\ batch' = [batch EXCEPT ![c] = {}]
    /\ Goto(c, "done")
    /\ UNCHANGED <<queue, committed, bounds, active, cancelled, handle>>

(* Shutdown releases every message of the batch that was not started.      *)
Drain(c) ==
    /\ pc[c] = "drain"
    /\ ReleaseCall(c)
    /\ batch' = [batch EXCEPT ![c] = @ \ {Current(c)}]
    /\ Goto(c, IF batch'[c] = {} THEN "done" ELSE "drain")
    /\ UNCHANGED <<receives, committed, active, cancelled, handle>>

ProcessSucceeds(c) ==
    /\ pc[c] = "process"
    /\ Current(c) \notin Conflicting
    /\ committed' = committed \cup {Current(c)}
    /\ Goto(c, "delete")
    /\ UNCHANGED <<queue, bounds, active, cancelled, batch, handle>>

(* A refused message, a cancelled context, or a failing database; the      *)
(* commit may have taken effect.                                           *)
ProcessError(c) ==
    \/ Current(c) \in Conflicting /\ UNCHANGED <<committed, bounds>>
    \/ /\ Current(c) \notin Conflicting
       /\ committed' \in {committed, committed \cup {Current(c)}}
       /\ CallFails(c)

(* Seeded fault: a failed message is acknowledged.                         *)
ProcessFailsAcked(c) ==
    /\ pc[c] = "process"
    /\ ProcessError(c)
    /\ Goto(c, IF cancelled[c] THEN "release" ELSE "delete")
    /\ UNCHANGED <<queue, active, cancelled, batch, handle>>

(* ProcessMessage returns an error.                                        *)
ProcessFails(c) ==
    /\ pc[c] = "process"
    /\ ProcessError(c)
    /\ Goto(c, IF cancelled[c] THEN "release" ELSE "retry")
    /\ UNCHANGED <<queue, active, cancelled, batch, handle>>

(* Seeded fault: a replayed message is not deleted.                        *)
DeleteSkipped(c) ==
    /\ pc[c] = "delete"
    /\ Handled(c)
    /\ UNCHANGED <<queue, committed, bounds, active, cancelled>>

(* DeleteMessage returns nil.                                              *)
DeleteSucceeds(c) ==
    /\ pc[c] = "delete"
    /\ HandleValid(Current(c), handle[c][Current(c)])
    /\ SetStatus(Current(c), "deleted")
    /\ Handled(c)
    /\ UNCHANGED <<receives, committed, bounds, active, cancelled>>

(* DeleteMessage returns an error: the handle has expired, or the call     *)
(* fails, perhaps after the queue deleted the message.                     *)
DeleteFails(c) ==
    LET m == Current(c) IN
    /\ pc[c] = "delete"
    /\ \/ ~HandleValid(m, handle[c][m]) /\ UNCHANGED <<status, bounds>>
       \/ /\ HandleValid(m, handle[c][m])
          /\ UNCHANGED status \/ SetStatus(m, "deleted")
          /\ CallFails(c)
    /\ IF cancelled[c] THEN Goto(c, "release") /\ UNCHANGED <<batch, handle>>
                       ELSE Handled(c)
    /\ UNCHANGED <<receives, committed, active, cancelled>>

(* retry: ChangeMessageVisibility under the run context takes effect,      *)
(* whatever it returns.                                                    *)
Retry(c) ==
    LET m == Current(c) IN
    /\ pc[c] = "retry"
    /\ HandleValid(m, handle[c][m])
    /\ SetStatus(m, IF RetryDelay(handle[c][m]) = 0 THEN "visible" ELSE "backoff")
    /\ Handled(c)
    /\ UNCHANGED <<receives, committed, bounds, active, cancelled>>

RetryFails(c) ==
    LET m == Current(c) IN
    /\ pc[c] = "retry"
    /\ IF HandleValid(m, handle[c][m]) THEN CallFails(c) ELSE UNCHANGED bounds
    /\ Handled(c)
    /\ UNCHANGED <<queue, committed, active, cancelled>>

Release(c) ==
    /\ pc[c] = "release"
    /\ ReleaseCall(c)
    /\ Handled(c)
    /\ UNCHANGED <<receives, committed, active, cancelled>>

-----------------------------------------------------------------------------
(* The visibility timeout or the retry delay runs out; a consumer still    *)
(* about to handle the message has stalled.                                *)
VisibilityExpires(m) ==
    /\ status[m] \in {"hidden", "backoff"}
    /\ IF Held(m) THEN Fault ELSE UNCHANGED bounds
    /\ SetStatus(m, "visible")
    /\ UNCHANGED <<receives, committed, pc, active, cancelled, batch, handle>>

(* The redrive policy.                                                     *)
Redrive(m) ==
    /\ status[m] = "visible" /\ receives[m] >= MaxReceiveCount
    /\ SetStatus(m, "dlq")
    /\ UNCHANGED <<receives, committed, bounds, pc, active, cancelled, batch, handle>>

Init ==
    /\ status = [m \in Messages |-> "visible"]
    /\ receives = [m \in Messages |-> 0]
    /\ committed = {} /\ faults = 0 /\ stops = 0
    /\ pc = [c \in Consumers |-> "stopped"]
    /\ active = [c \in Consumers |-> FALSE]
    /\ cancelled = [c \in Consumers |-> FALSE]
    /\ batch = [c \in Consumers |-> {}]
    /\ handle = [c \in Consumers |-> [m \in Messages |-> 0]]

(* One turn of run and handleMessage.                                      *)
Run(c) ==
    \/ Poll(c) \/ Receive(c) \/ ReceiveEmpty(c) \/ ReceiveFails(c)
    \/ NextMessage(c) \/ Drain(c)
    \/ ProcessSucceeds(c) \/ ProcessFails(c)
    \/ DeleteSucceeds(c) \/ DeleteFails(c)
    \/ Retry(c) \/ RetryFails(c) \/ Release(c)

Next ==
    \/ \E c \in Consumers :
         Run(c) \/ ReceiveLost(c) \/ Start(c) \/ Stop(c) \/ Stopped(c) \/ Crash(c)
    \/ \E m \in Messages : VisibilityExpires(m) \/ Redrive(m)

Spec == Init /\ [][Next]_vars

(* A started loop keeps running, and the queue's timers and redrive work.  *)
Fairness ==
    /\ \A c \in Consumers : WF_vars(Run(c))
    /\ \A m \in Messages : WF_vars(VisibilityExpires(m)) /\ WF_vars(Redrive(m))

FairSpec == Spec /\ Fairness

-----------------------------------------------------------------------------
\* The queue and the loops hold what their types allow.
TypeOK ==
    /\ status \in [Messages -> {"visible", "hidden", "backoff", "deleted", "dlq"}]
    /\ receives \in [Messages -> Nat]
    /\ committed \subseteq Messages
    /\ faults \in 0 .. MaxFaults /\ stops \in 0 .. MaxStops
    /\ pc \in [Consumers -> PCs]
    /\ active \in [Consumers -> BOOLEAN]
    /\ cancelled \in [Consumers -> BOOLEAN]
    /\ batch \in [Consumers -> SUBSET Messages]
    /\ handle \in [Consumers -> [Messages -> Nat]]

\* A message leaves the queue for good only after its financial transaction is
\* durable, whatever calls failed, stalled or were answered late.
DeletedWasCommitted ==
    \A m \in Messages : status[m] = "deleted" => m \in committed

\* The receive limit is spent only on failures: a message that can be processed
\* reaches the dead-letter queue only after as many faults and shutdowns as the
\* redrive policy allows receives.
OnlyPoisonIsDeadLettered ==
    \A m \in Messages \ Poison :
        status[m] = "dlq" => faults + stops >= MaxReceiveCount

(* The batch of the message a consumer is handling held n too, and the     *)
(* loop has already left n behind.                                         *)
FailedInBatch(c, n) == handle[c][n] # 0 /\ n \notin batch[c]

\* The messages of one wallet take effect in the order they were sent, over any
\* number of consumers, stalls and retries, with one exception: when a message
\* fails, the loop goes on with the rest of its batch, so a later message of that
\* same batch may take effect before it.  With MaxMessages 1, the default, there
\* is no exception.
CommitsInGroupOrder ==
    [][\A m \in committed' \ committed : \A n \in EarlierInGroup(m) :
          \/ n \in committed \/ status[n] = "dlq"
          \/ \E c \in Consumers :
               m \in batch[c] /\ m = Current(c) /\ FailedInBatch(c, n)]_vars

(* No consumer was given the receipt handle of the last receive of m: a    *)
(* shutdown cut the long poll, and the messages it was handed stay hidden. *)
HandleLost(m) == stops > 0 /\ \A c \in Consumers : handle[c][m] # receives[m]

\* Without faults, no message whose receipt handle reached a consumer waits for
\* its visibility timeout: it is in that consumer's hands, or was released,
\* wherever a shutdown cut the batch.  Two kinds of message are abandoned by a
\* shutdown: those of a receive that was cut before its answer arrived, which
\* nothing can release, and a malformed or refused one whose retry comes after
\* Stop and runs on the cancelled context.
NoneAbandoned ==
    faults = 0 =>
        \A m \in Messages \ Poison :
            status[m] = "hidden" => Held(m) \/ HandleLost(m)

\* As long as one consumer stays started, every message is eventually deleted
\* or moved to the dead-letter queue.
EveryMessageSettles ==
    (\E c \in Consumers : <>[](active[c] /\ ~cancelled[c])) =>
        \A m \in Messages : <>(status[m] \in {"deleted", "dlq"})
=============================================================================
