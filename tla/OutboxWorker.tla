---------------------------- MODULE OutboxWorker ----------------------------
(***************************************************************************)
(* application/outbox/worker.go over OutboxRepository: publishers of any   *)
(* number of application instances claim rows of table outbox under a      *)
(* lease, send them to the FIFO event queue and mark them.                 *)
(*                                                                         *)
(* A row is named by its ordering id.  Time is abstracted: a row is due    *)
(* once its next_attempt_at has passed, and a claim is expired once its    *)
(* lease has.  Rows of one aggregate appear in the order of their ids;     *)
(* that is FinancialService's OutboxOrder.                                 *)
(***************************************************************************)
EXTENDS Integers, FiniteSets

CONSTANTS
    Publishers,     \* Worker loops
    Aggregates,     \* wallets and transactions
    MaxEvents,      \* bound: outbox rows
    MaxAttempts,    \* Config.MaxAttempts
    MaxFaults,      \* bound: crashes, and publishers slower than their lease
    None            \* no row, no claim

ASSUME BoundsAssumption ==
    /\ MaxEvents \in Nat
    /\ MaxAttempts \in Nat \ {0}
    /\ MaxFaults \in Nat

OrderingIDs == 1 .. MaxEvents

Statuses == {"PENDING", "CLAIMED", "PUBLISHED", "FAILED"}

Rows ==
    [agg : Aggregates, status : Statuses, attempts : Nat,
     token : Nat, due : BOOLEAN, expired : BOOLEAN]

ASSUME NoneAssumption == None \notin Rows /\ None \notin OrderingIDs

VARIABLES
    rows,       \* table outbox; claim_token is 0 when NULL
    tokens,     \* claim tokens drawn so far
    delivered,  \* events the queue accepted at least once
    faults,     \* crashes and overrun leases so far
    pc,         \* per publisher: idle, send, mark, retry
    event,      \* per publisher: OutboxRecord.OrderingID it claimed
    token,      \* per publisher: OutboxRecord.ClaimToken
    attempts    \* per publisher: OutboxRecord.Attempts

local == <<pc, event, token, attempts>>
vars == <<rows, tokens, delivered, faults, local>>

-----------------------------------------------------------------------------
Recorded == {e \in OrderingIDs : rows[e] # None}

Predecessors(e) == {f \in Recorded : rows[f].agg = rows[e].agg /\ f < e}

(* Seeded fault: only claimed predecessors hold a row back.                *)
EligibleBesideFailed(e) ==
    /\ \/ rows[e].status = "PENDING" /\ rows[e].due
       \/ rows[e].status = "CLAIMED" /\ rows[e].expired
    /\ \A f \in Predecessors(e) : rows[f].status \in {"PUBLISHED", "FAILED"}

(* Seeded fault: a claim is never taken over.                              *)
EligiblePendingOnly(e) ==
    /\ rows[e].status = "PENDING" /\ rows[e].due
    /\ \A f \in Predecessors(e) : rows[f].status = "PUBLISHED"

(* The WHERE clause of ClaimOneRecord.                                     *)
Eligible(e) ==
    /\ \/ rows[e].status = "PENDING" /\ rows[e].due
       \/ rows[e].status = "CLAIMED" /\ rows[e].expired
    /\ \A f \in Predecessors(e) : rows[f].status = "PUBLISHED"

(* Seeded fault: the updates match the event id alone.                     *)
OwnsAny(p) == TRUE

(* The WHERE clause of MarkPublished and MarkRetry.                        *)
Owns(p) ==
    /\ rows[event[p]].status = "CLAIMED"
    /\ rows[event[p]].token = token[p]

(* Some publisher is still working under the claim of row e.               *)
Attended(e) ==
    \E p \in Publishers : pc[p] # "idle" /\ event[p] = e /\ token[p] = rows[e].token

EndClaim(p) ==
    /\ pc' = [pc EXCEPT ![p] = "idle"]
    /\ event' = [event EXCEPT ![p] = None]
    /\ token' = [token EXCEPT ![p] = 0]
    /\ attempts' = [attempts EXCEPT ![p] = 0]

Settled(e, status) ==
    [agg |-> rows[e].agg, status |-> status, attempts |-> rows[e].attempts,
     token |-> 0, due |-> FALSE, expired |-> FALSE]

-----------------------------------------------------------------------------
(* InsertWithMetadata, committed by a financial transaction.               *)
Insert(e, a) ==
    /\ e \notin Recorded
    /\ \A f \in Recorded : rows[f].agg = a => f < e
    /\ rows' = [rows EXCEPT ![e] =
         [agg |-> a, status |-> "PENDING", attempts |-> 0,
          token |-> 0, due |-> TRUE, expired |-> FALSE]]
    /\ UNCHANGED <<tokens, delivered, faults, local>>

(* ClaimOneRecord: one statement claims one eligible row, counts the       *)
(* attempt and stamps a fresh token.                                       *)
Claim(p, e) ==
    /\ pc[p] = "idle"
    /\ e \in Recorded /\ Eligible(e)
    /\ tokens' = tokens + 1
    /\ rows' = [rows EXCEPT ![e] =
         [agg |-> rows[e].agg, status |-> "CLAIMED",
          attempts |-> rows[e].attempts + 1, token |-> tokens + 1,
          due |-> rows[e].due, expired |-> FALSE]]
    /\ pc' = [pc EXCEPT ![p] = "send"]
    /\ event' = [event EXCEPT ![p] = e]
    /\ token' = [token EXCEPT ![p] = tokens + 1]
    /\ attempts' = [attempts EXCEPT ![p] = rows[e].attempts + 1]
    /\ UNCHANGED <<delivered, faults>>

(* SendEvent returns nil.                                                  *)
SendSucceeds(p) ==
    /\ pc[p] = "send"
    /\ delivered' = delivered \cup {event[p]}
    /\ pc' = [pc EXCEPT ![p] = "mark"]
    /\ UNCHANGED <<rows, tokens, faults, event, token, attempts>>

(* SendEvent returns an error: the queue may have accepted the event.      *)
SendFails(p) ==
    /\ pc[p] = "send"
    /\ \/ UNCHANGED delivered
       \/ delivered' = delivered \cup {event[p]}
    /\ pc' = [pc EXCEPT ![p] = "retry"]
    /\ UNCHANGED <<rows, tokens, faults, event, token, attempts>>

(* Seeded fault: marked before the send.                                   *)
MarkBeforeSend(p) ==
    /\ pc[p] \in {"send", "mark"}
    /\ rows' = IF Owns(p) THEN [rows EXCEPT ![event[p]] = Settled(event[p], "PUBLISHED")]
               ELSE rows
    /\ EndClaim(p)
    /\ UNCHANGED <<tokens, delivered, faults>>

(* MarkPublished; no matching row is ErrOutboxClaimLost.                   *)
MarkPublished(p) ==
    /\ pc[p] = "mark"
    /\ rows' = IF Owns(p) THEN [rows EXCEPT ![event[p]] = Settled(event[p], "PUBLISHED")]
               ELSE rows
    /\ EndClaim(p)
    /\ UNCHANGED <<tokens, delivered, faults>>

(* MarkRetry: back to PENDING with a backoff, or FAILED at the limit.      *)
MarkRetry(p) ==
    /\ pc[p] = "retry"
    /\ rows' = IF Owns(p)
               THEN [rows EXCEPT ![event[p]] =
                       Settled(event[p], IF attempts[p] >= MaxAttempts
                                         THEN "FAILED" ELSE "PENDING")]
               ELSE rows
    /\ EndClaim(p)
    /\ UNCHANGED <<tokens, delivered, faults>>

(* The process dies, is stopped, or loses the database: the claim stays.   *)
Crash(p) ==
    /\ pc[p] # "idle"
    /\ faults < MaxFaults
    /\ faults' = faults + 1
    /\ EndClaim(p)
    /\ UNCHANGED <<rows, tokens, delivered>>

(* claimed_at is older than the lease; a publisher that is still at work   *)
(* has stalled.                                                            *)
LeaseExpires(e) ==
    /\ e \in Recorded
    /\ rows[e].status = "CLAIMED" /\ ~rows[e].expired
    /\ Attended(e) => faults < MaxFaults
    /\ faults' = IF Attended(e) THEN faults + 1 ELSE faults
    /\ rows' = [rows EXCEPT ![e] =
         [agg |-> rows[e].agg, status |-> "CLAIMED", attempts |-> rows[e].attempts,
          token |-> rows[e].token, due |-> rows[e].due, expired |-> TRUE]]
    /\ UNCHANGED <<tokens, delivered, local>>

(* next_attempt_at of a retried row is reached.                            *)
BackoffElapses(e) ==
    /\ e \in Recorded
    /\ rows[e].status = "PENDING" /\ ~rows[e].due
    /\ rows' = [rows EXCEPT ![e] =
         [agg |-> rows[e].agg, status |-> "PENDING", attempts |-> rows[e].attempts,
          token |-> rows[e].token, due |-> TRUE, expired |-> FALSE]]
    /\ UNCHANGED <<tokens, delivered, faults, local>>

-----------------------------------------------------------------------------
Init ==
    /\ rows = [e \in OrderingIDs |-> None]
    /\ tokens = 0 /\ delivered = {} /\ faults = 0
    /\ pc = [p \in Publishers |-> "idle"]
    /\ event = [p \in Publishers |-> None]
    /\ token = [p \in Publishers |-> 0]
    /\ attempts = [p \in Publishers |-> 0]

(* processOne after its claim.                                             *)
Publish(p) ==
    \/ SendSucceeds(p)
    \/ SendFails(p)
    \/ MarkPublished(p)
    \/ MarkRetry(p)

Next ==
    \/ \E e \in OrderingIDs, a \in Aggregates : Insert(e, a)
    \/ \E p \in Publishers :
         \/ \E e \in OrderingIDs : Claim(p, e)
         \/ Publish(p)
         \/ Crash(p)
    \/ \E e \in OrderingIDs : LeaseExpires(e) \/ BackoffElapses(e)

Spec == Init /\ [][Next]_vars

(* The loop polls again, a claim that is not lost is worked on, and time   *)
(* passes.                                                                 *)
Fairness ==
    /\ \A p \in Publishers : WF_vars(Publish(p))
    /\ \A p \in Publishers : WF_vars(\E e \in OrderingIDs : Claim(p, e))
    /\ \A e \in OrderingIDs : WF_vars(LeaseExpires(e)) /\ WF_vars(BackoffElapses(e))

FairSpec == Spec /\ Fairness

-----------------------------------------------------------------------------
\* Rows and publishers hold what their SQL and Go types allow.
TypeOK ==
    /\ rows \in [OrderingIDs -> Rows \cup {None}]
    /\ tokens \in Nat /\ faults \in 0 .. MaxFaults
    /\ delivered \subseteq OrderingIDs
    /\ pc \in [Publishers -> {"idle", "send", "mark", "retry"}]
    /\ event \in [Publishers -> OrderingIDs \cup {None}]
    /\ token \in [Publishers -> Nat]
    /\ attempts \in [Publishers -> Nat]

\* No committed event is lost: a row is PUBLISHED only when the queue has its
\* event, whatever publishers crashed or stalled between send and mark.
PublishedWasDelivered ==
    \A e \in Recorded : rows[e].status = "PUBLISHED" => e \in delivered

\* An abandoned publisher that wakes up after its claim was recovered cannot
\* reopen, fail or move the row: PUBLISHED and FAILED are final, and a claim is
\* only ended by its own publisher.
ClaimIsExclusive ==
    [][\A e \in Recorded :
          /\ rows[e].status \in {"PUBLISHED", "FAILED"} => rows'[e] = rows[e]
          /\ (rows[e].status = "CLAIMED" /\ rows'[e].status # "CLAIMED") =>
                \E p \in Publishers : /\ event[p] = e /\ token[p] = rows[e].token
                                      /\ pc[p] # "idle" /\ pc'[p] = "idle"]_vars

(* The outbox as a subscriber of the event queue sees it.                  *)
Delivery == INSTANCE OrderedDelivery
    WITH log <- {[ord |-> e, agg |-> rows[e].agg] : e \in Recorded}

\* The publishers implement OrderedDelivery: with any number of concurrent,
\* crashing or stalled publishers no event overtakes a predecessor of its
\* aggregate on its first delivery, not even one that FAILED.
DeliversInOrder == Delivery!Spec

\* Every committed event is eventually published, unless it or a predecessor of
\* its aggregate exhausted its attempts; other aggregates are not held back.
EventuallySettled ==
    \A e \in OrderingIDs :
        e \in Recorded ~>
            (e \in Recorded /\
               \/ rows[e].status = "PUBLISHED"
               \/ \E f \in Predecessors(e) \cup {e} : rows[f].status = "FAILED")
=============================================================================
