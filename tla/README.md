# A TLA+ model of distributedBettingProcessing

The repository is a Go service that accepts wagering transactions (BET, WIN,
LOSS, REFUND, ROLLBACK) over HTTP and SQS, applies them to wallets in
PostgreSQL, and publishes events through an outbox. Any number of instances run
against one database and one pair of FIFO queues. This directory holds TLA+
modules translated from that code, TLC configurations that check them on small
instances, and TLAPS proofs for every instance.

    tlc -workers 2 -config Contention.cfg MCFinancialService
    tlapm FinancialServiceProofs.tla

`PROJECT.json` lists the components, the runs, a seeded fault per property (an
operator of the module, commented "Seeded fault"), the source lines behind every
definition, the hazards, the findings and the theorems.

## Inventory

| component | state | operations | interacts with | what makes it correct |
|---|---|---|---|---|
| financial service (`application/financial`) | none of its own; four tables | OpenWallet, Process, ProcessMessage, ProcessPendingReference, Reconcile | called by HTTP, the SQS consumer and the reference worker; one SQL transaction per call | money moves exactly once; a reply is durable; a reversal undoes one movement; no deadlock |
| domain (`domain/*`) | values | Money.Add/Sub, Wallet.Debit/Credit, Transaction.Transition, ledger.New | used by the service | no negative balance, no int64 overflow |
| repositories and schema (`infrastructure/postgres`, `migrations`) | wallets, wager_transactions, wallet_ledger_entries, inbox, outbox | row locks, one advisory lock, unique and foreign keys, ON CONFLICT, SKIP LOCKED | shared by every instance | locks taken in one order; uniqueness decides the races locks cannot |
| reference worker | a goroutine | poll, claim a due row, resolve, retry with backoff, give up | service, table wager_transactions | every pending reversal ends; a rejection tells the truth |
| outbox worker | a goroutine, a claim token | claim under a lease, send, mark, retry | outbox table, event queue | nothing lost; per-aggregate order; stale claims are harmless |
| SQS consumer | a goroutine, a batch of receipt handles, a cancellable context | receive, decode, process, delete, retry, release | wager queue, service | delete only after commit; a shutdown abandons nothing it holds; nothing stuck |
| query service | none | Wallet, Ledger pages, transaction lookups | tables | pages neither repeat nor skip; a read shows what the client was told |
| HTTP transport | none | routes, DTO checks, error mapping, auth | service, query service | a reconciliation that takes four reads says what happened between them |
| SQS client | cached queue URLs | SendEvent, receive, delete, visibility | both workers | |
| Keycloak verifier, configuration, observability, health | none that influences the rest | | | |
| composition | Fx hooks, run contexts, the pool | ordered start, rollback and stop under deadlines | all loops, server, pool | the pool outlives its users; a clean exit leaves nothing; the process exits |

The hard behaviours are concurrency between instances (everything meets at
PostgreSQL locks and constraints), at-least-once delivery in both directions,
crashes between the statements of different systems (commit then delete, send
then mark), timeouts that race late answers (leases, visibility, backoff), and
transactions that arrive before what they refer to.

## Modules

| module | models | state ↔ code |
|---|---|---|
| `WagerDomain` | money, wallet, wager, ledger rules | operators over integers with the limit `MaxInt64` |
| `WageringContract` | what the service promises: a sequential ledger that accepts, settles, answers and refuses | `accounts`, `book`, `answers`, `refusals`: what clients can see |
| `FinancialService` | service.go, idempotency.go, reference_worker.go, the tables, the transaction reads of query/service.go | one variable per table; per session `pc` is the next SQL statement, `snap` the wallet row read FOR UPDATE, `staged` its uncommitted writes |
| `OrderedDelivery` | the abstract outbox: a log of events, each first delivered after its predecessors | |
| `OutboxWorker` | outbox/worker.go, the claim protocol | `rows` is the table, `pc`/`event`/`token` a publisher between its statements |
| `SQSConsumer` | consumer.go, envelope.go; the queue is external | `status`/`receives` is the queue, `batch`/`handle` what a loop holds, `cancelled` its context |
| `LedgerReads` | the reconciliation endpoint with Reconcile and Reconstruct, Ledger pagination | `ledger` in commit order with the timestamps the transports drew; `step` the next read of a reconciliation |
| `Lifecycle` | composition/module.go, Start and Stop of the loops, the server's drain | `phase`/`hook`/`stopping` is fx.App.Run, `loop`/`cancelled` the goroutines, `request`/`drainOver`/`closed` the server, `pool` the connections |
| `MC...` | instances for TLC | |
| `...Proofs` | theorems; `WalletLedgerProofs`, `IdentityProofs` and `MovementProofs` build on `FinancialServiceProofs` in this order | |

**FinancialService.** A session is one call in one SQL transaction. Each action
is one statement that can block or see other transactions' commits: inserting
the inbox row, taking the advisory lock, the lookup, `FindForUpdate`, the second
lookup, the decision, the writes (one step: none of them can block once the
unique keys are granted, and nothing is visible before the commit), the commit.
Statements see what is committed when they run (READ COMMITTED). Locks are not
variables: `HoldsIdentity`, `HoldsWallet`, `HoldsInbox`, `HoldsRow` read them off
the sessions' progress, and `WaitsFor` is the relation whose cycles are
deadlocks. `Abort` cuts a transaction anywhere (crash, cancelled request, lost
connection). A worker session runs the same statements from `ClaimPending`.
Commands are records of identifiers; the payload hash is the command without its
key, so hashing is injective, as SHA-256 is taken to be. Backoff is the flag
`due`.

`TransactionView`, `TransactionForProvider` and
`TransactionByExternalForProvider` are the reads of the query service; they keep
no state, so `RepliesAreDurable` can say what a GET at any later moment shows.
A commit whose acknowledgement is lost is a commit whose reply nobody reads: no
property depends on a reply being absent.

**WageringContract** has no sessions, locks, retries, messages or crashes: a
request takes effect at once on the balance of that moment, is rejected for a
reason that holds at that moment, waits for a reference its wallet does not have
yet, is given its recorded result, or is refused because another request used
its key, its external id or its reference. `ImplementsContract` maps the
committed rows of FinancialService to it. Every step but a commit, a replay and
a refusal is a stutter there, so the run shows that the decision taken from an
earlier read still stands when the writes become visible. Where the code
promises less, so does the contract: a pending reversal may be given up with
REFERENCE_NOT_RESOLVED as soon as its reference exists (finding 2), and a WIN
consumes the reference it names (finding 3).

**OutboxWorker.** A row is named by its ordering id. `LeaseExpires` may overtake
a publisher that is still at work (a stall, counted by `MaxFaults`). A failed
send may still have reached the queue. `Crash` is a process that dies, is
stopped, or loses the database before its mark. `Insert` only appends to an
aggregate, which is what `OutboxOrder` of FinancialService shows.

**SQSConsumer.** A receipt handle is the number of the receive that issued it;
a call with an older handle, or after the visibility timeout, fails. A receive
hands out messages of a group only together with, or after, all earlier ones
still in the queue. ProcessMessage commits or fails, and may fail although the
commit took effect. A call under the run context that Stop cancels succeeds,
fails without effect, or fails although the queue or the database has already
acted (`CallFails`); such a failure is not a fault. For a receive this means
that the queue may have handed out a batch nobody gets (`ReceiveLost`); it does
so before the loop ends or not at all. `release` has its own context.
`DecodeMessage` is one verdict per message.

**Lifecycle.** Hooks are numbered in the order `appendLifecycleHooks` registers
them. Fx runs OnStart upwards and OnStop downwards, one at a time, and gives up
waiting when the start or the stop context is over; a failed start stops the
hooks that had started. A loop and a handler alternate between work and the use
of a connection; `LoopEnds` is a loop that saw its cancelled context. `StopLoop`
cancels and waits for the goroutine, `StopHTTP` drains under its own budget and
then closes the connections, which cancels the handlers' contexts, and
`StopPool` waits for every connection to come back. Fx and pgxpool are external.

**LedgerReads.** A reconciliation reads the wallet view, the wallet, the ledger
and the entry count in statements of their own. A movement is one step, which `WalletMatchesLedger` and
`SnapshotCurrent` justify. Its timestamp is drawn earlier, at `BeginRequest`, as
the transports do.

Interfaces between modules: `OutboxOrder` is the assumption of OutboxWorker's
`Insert`; the inbox behaviour checked in FinancialService is what makes
SQSConsumer's redelivery harmless. The two are not joined in one state space:
`BeginMessage` may start any message at any moment, any number of times and
concurrently with itself, which includes whatever a queue does, and
ProcessMessage in SQSConsumer commits or fails in every way FinancialService can.
What Lifecycle does to a loop is the shutdown of SQSConsumer and the crash of
OutboxWorker and `Abort`.

## Runs

Passing runs:

| run | instance | what it shows |
|---|---|---|
| contention | two HTTP requests, two SQS deliveries, two wallets; twins of one bet, a shared key, a shared external id, a message id reused with another payload; one transaction may be cut | no lost update, no double movement, one row per identity, conflicts are real, replies are durable, inbox and financial writes are atomic, no deadlock, outbox ids follow the commits, all of it within the sequential contract |
| references | a bet, its refund, the rollback of that refund in any order; two workers; one transaction may be cut | wallet and ledger agree, final rows stay final, every stored result is replayable, NOT_FOUND is true, every pending row resolves, workers and requests together implement the contract |
| rules | the ways a request or a worker can end, at the int64 limit, with every failure code except REFERENCE_NOT_RESOLVED, which the references run reaches | balances stay in range, only a PROCESSED movement has a ledger entry, a reference is reversed at most once and for its own amount, every rejection has the reason the contract asks for |
| outbox | two publishers, three events, two aggregates, one fault | nothing lost, stale claims harmless, refinement of OrderedDelivery, every event settles |
| consumer | two consumers, three messages of two wallets, one malformed, batches of two, a fault, a shutdown | delete after commit, dead-lettering only of poison, a shutdown releases every message whose handle a loop was given, every message settles |
| consumer_order | two consumers, three messages of one wallet, the first always refused, batches of two | a message takes effect before an earlier one only inside the batch in which the earlier one failed |
| ledger_reads | a reconciliation and a paging client with limits 1 and 2, two movements with ties and inversions of timestamps | Reconstruct is sound, the reported difference is what was committed between the two reads, pages neither repeat nor skip |
| lifecycle | five hooks, two requests; a start that fails or expires at any hook; both deadlines and the drain budget may strike | the pool outlives its users, a clean exit leaves nothing behind, only the drain budget costs an answer, the process exits after a signal |

Violation runs, each a finding below: poison_pending, not_resolved,
win_reference, revisited_balance.

**Bounds.** `MaxAttempts` (4 or 5 transactions in all, the opening included)
leaves room for three requests to meet; three suffices for a holder, a waiter
and a third party that breaks the tie. `MaxInt64` is 4, 5 or 9, so overflow and
insufficient balance are one request away. `MaxReferenceAttempts` 1 or 2 covers the first, a middle and the last attempt. `MaxFailures` and
`MaxFaults` of 1 or 2 allow a fault and a fault during its recovery. `LastHook` 5 is the real number of hooks. Three events on two
aggregates give a predecessor, a successor and a bystander. Balances up to 3
with four entries are enough for a ledger to revisit a balance. Deadlock checking is off because the bounds make
every instance stop; blocking among sessions is `NoLockCycle`.

**Fairness.** `FairSpec` assumes weak fairness of a session's next statement
(the Go scheduler and PostgreSQL finish what is not blocked), of the worker and
publisher loops' next claim (the loops poll for ever), and of the passing of
time (backoff, lease, visibility). Neither crashes, faults, sends that succeed
nor new requests are assumed. EveryMessageSettles assumes nothing about
restarts: it is conditional on one consumer that stays started. Lifecycle
assumes that the hooks' goroutine and main run, that the drain timer fires, that
a loop with a cancelled context ends, and that a database call returns once its
context is cancelled. Nothing is assumed of a handler or a query whose context
is alive, nor of Fx's own deadline.

## What is proved

The proofs hold for any sets of sessions, wallets, publishers, consumers and
messages and any bounds, from the named ASSUMEs of the modules.

* `FinancialServiceProofs!TypeCorrect`: `Spec => [](TypeOK /\ SessionShape)`.
  TypeOK alone is not inductive: that a balance written back is inside int64
  depends on the verdict, the row read under the lock and the staged writes
  fitting the program counter. `SessionShape` says which local values each
  statement finds (a session at `write` with a verdict that moves money has a
  wallet row; a worker's row exists; staged writes exist exactly at `commit`).
  There is a lemma per action.
* `WalletLedgerProofs`: `NoLostUpdate` (`SnapshotCurrent`) is not inductive by
  itself, because a commit by a second holder of the same row would break it:
  `LockInv` adds that open transactions with a snapshot have different wallets,
  which FindForUpdate's wait establishes, and that only a transaction with a
  snapshot writes a wallet. `LocksAreOrdered` (`NoLockCycle`): whoever is waited
  for is past the statement at which the other one waits, so a member of any
  set that has come furthest waits for nobody in it. `WalletAndLedgerAgree`
  (`WalletMatchesLedger`): a commit extends the chain only if the staged entry
  starts at the wallet's current balance. That follows from `LockInv` and from
  `RowInv`: the staged writes are those of the command on the snapshot, what is
  written passed wager.New, a request's row id is fresh, and a worker's command
  is that of the row it claimed, so no commit changes the command of a row the
  ledger names (which decides whether the opening was booked at version 1).
* `IdentityProofs`: `FinalInv` adds that a worker's row stays pending until the
  worker commits and that nobody else has claimed it, and that the staged row is
  the one the session would still write; from it follow `TerminalRowsAreFinal`
  and `ReplaysAreAvailable`. `IdentityInv` adds who may insert what: no two rows,
  committed or staged, clash in a unique key (`UniqueRows`); the advisory lock
  has one holder; a request that found nothing under its lock finds no twin
  later (`NoTwin`); a reference a worker found absent stays absent
  (`ReferenceAbsent`); whoever lost a race finds the row that won; a message that
  commits without writing is a replay. From it follow `IdentitiesAreUnique`,
  `MessagesAreAtomic`, `ConflictsAreReal`, `AnswersAreDurable` and
  `GivesUpOnlyOnAbsence`.
* `MovementProofs`: `MoveInv` says that a decision still holds for the rows of
  the moment (a PROCESSED reference is final), that every entry books the
  transaction it names, that no transaction has two entries and that every
  processed movement has one: `MovesExactlyOnce`, `ReversalsAreSound`.
  `OutboxInv` says that staged events were drawn from the sequence under the
  wallet lock, hence after every committed event of their aggregate
  (`EventsAppearInOrder`), and `MirrorInv` counts a wallet's balance changes
  against its ledger (`EventsMirrorLedger`).
* `OutboxWorkerProofs!NoEventLost`, `PublishersImplementOrderedDelivery`,
  `StaleClaimsAreHarmless`: the invariant `OutboxInv` adds that a token names one
  claim of one row, that a publisher about to mark has sent, and that an event is
  delivered only when its predecessors are. The second theorem is the refinement
  of `OrderedDelivery`: every publisher step is a delivery in order or a stutter.
* `SQSConsumerProofs`: `DeletedOnlyAfterCommit` (`AckInv`: a loop about to call
  DeleteMessage does so for a committed message). `ShutdownReleasesWhatItHolds`
  needs that only a message that can never be processed gets to the retry, that
  a hidden message was received and that a cancelled context had its Stop
  (`HandsInv`). `WalletOrderIsKept` is an action property: a commit is of the
  first message left in its batch, and an earlier message of the wallet was in
  that batch or is settled (`BatchesInOrder`, `LeavesForGood`).
  `ReceivesAreAccountedFor` charges every receive of a message to a fault, a
  shutdown, or the batch that holds it now (`SpendInv`). `ConsumerIsTyped` is the
  type invariant.
* `LifecycleProofs`: `LifeInv` says which hooks may be up in each phase, what a
  loop may be doing while its hook is not yet or no longer started, that the
  server drains before it closes, and that the pool is closed only when nothing
  below hook 1 runs. `PoolIsClosedLast`, `UncutShutdownIsClean` and
  `AcceptedIsAnswered` follow; `LifecycleIsTyped` is the type invariant.
* `LedgerReadsProofs`: `LedgerInv` (the entries form a chain from 0 to the
  wallet's balance under distinct ids) is what the readers rely on.
  `ReconstructionIsSound` and `DistinctBalancesReconstruct` speak of ledgers of
  any length. Induction over the rounds of `Reconstruct` is done with a set: a
  set of naturals that contains 0 and the successor of each member is all of
  them (`InductiveSet`, from well-foundedness); `Iteration` shows that the
  recursive function `Walk` exists, and `WalkFollowsCommits` that a walk that has
  not failed after k rounds has followed the first k movements in commit order.
  `PagesNeverGoBack` and `ListingsAreComplete` need `PagesInv`: between two pages
  a client was shown nothing after its cursor, and whatever it has not been shown
  of the entries its first page could have seen lies after its cursor; that a
  page is a prefix of what follows the cursor comes from counting predecessors.
  `DivergenceHasACause` needs `AuditInv`: an auditor holds the balances the
  ledger had at its reads, however far it has gone since.

Assumptions on constants are ranges, disjointness of the kinds of sessions, and
that `None` is none of the values it stands beside. OpenWallet has the guard
`FreshOpening`: its opening transaction is named after the wallet id that
uuid.New has just drawn, so no request on record or in flight names it yet.

Only model-checked: all liveness properties (fairness and ENABLED are outside the
prover) and `ImplementsContract`.

## Findings

1. **poison_pending.** Two pending reversals of one bet: when one has been
   processed, the other violates `wager_transactions_reversal_idx` on every
   attempt; the rollback undoes its attempt counter as well, so it is retried at
   once and for ever (SPEC.md:847-848).
2. **not_resolved.** A worker may reject with REFERENCE_NOT_RESOLVED after another
   worker confirmed the reference: confirming locks the identity of the row's
   own reference, not of the row (repositories.go:88-89).
3. **win_reference.** A WIN that names its bet occupies the bet's place in the
   reversal index, so the bet can no longer be refunded (SPEC.md:291, 299-300).
4. **revisited_balance.** `Reconstruct` rejects every ledger that leaves the same
   balance twice, for example a bet, its refund and another bet
   (repositories.go:192-193).

Smaller observations have no run of their own; the properties that come
closest say what they leave out.

* A movement between the two reads of `Reconcile` is reported as a divergence
  (service.go:447-461, SPEC.md:751-753). `DivergenceIsExplained` says exactly
  which: the difference is the sum of what was committed in between.
* Stop cancels the long poll in flight (consumer.go:111, 143-153). If SQS had
  already handed out a batch, the loop returns without a receipt handle, so
  nothing can release the messages and they wait for their visibility timeout,
  although ADR-007 (ARCHITECTURE.md:1078-1080) and SPEC.md:651-652 promise a
  release on shutdown. No call has to fail for it. `NoneAbandoned` excludes
  these messages (`HandleLost`: no loop was given the handle), and
  `OnlyPoisonIsDeadLettered` charges their receive to the shutdown.
* A malformed or refused message whose `retry`
  comes after Stop has its visibility call made with the cancelled context, so it
  is neither released nor backed off and waits for its visibility timeout
  (consumer.go:244, SPEC.md:651-652; `NoneAbandoned` speaks of the other
  messages).
* A ledger entry may commit with an earlier timestamp than entries
  already listed, because the transports draw it before the wallet lock, and a
  client that pages on never receives it (query/service.go:135-137;
  `NothingSkipped` speaks of the entries that were committed when the listing
  began).
* The shutdown order differs from the documents (SPEC.md:857-875,
  ARCHITECTURE.md:689-700): the loops stop first, while the server still accepts
  requests. No request is lost by it (`NoRequestLost`), but the hooks share one
  stop context of Fx (15 s unless configured), so a slow loop can use up the
  server's drain, and a drain budget above what is left is not honoured.
* A constructor that fails after `newDatabase` leaves the pool to the process
  exit; `CleanExit` speaks of processes that started.
* POST /wallets commits before it reads the wallet for its answer
  (wallet.go:38-46). If that read fails the client is told of a failure, and a
  retry finds WALLET_ALREADY_EXISTS under an id it was never given.

## Not modelled

* Text: JSON, money formatting and parsing, cursors' base64, error bodies, logs.
* Decisions on a single request that keep no state: routing, DTO validation
  beyond `ValidateCommand`, bearer tokens, roles, the table from errors to status
  codes, health probes. No interleaving reaches them.
* Keycloak verification is delegated to libraries. Metrics do not influence
  behaviour. Configuration is read once; what it validates are the ASSUMEs on
  the constants (attempts and batch sizes of at least one, page limits).
* The lag and backlog queries of the metrics, and repository methods only tests
  call.
* Currency conversion does not exist in the code; the currency foreign key is
  modelled.

## Plan

1. (done) WagerDomain and FinancialService with contention, references and
   rules; TypeCorrect, NoLostUpdate, WalletAndLedgerAgree.
2. (done) OutboxWorker, its refinement of OrderedDelivery, proofs.
3. (done) SQSConsumer, LedgerReads.
4. (done) Lifecycle, the reconciliation endpoint and the query service's reads.
5. (done) WageringContract and its refinement by FinancialService.
6. (done) Proofs on top of RowInv and LockInv: identities, conflicts, replies,
   the inbox, movements, reversals and the outbox; NoLockCycle.
7. (done) Proofs of Lifecycle, of SQSConsumer's order, shutdown and receive
   accounting, and of LedgerReads.
8. The safety half of ImplementsContract. Beyond 6 it needs that a verdict still
   holds at the commit: the wallet by LockInv, a PROCESSED or REJECTED reference
   by TerminalIsFinal, an absent one because its identity, or the wallet, is
   locked.
