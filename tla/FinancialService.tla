-------------------------- MODULE FinancialService --------------------------
(***************************************************************************)
(* application/financial/service.go over its PostgreSQL schema.            *)
(*                                                                         *)
(* Every session is one goroutine running one database transaction at a    *)
(* time (READ COMMITTED): an HTTP request in Service.Process, an SQS       *)
(* consumer in Service.ProcessMessage, or a reference worker in            *)
(* Service.ProcessPendingReference.  A step of a session is one SQL        *)
(* statement that another session can observe or wait for.  The writes of  *)
(* a transaction, which touch rows it has locked, are staged by one step   *)
(* and become visible in the Commit step; a rollback discards them.        *)
(*                                                                         *)
(* Locks are read off the program counters: a session holds the inbox key, *)
(* the advisory lock and the wallet row from the step that took them to    *)
(* the end of its transaction.                                             *)
(***************************************************************************)
EXTENDS WagerDomain, Sequences, FiniteSets

CONSTANTS
    HTTPSessions, ConsumerSessions, WorkerSessions,
    Identifiers,        \* non-empty strings: providers, external ids, keys...
    Wallets,            \* wallet UUIDs
    Commands,           \* the requests clients send
    MessageIDs,         \* envelope message ids
    Messages,           \* SQS messages: [id, cmd]
    OpenRequests,       \* POST /wallets: [wallet, player, currency, amount]
    OpeningExternalID,  \* "opening-" + wallet id
    MaxReferenceAttempts,   \* ReferenceWorkerConfig.MaxAttempts
    MaxAttempts,        \* bound: transaction UUIDs ever drawn
    MaxFailures,        \* bound: transactions cut by a crash or lost connection
    None                \* no row, no value

Sessions == HTTPSessions \cup ConsumerSessions \cup WorkerSessions

TxIDs == 1 .. MaxAttempts

CommandSet ==
    [prov : Identifiers, ext : Identifiers, key : Identifiers,
     wallet : Wallets, player : Identifiers, round : Identifiers,
     type : Types, amount : Money, currency : Identifiers,
     ref : Identifiers \cup {NoReference}]

(* What canonicalPayloadHash digests: a command without its key.           *)
HashSet ==
    [prov : Identifiers, ext : Identifiers, key : {NoReference},
     wallet : Wallets, player : Identifiers, round : Identifiers,
     type : Types, amount : Money, currency : Identifiers,
     ref : Identifiers \cup {NoReference}]

WalletRows ==
    [player : Identifiers, currency : Identifiers,
     balance : Money, version : Nat \ {0}]

ResultSet ==
    [tx : TxIDs, state : States, balance : Money,
     code : FailureCodes \cup {NoCode}]

TxRows ==
    [cmd : CommandSet, state : States, result : ResultSet,
     attempts : Nat, due : BOOLEAN]

Entries ==
    [tx : TxIDs, dir : Directions, value : Money, before : Money, after : Money]

EventKinds ==
    {"WagerTransactionProcessed", "WagerTransactionRejected",
     "WagerTransactionPendingReference", "WalletBalanceChanged"}

Events ==
    [kind : EventKinds, wallet : Wallets, tx : TxIDs, ord : Nat, version : Nat]

StagedWrites ==
    [row : TxRows, wallet : WalletRows \cup {None},
     entry : Entries \cup {None}, events : SUBSET Events]

ASSUME SessionsAssumption ==
    /\ HTTPSessions \cap ConsumerSessions = {}
    /\ HTTPSessions \cap WorkerSessions = {}
    /\ ConsumerSessions \cap WorkerSessions = {}

ASSUME RequestsAssumption ==
    /\ NoReference \notin Identifiers
    /\ "internal" \in Identifiers /\ "opening" \in Identifiers
    /\ Commands \subseteq CommandSet
    /\ Messages \subseteq [id : MessageIDs, cmd : Commands]
    /\ OpenRequests \subseteq [wallet : Wallets, player : Identifiers,
                               currency : Identifiers, amount : Money]
    /\ OpeningExternalID \in [Wallets -> Identifiers]

ASSUME BoundsAssumption ==
    /\ MaxReferenceAttempts \in Nat \ {0}
    /\ MaxAttempts \in Nat \ {0}
    /\ MaxFailures \in Nat

ASSUME NoneAssumption ==
    /\ None \notin WalletRows
    /\ None \notin TxRows
    /\ None \notin Entries
    /\ None \notin StagedWrites
    /\ None \notin HashSet

VARIABLES
    wallets,    \* table wallets
    txns,       \* table wager_transactions, by id
    ledger,     \* table wallet_ledger_entries, in commit order per wallet
    inbox,      \* table inbox of the one consumer name: payload hash
    outbox,     \* table outbox, as inserted
    ordering,   \* sequence outbox_ordering_seq
    issued,     \* transaction UUIDs drawn so far
    failures,   \* transactions cut so far
    pc,         \* per session: the statement it is about to execute
    req,        \* per session: its command
    uid,        \* per session: Command.ID, for a worker the claimed row
    msg,        \* per session: the message id of ProcessMessage
    snap,       \* per session: the wallet row it read FOR UPDATE
    verdict,    \* per session: what it decided to do
    staged,     \* per session: its uncommitted writes
    replies,    \* history: results returned to HTTP clients
    conflicts   \* history: commands refused with ErrIdempotencyConflict

tables == <<wallets, txns, ledger, inbox, outbox>>
counters == <<ordering, issued, failures>>
local == <<req, uid, msg, snap, verdict, staged>>
history == <<replies, conflicts>>
vars == <<tables, counters, pc, local, history>>

\* Retry: a pending reference stays pending and is rescheduled.
Verdicts ==
    FailureCodes \cup Directions \cup {"NONE", "PENDING_REFERENCE", "RETRY"}

PCs ==
    {"idle", "inbox", "identity", "lookup", "reference", "wallet", "relookup",
     "decide", "write", "commit", "resolve"}

-----------------------------------------------------------------------------
(* Reading the tables.                                                     *)

Persisted == {i \in TxIDs : txns[i] # None}

(* canonicalPayloadHash: every business field, not the idempotency key.    *)
PayloadHash(c) == [c EXCEPT !.key = NoReference]

FindByExternal(prov, ext) ==
    {i \in Persisted : txns[i].cmd.prov = prov /\ txns[i].cmd.ext = ext}

FindByIdempotency(prov, key) ==
    {i \in Persisted : txns[i].cmd.prov = prov /\ txns[i].cmd.key = key}

(* findExistingTransaction: by id, then by key, then by external id.       *)
FindExisting(s) ==
    LET c == req[s]
        byKey == FindByIdempotency(c.prov, c.key)
    IN  IF uid[s] \in Persisted THEN {uid[s]}
        ELSE IF byKey # {} THEN byKey
        ELSE FindByExternal(c.prov, c.ext)

(* Seeded fault: compares the fresh Command.ID, so no retry is a replay.   *)
IsReplaySameID(s) == uid[s] \in FindExisting(s)

(* Key and business payload both equal: a replay, otherwise a conflict.    *)
IsReplay(s) ==
    \E i \in FindExisting(s) :
        /\ txns[i].cmd.key = req[s].key
        /\ PayloadHash(txns[i].cmd) = PayloadHash(req[s])

(* replayResult accepts the persisted result of row i.                     *)
Replayable(i) ==
    /\ txns[i].result.tx = i
    /\ txns[i].result.state = txns[i].state
    /\ txns[i].result.balance >= 0

Reply(c, result) == [cmd |-> c, result |-> result]

-----------------------------------------------------------------------------
(* Locks.                                                                  *)

InTransaction(s) == pc[s] \notin {"idle", "resolve"}

(* LockReferenceIdentity's key: the command's own identity, for a worker   *)
(* the identity of the reference it waits for.                             *)
IdentityOf(s) ==
    <<req[s].prov, IF s \in WorkerSessions THEN req[s].ref ELSE req[s].ext>>

HoldsIdentity(s, identity) ==
    /\ pc[s] \in {"lookup", "reference", "wallet", "relookup", "decide",
                  "write", "commit"}
    /\ IdentityOf(s) = identity

HoldsWallet(s, w) == snap[s] # None /\ req[s].wallet = w

(* An uncommitted inbox row: its key was free when InsertIfAbsent ran.     *)
HoldsInbox(s, m) ==
    /\ InTransaction(s) /\ pc[s] # "inbox"
    /\ msg[s] = m /\ inbox[m] = None

(* A worker locks the pending row it claims FOR UPDATE.                    *)
HoldsRow(s, i) == s \in WorkerSessions /\ InTransaction(s) /\ uid[s] = i

(* Seeded faults: the unique key on (provider, key) or the reversal index  *)
(* is missing.                                                             *)
SameExternalOnly(a, b) == a.cmd.prov = b.cmd.prov /\ a.cmd.ext = b.cmd.ext

NoReversalIndex(a, b) == FALSE

(* The unique constraints two rows of wager_transactions can share.        *)
SameIdentity(a, b) ==
    /\ a.cmd.prov = b.cmd.prov
    /\ a.cmd.ext = b.cmd.ext \/ a.cmd.key = b.cmd.key

SameReversal(a, b) ==
    /\ a.state = "PROCESSED" /\ b.state = "PROCESSED"
    /\ a.cmd.prov = b.cmd.prov
    /\ a.cmd.ref = b.cmd.ref /\ a.cmd.ref # NoReference

-----------------------------------------------------------------------------
(* What a transaction writes: command c, decision v, locked wallet row w.  *)

Settles(c, v, w) ==
    \/ v = "NONE"
    \/ v = "DEBIT" /\ w.currency = c.currency /\ CanDebit(w.balance, c.amount)
    \/ v = "CREDIT" /\ w.currency = c.currency /\ CanCredit(w.balance, c.amount)

Moves(c, v, w) == v \in Directions /\ Settles(c, v, w)

StateAfter(c, v, w) ==
    CASE v = "PENDING_REFERENCE" -> "PENDING_REFERENCE"
      [] Settles(c, v, w) -> "PROCESSED"
      [] OTHER -> "REJECTED"

BalanceAfter(c, v, w) ==
    IF Moves(c, v, w) THEN Moved(w.balance, v, c.amount) ELSE w.balance

(* Seeded fault: every refused movement is reported as a bet's.            *)
FailureCodeOfBet(c, v, w) ==
    CASE StateAfter(c, v, w) # "REJECTED" -> NoCode
      [] v \in FailureCodes -> v
      [] OTHER -> "INSUFFICIENT_BALANCE"

FailureCode(c, v, w) ==
    CASE StateAfter(c, v, w) # "REJECTED" -> NoCode
      [] v \in FailureCodes -> v
      [] OTHER -> IF c.type = "BET" THEN "INSUFFICIENT_BALANCE"
                                    ELSE "REVERSAL_INSUFFICIENT_BALANCE"

ResultOf(i, c, v, w) ==
    [tx |-> i, state |-> StateAfter(c, v, w), balance |-> BalanceAfter(c, v, w),
     code |-> FailureCode(c, v, w)]

(* Seeded fault: rescheduling does not count the attempt.                  *)
AttemptsNotCounted(s) == IF s \notin WorkerSessions THEN 0 ELSE txns[uid[s]].attempts

(* The attempts column: exhausting the retries counts the last one too.    *)
AttemptsAfter(s) ==
    IF s \notin WorkerSessions THEN 0
    ELSE IF verdict[s] \in {"RETRY", "REFERENCE_NOT_FOUND", "REFERENCE_NOT_RESOLVED"}
    THEN txns[uid[s]].attempts + 1
    ELSE txns[uid[s]].attempts

(* Seeded fault: UpdatePendingReference leaves the stored result alone.    *)
RowOfStaleResult(s) ==
    LET c == req[s]  v == verdict[s]  w == snap[s]
    IN  IF v = "RETRY"
        THEN [txns[uid[s]] EXCEPT !.attempts = AttemptsAfter(s), !.due = FALSE]
        ELSE [cmd |-> c, state |-> StateAfter(c, v, w),
              result |-> IF s \in WorkerSessions THEN txns[uid[s]].result
                         ELSE ResultOf(uid[s], c, v, w),
              attempts |-> AttemptsAfter(s),
              due |-> StateAfter(c, v, w) = "PENDING_REFERENCE"]

(* insertTransaction, and for a worker UpdatePendingReference.             *)
RowOf(s) ==
    LET c == req[s]  v == verdict[s]  w == snap[s]
    IN  IF v = "RETRY"
        THEN [txns[uid[s]] EXCEPT !.attempts = AttemptsAfter(s), !.due = FALSE]
        ELSE [cmd |-> c, state |-> StateAfter(c, v, w),
              result |-> ResultOf(uid[s], c, v, w),
              attempts |-> AttemptsAfter(s),
              due |-> StateAfter(c, v, w) = "PENDING_REFERENCE"]

(* Seeded fault: UpdateBalance keeps the version it read.                  *)
WalletOfSameVersion(c, v, w) ==
    IF Moves(c, v, w) THEN [w EXCEPT !.balance = BalanceAfter(c, v, w)] ELSE None

WalletOf(c, v, w) ==
    IF Moves(c, v, w)
    THEN [player |-> w.player, currency |-> w.currency,
          balance |-> BalanceAfter(c, v, w), version |-> w.version + 1]
    ELSE None

(* Seeded fault: a rejected bet is booked too.                             *)
EntryOfRejected(i, c, v, w) ==
    IF v \in Directions
    THEN [tx |-> i, dir |-> v, value |-> c.amount,
          before |-> w.balance, after |-> BalanceAfter(c, v, w)]
    ELSE None

EntryOf(i, c, v, w) ==
    IF Moves(c, v, w)
    THEN [tx |-> i, dir |-> v, value |-> c.amount,
          before |-> w.balance, after |-> BalanceAfter(c, v, w)]
    ELSE None

(* insertFinancialEvents and insertEvent: the kinds, in insertion order.   *)
EventKindsOf(c, v, w) ==
    CASE v = "RETRY" -> <<>>
      [] v = "PENDING_REFERENCE" -> <<"WagerTransactionPendingReference">>
      [] Moves(c, v, w) -> <<"WagerTransactionProcessed", "WalletBalanceChanged">>
      [] v = "NONE" -> <<"WagerTransactionProcessed">>
      [] OTHER -> <<"WagerTransactionRejected">>

(* Seeded fault: events are ordered by the request that caused them, as a  *)
(* timestamp taken when the request arrives would order them.              *)
EventsByArrival(first, kinds, w, i, version) ==
    {[kind |-> kinds[k], wallet |-> w, tx |-> i, ord |-> 2 * i + k,
      version |-> version] : k \in DOMAIN kinds}

(* Outbox rows take their ordering id from the sequence as they are        *)
(* inserted; first is the last value drawn before.                         *)
EventsFrom(first, kinds, w, i, version) ==
    {[kind |-> kinds[k], wallet |-> w, tx |-> i, ord |-> first + k,
      version |-> version] : k \in DOMAIN kinds}

(* Seeded fault: events carry the version read, not the version written.   *)
EventVersionRead(c, v, w) == IF v = "RETRY" THEN 0 ELSE w.version

EventVersion(c, v, w) ==
    IF v = "RETRY" THEN 0
    ELSE IF Moves(c, v, w) THEN w.version + 1 ELSE w.version

WritesOf(s) ==
    LET c == req[s]  v == verdict[s]  w == snap[s]
    IN  [row |-> RowOf(s),
         wallet |-> WalletOf(c, v, w),
         entry |-> EntryOf(uid[s], c, v, w),
         events |-> EventsFrom(ordering, EventKindsOf(c, v, w), c.wallet,
                               uid[s], EventVersion(c, v, w))]

-----------------------------------------------------------------------------
(* Waiting.  s cannot execute its next statement before t's transaction    *)
(* ends: the key, lock or row it asks for belongs to t.                    *)

WaitsForInbox(s, t) == pc[s] = "inbox" /\ HoldsInbox(t, msg[s])

WaitsForIdentity(s, t) == pc[s] = "identity" /\ HoldsIdentity(t, IdentityOf(s))

WaitsForWallet(s, t) == pc[s] = "wallet" /\ HoldsWallet(t, req[s].wallet)

(* A unique index makes an insert wait for an uncommitted equal key.       *)
WaitsForWriter(s, t) ==
    /\ pc[s] = "write" /\ staged[t] # None
    /\ \/ SameIdentity(RowOf(s), staged[t].row)
       \/ SameReversal(RowOf(s), staged[t].row)

WaitsFor(s, t) ==
    /\ s # t
    /\ \/ WaitsForInbox(s, t)
       \/ WaitsForIdentity(s, t)
       \/ WaitsForWallet(s, t)
       \/ WaitsForWriter(s, t)

Granted(s) == \A t \in Sessions : ~WaitsFor(s, t)

(* The unique constraints against committed rows other than its own.       *)
IdentityTaken(s) ==
    \E i \in Persisted \ {uid[s]} : SameIdentity(RowOf(s), txns[i])

ReversalTaken(s) ==
    \E i \in Persisted \ {uid[s]} : SameReversal(RowOf(s), txns[i])

(* The foreign key (wallet_id, currency) of an insert, and the unique      *)
(* (wallet_id, transaction_id) of the ledger.                              *)
ForeignKeyFails(s) == s \notin WorkerSessions /\ req[s].currency # snap[s].currency

LedgerTaken(s) ==
    /\ Moves(req[s], verdict[s], snap[s])
    /\ \E k \in DOMAIN ledger[req[s].wallet] : ledger[req[s].wallet][k].tx = uid[s]

-----------------------------------------------------------------------------
(* Control of a session.                                                   *)

Goto(s, label) == pc' = [pc EXCEPT ![s] = label]

(* Commit or rollback: locks, snapshot and uncommitted writes are gone.    *)
EndTx(s) ==
    /\ Goto(s, "idle")
    /\ req' = [req EXCEPT ![s] = None]
    /\ uid' = [uid EXCEPT ![s] = 0]
    /\ msg' = [msg EXCEPT ![s] = None]
    /\ snap' = [snap EXCEPT ![s] = None]
    /\ verdict' = [verdict EXCEPT ![s] = "NONE"]
    /\ staged' = [staged EXCEPT ![s] = None]

OpeningCommand(o) ==
    [prov |-> "internal", ext |-> OpeningExternalID[o.wallet],
     key |-> OpeningExternalID[o.wallet], wallet |-> o.wallet,
     player |-> o.player, round |-> "opening", type |-> "OPENING",
     amount |-> o.amount, currency |-> o.currency, ref |-> NoReference]

(* uuid.New draws the wallet id: no request on record or in flight names   *)
(* the opening transaction it implies, so that insert meets no equal key.  *)
FreshOpening(o) ==
    LET opening == OpeningCommand(o)
        Names(c) == c.prov = opening.prov /\ opening.ext \in {c.ext, c.key, c.ref}
    IN  /\ \A i \in Persisted : ~Names(txns[i].cmd)
        /\ \A s \in Sessions : pc[s] # "idle" => ~Names(req[s])

(* Service.OpenWallet: one transaction on rows nobody else can name yet.   *)
OpenWallet(o) ==
    LET i == issued + 1
        w == [player |-> o.player, currency |-> o.currency,
              balance |-> o.amount, version |-> 1]
    IN  /\ wallets[o.wallet] = None
        /\ FreshOpening(o)
        /\ ~\E u \in Wallets : /\ wallets[u] # None
                               /\ wallets[u].player = o.player
                               /\ wallets[u].currency = o.currency
        /\ wallets' = [wallets EXCEPT ![o.wallet] = w]
        /\ IF o.amount = 0
           THEN UNCHANGED <<txns, ledger, outbox, ordering, issued>>
           ELSE /\ issued < MaxAttempts
                /\ issued' = i
                /\ txns' = [txns EXCEPT ![i] =
                     [cmd |-> OpeningCommand(o), state |-> "PROCESSED",
                      result |-> [tx |-> i, state |-> "PROCESSED",
                                  balance |-> o.amount, code |-> NoCode],
                      attempts |-> 0, due |-> FALSE]]
                /\ ledger' = [ledger EXCEPT ![o.wallet] = Append(@,
                     [tx |-> i, dir |-> "CREDIT", value |-> o.amount,
                      before |-> 0, after |-> o.amount])]
                /\ outbox' = outbox \cup
                     EventsFrom(ordering,
                                <<"WagerTransactionProcessed", "WalletBalanceChanged">>,
                                o.wallet, i, 1)
                /\ ordering' = ordering + 2
        /\ UNCHANGED <<inbox, failures, pc, local, history>>

(* An attempt draws a fresh Command.ID and starts its transaction.         *)
Begin(s, c, m, label) ==
    /\ pc[s] = "idle"
    /\ ValidateCommand(c)
    /\ issued < MaxAttempts
    /\ issued' = issued + 1
    /\ Goto(s, label)
    /\ req' = [req EXCEPT ![s] = c]
    /\ uid' = [uid EXCEPT ![s] = issued + 1]
    /\ msg' = [msg EXCEPT ![s] = m]
    /\ UNCHANGED <<tables, ordering, failures, snap, verdict, staged, history>>

(* Service.Process, called for POST /wagering/transactions.                *)
BeginProcess(s, c) == s \in HTTPSessions /\ Begin(s, c, None, "identity")

(* Service.ProcessMessage, called for one delivery of an SQS message.      *)
BeginMessage(s, m) == s \in ConsumerSessions /\ Begin(s, m.cmd, m.id, "inbox")

(* Seeded fault: the inbox row is committed by a statement of its own.     *)
InsertInboxAutocommit(s) ==
    /\ pc[s] = "inbox"
    /\ inbox[msg[s]] \in {None, PayloadHash(req[s])}
    /\ inbox' = [inbox EXCEPT ![msg[s]] = PayloadHash(req[s])]
    /\ Goto(s, "identity")
    /\ UNCHANGED <<wallets, txns, ledger, outbox, counters, local, history>>

(* InsertIfAbsent: a free key or the key of the same payload goes on, a    *)
(* different payload is ErrInboxPayloadMismatch.                           *)
InsertInbox(s) ==
    /\ pc[s] = "inbox" /\ Granted(s)
    /\ IF inbox[msg[s]] \in {None, PayloadHash(req[s])}
       THEN Goto(s, "identity") /\ UNCHANGED local
       ELSE EndTx(s)
    /\ UNCHANGED <<tables, counters, history>>

(* Seeded fault: no advisory lock.                                         *)
NoIdentityLock(s) ==
    /\ pc[s] = "identity"
    /\ Goto(s, IF s \in WorkerSessions THEN "reference" ELSE "lookup")
    /\ UNCHANGED <<tables, counters, local, history>>

(* pg_advisory_xact_lock, in processInTx and in the reference worker.      *)
LockReferenceIdentity(s) ==
    /\ pc[s] = "identity" /\ Granted(s)
    /\ Goto(s, IF s \in WorkerSessions THEN "reference" ELSE "lookup")
    /\ UNCHANGED <<tables, counters, local, history>>

(* findExistingTransaction found a row: replay its persisted result, or    *)
(* refuse.  A replayed message still commits its inbox row.                *)
AnswerExisting(s) ==
    LET found == FindExisting(s)
        result == txns[CHOOSE i \in found : TRUE].result
        replayable == \A i \in found : Replayable(i)
    IN  /\ IF IsReplay(s) /\ replayable /\ s \in ConsumerSessions
           THEN Goto(s, "commit") /\ UNCHANGED local
           ELSE EndTx(s)
        /\ replies' = IF IsReplay(s) /\ replayable /\ s \in HTTPSessions
                      THEN replies \cup {Reply(req[s], result)} ELSE replies
        /\ conflicts' = IF IsReplay(s) THEN conflicts ELSE conflicts \cup {req[s]}
        /\ UNCHANGED <<tables, counters>>

(* The lookup before the wallet lock.                                      *)
Lookup(s) ==
    /\ pc[s] = "lookup"
    /\ IF FindExisting(s) # {}
       THEN AnswerExisting(s)
       ELSE Goto(s, "wallet") /\ UNCHANGED <<tables, counters, local, history>>

(* Seeded faults: SELECT without FOR UPDATE; the advisory lock taken (again) *)
(* under the wallet lock.                                                  *)
ReadWalletUnlocked(s) ==
    /\ pc[s] = "wallet" /\ wallets[req[s].wallet] # None
    /\ Goto(s, IF s \in WorkerSessions THEN "write" ELSE "relookup")
    /\ snap' = [snap EXCEPT ![s] = wallets[req[s].wallet]]
    /\ UNCHANGED <<tables, counters, req, uid, msg, verdict, staged, history>>

WalletBeforeIdentity(s) ==
    /\ pc[s] = "wallet" /\ Granted(s) /\ wallets[req[s].wallet] # None
    /\ Goto(s, IF snap[s] = None THEN "identity"
               ELSE IF s \in WorkerSessions THEN "write" ELSE "relookup")
    /\ snap' = [snap EXCEPT ![s] = wallets[req[s].wallet]]
    /\ UNCHANGED <<tables, counters, req, uid, msg, verdict, staged, history>>

(* FindForUpdate; a missing wallet is an error.                            *)
LockWallet(s) ==
    /\ pc[s] = "wallet" /\ Granted(s)
    /\ IF wallets[req[s].wallet] = None
       THEN EndTx(s)
       ELSE /\ Goto(s, IF s \in WorkerSessions THEN "write" ELSE "relookup")
            /\ snap' = [snap EXCEPT ![s] = wallets[req[s].wallet]]
            /\ UNCHANGED <<req, uid, msg, verdict, staged>>
    /\ UNCHANGED <<tables, counters, history>>

(* The lookup repeated under the wallet lock.                              *)
Relookup(s) ==
    /\ pc[s] = "relookup"
    /\ IF FindExisting(s) # {}
       THEN AnswerExisting(s)
       ELSE Goto(s, "decide") /\ UNCHANGED <<tables, counters, local, history>>

(* The rest of processInTx: reject, wait for the reference, or apply.      *)
Decision(c, w) ==
    LET refs == FindByExternal(c.prov, c.ref)
        reference == txns[CHOOSE i \in refs : TRUE]
    IN  CASE c.player # w.player -> "PLAYER_WALLET_MISMATCH"
          [] c.player = w.player /\ c.type \notin Reversals -> DirectionOf(c.type, "")
          [] c.player = w.player /\ c.type \in Reversals ->
                IF c.ref = NoReference THEN "REFERENCE_REQUIRED"
                ELSE IF refs = {} THEN "PENDING_REFERENCE"
                ELSE IF ~ValidReference(c, reference) THEN "REFERENCE_INVALID"
                ELSE DirectionOf(c.type, reference.cmd.type)

Decide(s) ==
    /\ pc[s] = "decide"
    /\ IF ValidTransaction(req[s].type, req[s].amount)
       THEN /\ verdict' = [verdict EXCEPT ![s] = Decision(req[s], snap[s])]
            /\ Goto(s, "write")
            /\ UNCHANGED <<req, uid, msg, snap, staged>>
       ELSE EndTx(s)
    /\ UNCHANGED <<tables, counters, history>>

(* commandFromRecord rebuilds the whole command, idempotency key included. *)
CommandFromRecord(i) == txns[i].cmd

(* Seeded fault: the claim does not lock the row.                          *)
ClaimUnlocked(s, i) ==
    /\ s \in WorkerSessions /\ pc[s] = "idle"
    /\ i \in Persisted
    /\ txns[i].state = "PENDING_REFERENCE" /\ txns[i].due
    /\ Goto(s, "identity")
    /\ req' = [req EXCEPT ![s] = CommandFromRecord(i)]
    /\ uid' = [uid EXCEPT ![s] = i]
    /\ UNCHANGED <<tables, counters, msg, snap, verdict, staged, history>>

(* FindNextPendingReferenceForUpdate SKIP LOCKED.                          *)
ClaimPending(s, i) ==
    /\ s \in WorkerSessions /\ pc[s] = "idle"
    /\ i \in Persisted
    /\ txns[i].state = "PENDING_REFERENCE" /\ txns[i].due
    /\ ~\E t \in Sessions : HoldsRow(t, i)
    /\ Goto(s, "identity")
    /\ req' = [req EXCEPT ![s] = CommandFromRecord(i)]
    /\ uid' = [uid EXCEPT ![s] = i]
    /\ UNCHANGED <<tables, counters, msg, snap, verdict, staged, history>>

(* advancePendingReferenceInTx: reschedule, or give up with the code.      *)
Advance(i, code) ==
    IF txns[i].attempts + 1 >= MaxReferenceAttempts THEN code ELSE "RETRY"

(* Seeded fault: a reference that waits itself counts as unsuccessful.     *)
PendingDecisionHasty(i) ==
    LET c == txns[i].cmd
        refs == FindByExternal(c.prov, c.ref)
        reference == txns[CHOOSE j \in refs : TRUE]
    IN  IF refs = {} THEN Advance(i, "REFERENCE_NOT_FOUND")
        ELSE IF reference.state # "PROCESSED" THEN "REFERENCE_NOT_SUCCESSFUL"
        ELSE IF ~ValidReference(c, reference) THEN "REFERENCE_INVALID"
        ELSE DirectionOf(c.type, reference.cmd.type)

(* processPendingReferenceInTx after the lock on the reference's identity. *)
PendingDecision(i) ==
    LET c == txns[i].cmd
        refs == FindByExternal(c.prov, c.ref)
        reference == txns[CHOOSE j \in refs : TRUE]
    IN  IF refs = {} THEN Advance(i, "REFERENCE_NOT_FOUND")
        ELSE IF reference.state \in {"PENDING", "PENDING_REFERENCE"}
        THEN Advance(i, "REFERENCE_NOT_RESOLVED")
        ELSE IF reference.state # "PROCESSED" THEN "REFERENCE_NOT_SUCCESSFUL"
        ELSE IF ~ValidReference(c, reference) THEN "REFERENCE_INVALID"
        ELSE DirectionOf(c.type, reference.cmd.type)

ReadReference(s) ==
    /\ pc[s] = "reference"
    /\ verdict' = [verdict EXCEPT ![s] = PendingDecision(uid[s])]
    /\ Goto(s, IF PendingDecision(uid[s]) = "RETRY" THEN "write" ELSE "wallet")
    /\ UNCHANGED <<tables, counters, req, uid, msg, snap, staged, history>>

(* Seeded fault: the client is answered before the commit.                 *)
WriteAndReply(s) ==
    /\ pc[s] = "write" /\ Granted(s)
    /\ ~IdentityTaken(s) /\ ~ReversalTaken(s)
    /\ ~ForeignKeyFails(s) /\ ~LedgerTaken(s)
    /\ staged' = [staged EXCEPT ![s] = WritesOf(s)]
    /\ replies' = IF s \in HTTPSessions
                  THEN replies \cup {Reply(req[s], RowOf(s).result)} ELSE replies
    /\ ordering' = ordering + Len(EventKindsOf(req[s], verdict[s], snap[s]))
    /\ Goto(s, "commit")
    /\ UNCHANGED <<tables, issued, failures, req, uid, msg, snap, verdict, conflicts>>

(* The inserts and updates of the transaction succeed.                     *)
Write(s) ==
    /\ pc[s] = "write" /\ Granted(s)
    /\ ~IdentityTaken(s) /\ ~ReversalTaken(s)
    /\ ~ForeignKeyFails(s) /\ ~LedgerTaken(s)
    /\ staged' = [staged EXCEPT ![s] = WritesOf(s)]
    /\ ordering' = ordering + Len(EventKindsOf(req[s], verdict[s], snap[s]))
    /\ Goto(s, "commit")
    /\ UNCHANGED <<tables, issued, failures, req, uid, msg, snap, verdict, history>>

(* Process: an identity violation rolls back and is resolved in a second   *)
(* transaction.                                                            *)
IdentityRace(s) ==
    /\ s \in HTTPSessions
    /\ pc[s] = "write" /\ Granted(s)
    /\ IdentityTaken(s)
    /\ Goto(s, "resolve")
    /\ snap' = [snap EXCEPT ![s] = None]
    /\ verdict' = [verdict EXCEPT ![s] = "NONE"]
    /\ UNCHANGED <<tables, counters, req, uid, msg, staged, history>>

(* A reversal violation, and in ProcessMessage any identity violation, is  *)
(* ErrIdempotencyConflict.                                                 *)
ConflictAtWrite(s) ==
    /\ s \notin WorkerSessions
    /\ pc[s] = "write" /\ Granted(s)
    /\ IF s \in HTTPSessions THEN ~IdentityTaken(s) /\ ReversalTaken(s)
                             ELSE IdentityTaken(s) \/ ReversalTaken(s)
    /\ conflicts' = conflicts \cup {req[s]}
    /\ EndTx(s)
    /\ UNCHANGED <<tables, counters, replies>>

(* A worker's update violates the reversal index, an insert violates the   *)
(* currency foreign key: the transaction rolls back with an error.         *)
WriteFails(s) ==
    /\ pc[s] = "write" /\ Granted(s)
    /\ IF s \in WorkerSessions
       THEN IdentityTaken(s) \/ ReversalTaken(s) \/ LedgerTaken(s)
       ELSE /\ ~IdentityTaken(s) /\ ~ReversalTaken(s)
            /\ ForeignKeyFails(s) \/ LedgerTaken(s)
    /\ EndTx(s)
    /\ UNCHANGED <<tables, counters, history>>

(* resolveIdentityConflict: not found is a conflict too.                   *)
Resolve(s) ==
    /\ pc[s] = "resolve"
    /\ AnswerExisting(s)

(* Commit: the staged writes and the completed inbox row become visible,   *)
(* and an HTTP client gets its result.                                     *)
Commit(s) ==
    LET w == req[s].wallet
    IN  /\ pc[s] = "commit"
        /\ IF staged[s] = None
           THEN UNCHANGED <<wallets, txns, ledger, outbox>>
           ELSE /\ txns' = [txns EXCEPT ![uid[s]] = staged[s].row]
                /\ wallets' = IF staged[s].wallet = None THEN wallets
                              ELSE [wallets EXCEPT ![w] = staged[s].wallet]
                /\ ledger' = IF staged[s].entry = None THEN ledger
                             ELSE [ledger EXCEPT ![w] = Append(@, staged[s].entry)]
                /\ outbox' = outbox \cup staged[s].events
        /\ inbox' = IF s \in ConsumerSessions
                    THEN [inbox EXCEPT ![msg[s]] = PayloadHash(req[s])] ELSE inbox
        /\ replies' = IF s \in HTTPSessions
                      THEN replies \cup {Reply(req[s], staged[s].row.result)}
                      ELSE replies
        /\ EndTx(s)
        /\ UNCHANGED <<counters, conflicts>>

(* A crash, a cancelled context or a lost connection rolls back.           *)
Abort(s) ==
    /\ pc[s] # "idle"
    /\ failures < MaxFailures
    /\ failures' = failures + 1
    /\ EndTx(s)
    /\ UNCHANGED <<tables, ordering, issued, history>>

(* reference_next_attempt_at of a rescheduled row is reached.              *)
BackoffElapses(i) ==
    /\ i \in Persisted
    /\ txns[i].state = "PENDING_REFERENCE" /\ ~txns[i].due
    /\ ~\E s \in Sessions : HoldsRow(s, i)
    /\ txns' = [txns EXCEPT ![i].due = TRUE]
    /\ UNCHANGED <<wallets, ledger, inbox, outbox, counters, pc, local, history>>

-----------------------------------------------------------------------------
Init ==
    /\ wallets = [w \in Wallets |-> None]
    /\ txns = [i \in TxIDs |-> None]
    /\ ledger = [w \in Wallets |-> <<>>]
    /\ inbox = [m \in MessageIDs |-> None]
    /\ outbox = {}
    /\ ordering = 0 /\ issued = 0 /\ failures = 0
    /\ pc = [s \in Sessions |-> "idle"]
    /\ req = [s \in Sessions |-> None]
    /\ uid = [s \in Sessions |-> 0]
    /\ msg = [s \in Sessions |-> None]
    /\ snap = [s \in Sessions |-> None]
    /\ verdict = [s \in Sessions |-> "NONE"]
    /\ staged = [s \in Sessions |-> None]
    /\ replies = {} /\ conflicts = {}

(* A step of a transaction that has begun.                                 *)
Step(s) ==
    \/ InsertInbox(s)
    \/ LockReferenceIdentity(s)
    \/ Lookup(s)
    \/ LockWallet(s)
    \/ Relookup(s)
    \/ Decide(s)
    \/ ReadReference(s)
    \/ Write(s)
    \/ IdentityRace(s)
    \/ ConflictAtWrite(s)
    \/ WriteFails(s)
    \/ Resolve(s)
    \/ Commit(s)

Next ==
    \/ \E o \in OpenRequests : OpenWallet(o)
    \/ \E s \in Sessions :
         \/ \E c \in Commands : BeginProcess(s, c)
         \/ \E m \in Messages : BeginMessage(s, m)
         \/ \E i \in TxIDs : ClaimPending(s, i)
         \/ Step(s)
         \/ Abort(s)
    \/ \E i \in TxIDs : BackoffElapses(i)

Spec == Init /\ [][Next]_vars

(* The scheduler runs every goroutine, the worker loop polls again, and    *)
(* time passes.                                                            *)
Fairness ==
    /\ \A s \in Sessions : WF_vars(Step(s))
    /\ \A s \in WorkerSessions : WF_vars(\E i \in TxIDs : ClaimPending(s, i))
    /\ \A i \in TxIDs : WF_vars(BackoffElapses(i))

FairSpec == Spec /\ Fairness

-----------------------------------------------------------------------------
(* The service as its clients see it: the reads of application/query, and  *)
(* the sequential contract.                                                *)

(* The balance in the stored result, when the result agrees with its row.  *)
PersistedBalance(i) == IF Replayable(i) THEN txns[i].result.balance ELSE None

TransactionView(i) ==
    [tx |-> i, cmd |-> txns[i].cmd, state |-> txns[i].state,
     code |-> txns[i].result.code, balance |-> PersistedBalance(i)]

(* GET of a transaction by its id and by its external id: at most one row, *)
(* of the provider that asks.                                              *)
TransactionForProvider(prov, id) ==
    {TransactionView(i) : i \in {j \in Persisted : j = id /\ txns[j].cmd.prov = prov}}

TransactionByExternalForProvider(prov, ext) ==
    {TransactionView(i) : i \in FindByExternal(prov, ext)}

Account(w) ==
    IF wallets[w] = None THEN None
    ELSE [player |-> wallets[w].player, currency |-> wallets[w].currency,
          balance |-> wallets[w].balance]

Booked(i) ==
    IF txns[i] = None THEN None
    ELSE [cmd |-> txns[i].cmd, state |-> txns[i].state, result |-> txns[i].result]

Contract == INSTANCE WageringContract WITH
    Transactions <- TxIDs,
    OpeningOf <- [o \in OpenRequests |-> OpeningCommand(o)],
    accounts <- [w \in Wallets |-> Account(w)],
    book <- [i \in TxIDs |-> Booked(i)],
    answers <- replies,
    refusals <- conflicts

\* The service is linearizable: whatever sessions, locks, redeliveries, crashes
\* and reference workers do, its committed state and its answers are those of
\* the sequential ledger of WageringContract, in which a bet is paid from the
\* balance of the moment, a reference is consumed once, a repeated request is
\* given its recorded result and only a real conflict is refused.
ImplementsContract == Contract!Spec

-----------------------------------------------------------------------------
(* Properties.                                                             *)

TablesType ==
    /\ wallets \in [Wallets -> WalletRows \cup {None}]
    /\ txns \in [TxIDs -> TxRows \cup {None}]
    /\ ledger \in [Wallets -> Seq(Entries)]
    /\ inbox \in [MessageIDs -> HashSet \cup {None}]
    /\ outbox \subseteq Events

CountersType ==
    ordering \in Nat /\ issued \in 0 .. MaxAttempts /\ failures \in 0 .. MaxFailures

LocalType ==
    /\ pc \in [Sessions -> PCs]
    /\ req \in [Sessions -> CommandSet \cup {None}]
    /\ uid \in [Sessions -> TxIDs \cup {0}]
    /\ msg \in [Sessions -> MessageIDs \cup {None}]
    /\ snap \in [Sessions -> WalletRows \cup {None}]
    /\ verdict \in [Sessions -> Verdicts]
    /\ staged \in [Sessions -> StagedWrites \cup {None}]

HistoryType ==
    /\ replies \subseteq [cmd : CommandSet, result : ResultSet]
    /\ conflicts \subseteq CommandSet

\* Every variable stays in the set its table or Go type describes; balances
\* and ledger amounts stay inside int64 and are never negative.
TypeOK == TablesType /\ CountersType /\ LocalType /\ HistoryType

BalanceBefore(l, k) == IF k = 1 THEN 0 ELSE l[k - 1].after

(* The opening credit, when there is one, is booked at version 1.          *)
OpenedEmpty(w) ==
    ledger[w] = <<>> \/ txns[ledger[w][1].tx].cmd.type # "OPENING"

VersionOffset(w) == IF OpenedEmpty(w) THEN 1 ELSE 0

\* The wallet row and its ledger never drift apart: the committed entries form
\* a chain that starts at zero and ends at the wallet's balance, each entry
\* adding up, and the version counts them.  UpdateBalance and the ledger insert
\* both work from the row read FOR UPDATE, so a lost update would break it.
WalletMatchesLedger ==
    \A w \in Wallets :
        LET l == ledger[w]
        IN  IF wallets[w] = None THEN l = <<>>
            ELSE /\ \A k \in 1 .. Len(l) :
                        ValidEntry(l[k]) /\ l[k].before = BalanceBefore(l, k)
                 /\ wallets[w].balance = BalanceBefore(l, Len(l) + 1)
                 /\ wallets[w].version = Len(l) + VersionOffset(w)

\* Money moves exactly once per accepted transaction: a wallet's ledger has one
\* entry, for the requested amount, for each of its PROCESSED transactions that
\* is not a LOSS, and none for any other, whatever retries, redeliveries,
\* crashes and workers did.
ExactlyOnceMovement ==
    \A w \in Wallets :
        LET l == ledger[w]
        IN  /\ \A j, k \in 1 .. Len(l) : l[j].tx = l[k].tx => j = k
            /\ {l[k].tx : k \in 1 .. Len(l)} =
                 {i \in Persisted : /\ txns[i].cmd.wallet = w
                                    /\ txns[i].state = "PROCESSED"
                                    /\ txns[i].cmd.type # "LOSS"}
            /\ \A k \in 1 .. Len(l) : l[k].value = txns[l[k].tx].cmd.amount

\* A provider's key and a provider's external id name at most one committed
\* transaction, even when the requests that race for it lock different wallets
\* and different identities: insertTransaction meets the unique constraints.
OneRowPerIdentity ==
    \A i, j \in Persisted :
        (txns[i].cmd.prov = txns[j].cmd.prov
            /\ (txns[i].cmd.key = txns[j].cmd.key \/ txns[i].cmd.ext = txns[j].cmd.ext))
        => i = j

(* What a client was told, as a read shows it.                             *)
Shown(r) ==
    [tx |-> r.result.tx, cmd |-> r.cmd, state |-> r.result.state,
     code |-> r.result.code, balance |-> r.result.balance]

\* A result an HTTP client received is durable: from then on both GETs find
\* one transaction, that very command under that very id, and once the answer
\* was final they show its state, failure code and balance for ever, whatever
\* the wallet's balance has become.
RepliesAreDurable ==
    \A r \in replies :
        LET byID == TransactionForProvider(r.cmd.prov, r.result.tx)
        IN  /\ byID = TransactionByExternalForProvider(r.cmd.prov, r.cmd.ext)
            /\ \E view \in byID : view.cmd = r.cmd
            /\ r.result.state # "PENDING_REFERENCE" => byID = {Shown(r)}

\* replayResult never finds a stored result that contradicts its row, so a
\* retried request never ends in ErrReplayUnavailable.
ReplayAvailable == \A i \in Persisted : Replayable(i)

\* ErrIdempotencyConflict is never raised against a request's own committed
\* twin: some other committed command has its key, its external id, or
\* already consumed its reference.  In particular ProcessMessage, which turns
\* every unique violation into a conflict, never does so for a plain duplicate.
ConflictIsReal ==
    \A c \in conflicts :
        \E i \in Persisted :
            LET d == txns[i].cmd
            IN  /\ d # c /\ d.prov = c.prov
                /\ \/ d.key = c.key
                   \/ d.ext = c.ext
                   \/ d.ref = c.ref /\ d.ref # NoReference /\ txns[i].state = "PROCESSED"

\* What the specification says of the reversal limit: a reference "não pode
\* receber duas reversões bem-sucedidas do mesmo tipo", while a WIN may name a
\* BET freely.  So a request refused for its reference finds that reference
\* consumed by a successful reversal, not by a WIN that merely names it.
RefusedOnlyByReversal ==
    \A c \in conflicts :
        \E i \in Persisted :
            LET d == txns[i].cmd
            IN  /\ d # c /\ d.prov = c.prov
                /\ \/ d.key = c.key
                   \/ d.ext = c.ext
                   \/ d.ref = c.ref /\ txns[i].state = "PROCESSED" /\ d.type \in Reversals

\* The inbox row of a message and the financial outcome of its command are
\* committed together: a completed message always has its transaction row.
InboxAtomic ==
    \A m \in MessageIDs :
        inbox[m] # None => \E i \in Persisted : PayloadHash(txns[i].cmd) = inbox[m]

\* The wallet row a transaction read FOR UPDATE is still the committed row
\* when it writes: the lock keeps every other writer out, so the balance it
\* checks is the balance it debits.
SnapshotCurrent ==
    \A s \in Sessions : snap[s] # None => snap[s] = wallets[req[s].wallet]

(* Position of transaction i in its wallet's ledger.                       *)
EntryAt(i, k) ==
    k \in 1 .. Len(ledger[txns[i].cmd.wallet]) /\ ledger[txns[i].cmd.wallet][k].tx = i

\* A processed REFUND or ROLLBACK undoes exactly one earlier movement: the
\* entry of the transaction it names, in the opposite direction, for the same
\* value, later in the same ledger, and no second reversal undoes it again.
ReversalSound ==
    \A i \in Persisted :
        (txns[i].state = "PROCESSED" /\ txns[i].cmd.type \in Reversals) =>
            /\ \E j \in FindByExternal(txns[i].cmd.prov, txns[i].cmd.ref) :
                 \E k, n \in 1 .. Len(ledger[txns[i].cmd.wallet]) :
                    LET l == ledger[txns[i].cmd.wallet]
                    IN  /\ EntryAt(j, k) /\ EntryAt(i, n) /\ k < n
                        /\ l[k].dir # l[n].dir /\ l[k].value = l[n].value
            /\ \A j \in Persisted \ {i} :
                 ~(/\ txns[j].state = "PROCESSED"
                   /\ txns[j].cmd.type \in Reversals
                   /\ txns[j].cmd.prov = txns[i].cmd.prov
                   /\ txns[j].cmd.ref = txns[i].cmd.ref)

(* insertEvent's aggregate: the wallet for balance changes, else the       *)
(* transaction.                                                            *)
SameAggregate(e, f) ==
    IF e.kind = "WalletBalanceChanged"
    THEN f.kind = "WalletBalanceChanged" /\ e.wallet = f.wallet
    ELSE f.kind # "WalletBalanceChanged" /\ e.tx = f.tx

\* An event never becomes visible behind an event of the same aggregate that
\* the publisher may already have sent: its ordering id is larger than every
\* committed one of the aggregate, although ids are drawn before the commit.
OutboxOrder ==
    [][\A e \in outbox' \ outbox : \A f \in outbox :
            SameAggregate(e, f) => f.ord < e.ord]_vars

\* The WalletBalanceChanged events of a wallet, in ordering-id order, replay its
\* ledger: one event per entry, carrying the version the entry produced.
WalletEventsMirrorLedger ==
    \A w \in Wallets :
        LET l == ledger[w]
            es == {e \in outbox : e.kind = "WalletBalanceChanged" /\ e.wallet = w}
        IN  /\ Cardinality(es) = Len(l)
            /\ \A k \in 1 .. Len(l) :
                 \E e \in es : e.tx = l[k].tx /\ e.version = k + VersionOffset(w)
            /\ \A e, f \in es : e.version < f.version => e.ord < f.ord

\* A committed transaction row is final once PROCESSED or REJECTED, its
\* command never changes, and a pending one moves only along Transition.
TerminalIsFinal ==
    [][\A i \in Persisted :
            /\ txns'[i] # None /\ txns'[i].cmd = txns[i].cmd
            /\ txns'[i].state = txns[i].state \/ Transition(txns[i].state, txns'[i].state)
            /\ txns[i].state # "PENDING_REFERENCE" => txns'[i] = txns[i]]_vars

(* Row i is rejected with this code by the step.                           *)
RejectedNow(i, code) ==
    /\ txns[i].state = "PENDING_REFERENCE"
    /\ txns'[i].state = "REJECTED" /\ txns'[i].result.code = code

ReferencesOf(i) == FindByExternal(txns[i].cmd.prov, txns[i].cmd.ref)

\* A worker never gives up on a reversal with REFERENCE_NOT_FOUND when its
\* reference has been committed meanwhile: the advisory lock on the
\* reference's identity keeps it absent from the read to the commit.
NotFoundIsTrue ==
    [][\A i \in Persisted :
            RejectedNow(i, "REFERENCE_NOT_FOUND") => ReferencesOf(i) = {}]_vars

\* LockReferenceIdentity promises to serialize the "creation/confirmation of
\* a reference with a pending-reference worker's terminal decision": a worker
\* does not reject with REFERENCE_NOT_RESOLVED when the reference is confirmed.
NotResolvedIsTrue ==
    [][\A i \in Persisted :
            RejectedNow(i, "REFERENCE_NOT_RESOLVED") =>
                \A j \in ReferencesOf(i) : txns[j].state # "PROCESSED"]_vars

\* No set of sessions waits only for each other: the inbox key, the advisory
\* lock, the wallet row and the unique keys are always taken in this order.
NoLockCycle ==
    \A D \in (SUBSET Sessions) \ {{}} :
        \E s \in D : \A t \in D : ~WaitsFor(s, t)

\* Every reversal accepted as PENDING_REFERENCE is eventually resolved or
\* rejected by the reference workers, whatever else runs.
PendingReferenceResolves ==
    \A i \in TxIDs :
        (i \in Persisted /\ txns[i].state = "PENDING_REFERENCE")
            ~> (i \in Persisted /\ txns[i].state \in {"PROCESSED", "REJECTED"})
=============================================================================
