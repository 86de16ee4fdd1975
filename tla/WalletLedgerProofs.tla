------------------------- MODULE WalletLedgerProofs -------------------------
(***************************************************************************)
(* Wallet and ledger agree in every instance of FinancialService.  First   *)
(* the lock: the wallet row read FOR UPDATE is the row that is written     *)
(* back, and no two transactions wait for each other.  Then what a         *)
(* transaction knows of its own row: ids are fresh, a worker holds the     *)
(* command of the row it claimed, and the staged writes are computed from  *)
(* the snapshot.                                                           *)
(***************************************************************************)
EXTENDS FinancialServiceProofs

(* A wallet row is read FOR UPDATE by one open transaction at a time.      *)
OneLockHolder ==
    \A s, t \in Sessions :
        s # t /\ snap[s] # None /\ snap[t] # None => req[s].wallet # req[t].wallet

(* Only a transaction that holds its wallet row is about to write it.      *)
WrittenUnderLock ==
    \A s \in Sessions :
        staged[s] # None /\ staged[s].wallet # None => snap[s] # None

LockInv == SnapshotCurrent /\ OneLockHolder /\ WrittenUnderLock

-----------------------------------------------------------------------------
\* A transaction that only goes on, or ends without writing a wallet, disturbs
\* nobody's snapshot.
LEMMA KeepsLocks ==
    ASSUME LockInv, wallets' = wallets,
           \A t \in Sessions :
              \/ snap'[t] = None /\ staged'[t] = None
              \/ snap'[t] = snap[t] /\ staged'[t] = staged[t] /\ req'[t] = req[t]
    PROVE  LockInv'
  <1>1. SnapshotCurrent'
    BY DEF LockInv, SnapshotCurrent
  <1>2. OneLockHolder'
    BY DEF LockInv, OneLockHolder
  <1>3. WrittenUnderLock'
    BY DEF LockInv, WrittenUnderLock
  <1> QED
    BY <1>1, <1>2, <1>3 DEF LockInv

\* EndTx drops the locks of one session.
LEMMA EndTxKeepsLocks ==
    ASSUME TypeInv, LockInv, NEW s \in Sessions, EndTx(s), wallets' = wallets
    PROVE  LockInv'
  <1>1. ASSUME NEW t \in Sessions
        PROVE  \/ snap'[t] = None /\ staged'[t] = None
               \/ snap'[t] = snap[t] /\ staged'[t] = staged[t] /\ req'[t] = req[t]
    BY DEF EndTx, TypeInv, TypeOK, LocalType
  <1> QED
    BY <1>1, KeepsLocks

\* A new wallet is nobody's snapshot.
LEMMA OpenWalletLocks ==
    ASSUME TypeInv, LockInv, NEW o \in OpenRequests, OpenWallet(o)
    PROVE  LockInv'
  <1>1. UNCHANGED <<snap, staged, req>> /\ wallets[o.wallet] = None
    BY DEF OpenWallet, local
  <1>2. \A w \in Wallets : w # o.wallet => wallets'[w] = wallets[w]
    BY DEF OpenWallet, TypeInv, TypeOK, TablesType
  <1>3. ASSUME NEW s \in Sessions, snap[s] # None
        PROVE  req[s].wallet \in Wallets /\ snap[s] = wallets[req[s].wallet]
    BY <1>3 DEF TypeInv, SessionShape, Shape, CommandSet, LockInv, SnapshotCurrent
  <1>4. SnapshotCurrent'
    BY <1>1, <1>2, <1>3 DEF SnapshotCurrent
  <1> QED
    BY <1>1, <1>4 DEF LockInv, OneLockHolder, WrittenUnderLock

\* An attempt or a claim begins without a snapshot.
LEMMA BeginLocks ==
    ASSUME TypeInv, LockInv, NEW s \in Sessions, pc[s] = "idle",
           NEW c, req' = [req EXCEPT ![s] = c],
           UNCHANGED <<wallets, snap, staged>>
    PROVE  LockInv'
  <1>1. snap[s] = None /\ staged[s] = None
    BY DEF TypeInv, SessionShape, Shape
  <1>2. \A t \in Sessions : t # s => req'[t] = req[t]
    BY DEF TypeInv, TypeOK, LocalType
  <1> QED
    BY <1>1, <1>2, KeepsLocks

\* FindForUpdate waits until no other transaction holds the row.
LEMMA LockWalletLocks ==
    ASSUME TypeInv, LockInv, NEW s \in Sessions, LockWallet(s)
    PROVE  LockInv'
  <1> DEFINE w == req[s].wallet
  <1>1. CASE wallets[w] = None
    BY <1>1, EndTxKeepsLocks DEF LockWallet, tables
  <1>2. CASE wallets[w] # None
    <2>1. /\ snap' = [snap EXCEPT ![s] = wallets[w]]
          /\ UNCHANGED <<wallets, req, staged>>
      BY <1>2 DEF LockWallet, tables
    <2>2. /\ snap'[s] = wallets[w]
          /\ \A t \in Sessions : t # s => snap'[t] = snap[t]
      BY <2>1 DEF TypeInv, TypeOK, LocalType
    <2>3. \A t \in Sessions : t # s => ~(snap[t] # None /\ req[t].wallet = w)
      BY DEF LockWallet, Granted, WaitsFor, WaitsForWallet, HoldsWallet
    <2>4. SnapshotCurrent'
      BY <2>1, <2>2 DEF LockInv, SnapshotCurrent
    <2>5. OneLockHolder'
      BY <2>1, <2>2, <2>3 DEF LockInv, OneLockHolder
    <2>6. WrittenUnderLock'
      BY <1>2, <2>1, <2>2 DEF LockInv, WrittenUnderLock
    <2> QED
      BY <2>4, <2>5, <2>6 DEF LockInv
  <1> QED
    BY <1>1, <1>2

\* Only a decision that moves money, made on a locked row, writes the wallet.
LEMMA WriteLocks ==
    ASSUME TypeInv, LockInv, NEW s \in Sessions, Write(s)
    PROVE  LockInv'
  <1>1. /\ UNCHANGED <<wallets, snap, req>>
        /\ staged' = [staged EXCEPT ![s] = WritesOf(s)]
    BY DEF Write, tables
  <1>2. /\ staged'[s] = WritesOf(s)
        /\ \A t \in Sessions : t # s => staged'[t] = staged[t]
    BY <1>1 DEF TypeInv, TypeOK, LocalType
  <1>3. WritesOf(s).wallet = WalletOf(req[s], verdict[s], snap[s])
    BY DEF WritesOf
  <1>4. snap[s] = None => WalletOf(req[s], verdict[s], snap[s]) = None
    BY NoneAssumption
    DEF Write, TypeInv, SessionShape, Shape, WalletOf, Moves, Directions
  <1>5. WrittenUnderLock'
    BY <1>1, <1>2, <1>3, <1>4 DEF LockInv, WrittenUnderLock
  <1> QED
    BY <1>1, <1>5 DEF LockInv, SnapshotCurrent, OneLockHolder

\* A commit changes only the wallet its transaction has locked.
LEMMA CommitLocks ==
    ASSUME TypeInv, LockInv, NEW s \in Sessions, Commit(s)
    PROVE  LockInv'
  <1>1. EndTx(s)
    BY DEF Commit
  <1>2. CASE staged[s] = None \/ staged[s].wallet = None
    <2>1. wallets' = wallets
      BY <1>2 DEF Commit
    <2> QED
      BY <1>1, <2>1, EndTxKeepsLocks
  <1>3. CASE staged[s] # None /\ staged[s].wallet # None
    <2>1. snap[s] # None
      BY <1>3 DEF LockInv, WrittenUnderLock
    <2>2. ASSUME NEW t \in Sessions, t # s, snap[t] # None
          PROVE  wallets'[req[t].wallet] = wallets[req[t].wallet]
      <3>1. req[t].wallet \in Wallets /\ req[t].wallet # req[s].wallet
        BY <2>1, <2>2
        DEF TypeInv, SessionShape, Shape, CommandSet, LockInv, OneLockHolder
      <3>2. wallets' = [wallets EXCEPT ![req[s].wallet] = staged[s].wallet]
        BY <1>3 DEF Commit
      <3> QED
        BY <3>1, <3>2 DEF TypeInv, TypeOK, TablesType
    <2>3. /\ snap'[s] = None /\ staged'[s] = None
          /\ \A t \in Sessions : t # s => /\ snap'[t] = snap[t]
                                          /\ staged'[t] = staged[t]
                                          /\ req'[t] = req[t]
      BY <1>1 DEF EndTx, TypeInv, TypeOK, LocalType
    <2>4. SnapshotCurrent'
      BY <2>2, <2>3 DEF LockInv, SnapshotCurrent
    <2>5. OneLockHolder'
      BY <2>3 DEF LockInv, OneLockHolder
    <2>6. WrittenUnderLock'
      BY <2>3 DEF LockInv, WrittenUnderLock
    <2> QED
      BY <2>4, <2>5, <2>6 DEF LockInv
  <1> QED
    BY <1>2, <1>3

\* The statements that neither take nor release the wallet lock, or roll back.
LEMMA OtherStepLocks ==
    ASSUME TypeInv, LockInv, NEW s \in Sessions,
           \/ InsertInbox(s) \/ LockReferenceIdentity(s) \/ Lookup(s) \/ Relookup(s)
           \/ Decide(s) \/ ReadReference(s) \/ IdentityRace(s) \/ ConflictAtWrite(s)
           \/ WriteFails(s) \/ Resolve(s) \/ Abort(s)
    PROVE  LockInv'
  <1>1. wallets' = wallets
    BY DEF InsertInbox, LockReferenceIdentity, Lookup, Relookup, Decide, ReadReference,
       IdentityRace, ConflictAtWrite, WriteFails, Resolve, Abort, AnswerExisting, tables
  <1>2. CASE EndTx(s)
    BY <1>1, <1>2, EndTxKeepsLocks
  <1>3. CASE UNCHANGED <<snap, staged, req>>
    BY <1>1, <1>3, KeepsLocks
  <1>4. CASE IdentityRace(s)
    <2>1. staged[s] = None /\ UNCHANGED <<staged, req>>
      BY <1>4 DEF IdentityRace, TypeInv, SessionShape, Shape
    <2>2. snap'[s] = None /\ \A t \in Sessions : t # s => snap'[t] = snap[t]
      BY <1>4 DEF IdentityRace, TypeInv, TypeOK, LocalType
    <2> QED
      BY <1>1, <2>1, <2>2, KeepsLocks
  <1>5. EndTx(s) \/ UNCHANGED <<snap, staged, req>> \/ IdentityRace(s)
    BY DEF InsertInbox, LockReferenceIdentity, Lookup, Relookup, Decide, ReadReference,
       ConflictAtWrite, WriteFails, Resolve, Abort, AnswerExisting, local
  <1> QED
    BY <1>2, <1>3, <1>4, <1>5

\* The lock invariant is inductive relative to the types.
LEMMA NextLocks == TypeInv /\ LockInv /\ [Next]_vars => LockInv'
  <1> SUFFICES ASSUME TypeInv, LockInv, [Next]_vars PROVE LockInv'
    OBVIOUS
  <1>1. ASSUME NEW o \in OpenRequests, OpenWallet(o) PROVE LockInv'
    BY <1>1, OpenWalletLocks
  <1>2. ASSUME NEW s \in Sessions, NEW c \in Commands, BeginProcess(s, c) PROVE LockInv'
    BY <1>2, BeginLocks DEF BeginProcess, Begin, tables
  <1>3. ASSUME NEW s \in Sessions, NEW m \in Messages, BeginMessage(s, m) PROVE LockInv'
    BY <1>3, BeginLocks DEF BeginMessage, Begin, tables
  <1>4. ASSUME NEW s \in Sessions, NEW i \in TxIDs, ClaimPending(s, i) PROVE LockInv'
    BY <1>4, BeginLocks DEF ClaimPending, tables
  <1>5. ASSUME NEW s \in Sessions, Step(s) PROVE LockInv'
    BY <1>5, LockWalletLocks, WriteLocks, CommitLocks, OtherStepLocks DEF Step
  <1>6. ASSUME NEW s \in Sessions, Abort(s) PROVE LockInv'
    BY <1>6, OtherStepLocks
  <1>7. ASSUME NEW i \in TxIDs, BackoffElapses(i) PROVE LockInv'
    BY <1>7, KeepsLocks DEF BackoffElapses, local
  <1>8. CASE UNCHANGED vars
    BY <1>8, KeepsLocks DEF vars, tables, local
  <1> QED
    BY <1>1, <1>2, <1>3, <1>4, <1>5, <1>6, <1>7, <1>8 DEF Next

\* In every instance, whatever requests, deliveries, workers and crashes
\* interleave, the wallet row a transaction read FOR UPDATE is the committed
\* row until the transaction ends: the balance it checks is the balance it
\* debits, and no update is lost.
THEOREM NoLostUpdate == Spec => []SnapshotCurrent
  <1>1. Init => LockInv
    BY DEF Init, LockInv, SnapshotCurrent, OneLockHolder, WrittenUnderLock
  <1>2. TypeInv /\ TypeInv' /\ LockInv /\ [Next]_vars => LockInv'
    BY NextLocks
  <1>3. LockInv => SnapshotCurrent
    BY DEF LockInv
  <1> QED
    BY <1>1, <1>2, <1>3, InitType, NextType, PTL DEF Spec

-----------------------------------------------------------------------------
(* The order in which locks are taken.                                     *)

\* What a session waits for is held by one that is already past the statement
\* it waits at: the inbox key is behind the advisory lock, the advisory lock
\* behind the wallet row, the wallet row behind the unique keys.
LEMMA WaitsForwards ==
    ASSUME TypeInv, NEW s \in Sessions, NEW t \in Sessions, WaitsFor(s, t)
    PROVE  /\ pc[s] \in {"inbox", "identity", "wallet", "write"}
           /\ pc[s] = "inbox" => pc[t] # "inbox"
           /\ pc[s] = "identity" => pc[t] \notin {"inbox", "identity"}
           /\ pc[s] = "wallet" => pc[t] \in {"relookup", "decide", "write", "commit"}
           /\ pc[s] = "write" => pc[t] = "commit"
  BY DEF WaitsFor, WaitsForInbox, WaitsForIdentity, WaitsForWallet, WaitsForWriter,
     HoldsInbox, HoldsIdentity, HoldsWallet, TypeInv, SessionShape, Shape

\* In every instance no set of sessions waits only for each other, whatever
\* they have locked: among them the one that is furthest waits for nobody.
THEOREM LocksAreOrdered == Spec => []NoLockCycle
  <1>1. TypeInv => NoLockCycle
    <2> SUFFICES ASSUME TypeInv, NEW D \in SUBSET Sessions, D # {}
                 PROVE  \E s \in D : \A t \in D : ~WaitsFor(s, t)
      BY DEF NoLockCycle
    <2> DEFINE At(label) == \E s \in D : pc[s] = label
    <2>1. CASE \E s \in D : pc[s] \notin {"inbox", "identity", "wallet", "write"}
      BY <2>1, WaitsForwards
    <2>2. CASE \A s \in D : pc[s] \in {"inbox", "identity", "wallet", "write"}
      <3>1. CASE At("write")
        BY <2>2, <3>1, WaitsForwards
      <3>2. CASE ~At("write") /\ At("wallet")
        BY <2>2, <3>2, WaitsForwards
      <3>3. CASE ~At("write") /\ ~At("wallet") /\ At("identity")
        BY <2>2, <3>3, WaitsForwards
      <3>4. CASE ~At("write") /\ ~At("wallet") /\ ~At("identity")
        BY <2>2, <3>4, WaitsForwards
      <3> QED
        BY <3>1, <3>2, <3>3, <3>4
    <2> QED
      BY <2>1, <2>2
  <1> QED
    BY <1>1, InitType, NextType, PTL DEF Spec

-----------------------------------------------------------------------------
Accepted(c) == ValidTransaction(c.type, c.amount)

(* Ids are drawn in order; a row exists only under a drawn id.             *)
IDsFresh ==
    /\ \A i \in TxIDs : i > issued => txns[i] = None
    /\ \A s \in Sessions : pc[s] # "idle" => uid[s] <= issued

(* A request's row is its own and not yet committed.                       *)
OwnRow ==
    \A s \in Sessions \ WorkerSessions :
        pc[s] # "idle" =>
            /\ txns[uid[s]] = None
            /\ \A t \in Sessions : t # s /\ pc[t] # "idle" => uid[t] # uid[s]

(* A worker's command is the one of the committed row it claimed.          *)
ClaimedRow ==
    \A s \in WorkerSessions :
        pc[s] # "idle" => /\ txns[uid[s]] # None
                          /\ txns[uid[s]].cmd = req[s]
                          /\ Accepted(req[s])

PendingAccepted ==
    \A i \in Persisted : txns[i].state = "PENDING_REFERENCE" => Accepted(txns[i].cmd)

(* What is decided and written passed wager.New, and LOSS moves nothing.   *)
DecidedAccepted ==
    \A s \in Sessions :
        /\ pc[s] = "write" \/ staged[s] # None => Accepted(req[s])
        /\ verdict[s] \in Directions => req[s].type # "LOSS"

(* The staged writes are those of the command on the locked wallet row.    *)
StagedFromSnapshot ==
    \A s \in Sessions :
        staged[s] # None =>
            /\ staged[s].row.cmd = req[s]
            /\ staged[s].wallet = WalletOf(req[s], verdict[s], snap[s])
            /\ staged[s].entry = EntryOf(uid[s], req[s], verdict[s], snap[s])
            /\ Moves(req[s], verdict[s], snap[s]) => snap[s] \in WalletRows

RowInv ==
    /\ IDsFresh /\ OwnRow /\ ClaimedRow
    /\ PendingAccepted /\ DecidedAccepted /\ StagedFromSnapshot

(* Session t goes on with its own command, or ends.                        *)
GoesOn(t) ==
    /\ pc'[t] # "idle" => pc[t] # "idle" /\ req'[t] = req[t] /\ uid'[t] = uid[t]
    /\ staged'[t] # None =>
          /\ staged'[t] = staged[t] /\ snap'[t] = snap[t] /\ verdict'[t] = verdict[t]
          /\ req'[t] = req[t] /\ uid'[t] = uid[t]
    /\ pc'[t] = "write" => Accepted(req'[t])
    /\ verdict'[t] \in Directions => req'[t].type # "LOSS"

\* A step in which every session goes on or ends and no row is written.
LEMMA KeepsRows ==
    ASSUME TypeInv, RowInv, txns' = txns, issued' = issued,
           \A t \in Sessions : GoesOn(t)
    PROVE  RowInv'
  <1>1. IDsFresh'
    BY DEF RowInv, IDsFresh, GoesOn
  <1>2. OwnRow'
    BY DEF RowInv, OwnRow, GoesOn
  <1>3. ClaimedRow'
    BY DEF RowInv, ClaimedRow, GoesOn, Sessions
  <1>4. PendingAccepted'
    BY DEF RowInv, PendingAccepted, Persisted
  <1>5. DecidedAccepted'
    BY DEF RowInv, DecidedAccepted, GoesOn
  <1>6. StagedFromSnapshot'
    BY DEF RowInv, StagedFromSnapshot, GoesOn
  <1> QED
    BY <1>1, <1>2, <1>3, <1>4, <1>5, <1>6 DEF RowInv

\* A session that does nothing goes on.
LEMMA IdleGoesOn ==
    ASSUME RowInv, NEW t \in Sessions, pc'[t] = pc[t], req'[t] = req[t],
           uid'[t] = uid[t], snap'[t] = snap[t], verdict'[t] = verdict[t],
           staged'[t] = staged[t]
    PROVE  GoesOn(t)
  BY DEF GoesOn, RowInv, DecidedAccepted

\* EndTx.
LEMMA EndTxGoesOn ==
    ASSUME TypeInv, RowInv, NEW s \in Sessions, EndTx(s)
    PROVE  \A t \in Sessions : GoesOn(t)
  <1>1. GoesOn(s)
    BY DEF EndTx, Goto, GoesOn, TypeInv, TypeOK, LocalType, Directions
  <1>2. ASSUME NEW t \in Sessions, t # s PROVE GoesOn(t)
    BY <1>2, IdleGoesOn DEF EndTx, Goto, TypeInv, TypeOK, LocalType
  <1> QED
    BY <1>1, <1>2

\* A statement that only moves the program counter, and not to the writes.
LEMMA GotoGoesOn ==
    ASSUME TypeInv, RowInv, NEW s \in Sessions, NEW label, Goto(s, label),
           UNCHANGED local, pc[s] # "idle", label # "write"
    PROVE  \A t \in Sessions : GoesOn(t)
  <1>1. GoesOn(s)
    BY DEF Goto, local, GoesOn, TypeInv, TypeOK, LocalType, RowInv, DecidedAccepted
  <1>2. ASSUME NEW t \in Sessions, t # s PROVE GoesOn(t)
    BY <1>2, IdleGoesOn DEF Goto, local, TypeInv, TypeOK, LocalType
  <1> QED
    BY <1>1, <1>2

\* The statements that roll back or only continue.
LEMMA PlainStepRows ==
    ASSUME TypeInv, RowInv, NEW s \in Sessions,
           \/ InsertInbox(s) \/ LockReferenceIdentity(s) \/ Lookup(s) \/ Relookup(s)
           \/ ConflictAtWrite(s) \/ WriteFails(s) \/ Resolve(s) \/ Abort(s)
    PROVE  RowInv'
  <1>1. txns' = txns /\ issued' = issued
    BY DEF InsertInbox, LockReferenceIdentity, Lookup, Relookup, ConflictAtWrite,
       WriteFails, Resolve, Abort, AnswerExisting, tables, counters
  <1>2. CASE EndTx(s)
    BY <1>1, <1>2, EndTxGoesOn, KeepsRows
  <1>3. CASE ~EndTx(s)
    <2>1. PICK label \in {"identity", "reference", "lookup", "wallet", "decide", "commit"} :
            Goto(s, label) /\ UNCHANGED local /\ pc[s] # "idle"
      BY <1>3 DEF InsertInbox, LockReferenceIdentity, Lookup, Relookup, ConflictAtWrite,
         WriteFails, Resolve, Abort, AnswerExisting
    <2> QED
      BY <1>1, <2>1, GotoGoesOn, KeepsRows
  <1> QED
    BY <1>2, <1>3

\* FindForUpdate: a worker goes on to its writes.
LEMMA LockWalletRows ==
    ASSUME TypeInv, RowInv, NEW s \in Sessions, LockWallet(s)
    PROVE  RowInv'
  <1>1. txns' = txns /\ issued' = issued
    BY DEF LockWallet, tables, counters
  <1>2. CASE EndTx(s)
    BY <1>1, <1>2, EndTxGoesOn, KeepsRows
  <1>3. CASE ~EndTx(s)
    <2>1. /\ Goto(s, IF s \in WorkerSessions THEN "write" ELSE "relookup")
          /\ snap' = [snap EXCEPT ![s] = wallets[req[s].wallet]]
          /\ UNCHANGED <<req, uid, msg, verdict, staged>>
          /\ pc[s] = "wallet"
      BY <1>3 DEF LockWallet
    <2>2. staged[s] = None
      BY <2>1 DEF TypeInv, SessionShape, Shape
    <2>3. s \in WorkerSessions => Accepted(req[s])
      BY <2>1 DEF RowInv, ClaimedRow
    <2>4. GoesOn(s)
      BY <2>1, <2>2, <2>3
      DEF Goto, GoesOn, TypeInv, TypeOK, LocalType, RowInv, DecidedAccepted
    <2>5. ASSUME NEW t \in Sessions, t # s PROVE GoesOn(t)
      BY <2>1, <2>5, IdleGoesOn DEF Goto, TypeInv, TypeOK, LocalType
    <2> QED
      BY <1>1, <2>4, <2>5, KeepsRows
  <1> QED
    BY <1>2, <1>3

\* No decision moves money for a LOSS.
LEMMA LossDoesNotMove ==
    ASSUME NEW type, NEW refType, DirectionOf(type, refType) \in Directions
    PROVE  type # "LOSS"
  BY DEF DirectionOf, Directions

\* The rest of processInTx decides on a command that passed wager.New.
LEMMA DecideRows ==
    ASSUME TypeInv, RowInv, NEW s \in Sessions, Decide(s)
    PROVE  RowInv'
  <1>1. txns' = txns /\ issued' = issued
    BY DEF Decide, tables, counters
  <1>2. CASE EndTx(s)
    BY <1>1, <1>2, EndTxGoesOn, KeepsRows
  <1>3. CASE ~EndTx(s)
    <2>1. /\ Accepted(req[s])
          /\ verdict' = [verdict EXCEPT ![s] = Decision(req[s], snap[s])]
          /\ Goto(s, "write")
          /\ UNCHANGED <<req, uid, msg, snap, staged>>
          /\ pc[s] = "decide"
      BY <1>3 DEF Decide, Accepted
    <2>2. staged[s] = None
      BY <2>1 DEF TypeInv, SessionShape, Shape
    <2>3. Decision(req[s], snap[s]) \in Directions => req[s].type # "LOSS"
      <3> SUFFICES ASSUME req[s].type = "LOSS"
                   PROVE  Decision(req[s], snap[s]) \in {"PLAYER_WALLET_MISMATCH", "NONE"}
        BY DEF Directions
      <3> QED
        BY DEF Decision, DirectionOf, Reversals
    <2>4. GoesOn(s)
      BY <2>1, <2>2, <2>3 DEF Goto, GoesOn, TypeInv, TypeOK, LocalType
    <2>5. ASSUME NEW t \in Sessions, t # s PROVE GoesOn(t)
      BY <2>1, <2>5, IdleGoesOn DEF Goto, TypeInv, TypeOK, LocalType
    <2> QED
      BY <1>1, <2>4, <2>5, KeepsRows
  <1> QED
    BY <1>2, <1>3

\* A worker decides on the command of the row it claimed.
LEMMA ReadReferenceRows ==
    ASSUME TypeInv, RowInv, NEW s \in Sessions, ReadReference(s)
    PROVE  RowInv'
  <1>1. txns' = txns /\ issued' = issued
    BY DEF ReadReference, tables, counters
  <1>2. s \in WorkerSessions /\ staged[s] = None /\ pc[s] = "reference"
    BY DEF ReadReference, TypeInv, SessionShape, Shape
  <1>3. txns[uid[s]].cmd = req[s] /\ Accepted(req[s])
    BY <1>2 DEF RowInv, ClaimedRow
  <1>4. PendingDecision(uid[s]) \in Directions => req[s].type # "LOSS"
    BY <1>3, LossDoesNotMove DEF PendingDecision, Advance, Directions
  <1>5. GoesOn(s)
    BY <1>2, <1>3, <1>4 DEF ReadReference, Goto, GoesOn, TypeInv, TypeOK, LocalType
  <1>6. ASSUME NEW t \in Sessions, t # s PROVE GoesOn(t)
    BY <1>6, IdleGoesOn DEF ReadReference, Goto, TypeInv, TypeOK, LocalType
  <1> QED
    BY <1>1, <1>5, <1>6, KeepsRows

\* A lost race leaves the transaction's row id to the second transaction.
LEMMA IdentityRaceRows ==
    ASSUME TypeInv, RowInv, NEW s \in Sessions, IdentityRace(s)
    PROVE  RowInv'
  <1>1. txns' = txns /\ issued' = issued
    BY DEF IdentityRace, tables, counters
  <1>2. staged[s] = None
    BY DEF IdentityRace, TypeInv, SessionShape, Shape
  <1>3. GoesOn(s)
    BY <1>2 DEF IdentityRace, Goto, GoesOn, TypeInv, TypeOK, LocalType, Directions
  <1>4. ASSUME NEW t \in Sessions, t # s PROVE GoesOn(t)
    BY <1>4, IdleGoesOn DEF IdentityRace, Goto, TypeInv, TypeOK, LocalType
  <1> QED
    BY <1>1, <1>3, <1>4, KeepsRows

\* The inserts and updates are staged from the locked row.
LEMMA WriteRows ==
    ASSUME TypeInv, RowInv, NEW s \in Sessions, Write(s)
    PROVE  RowInv'
  <1>1. /\ txns' = txns /\ issued' = issued
        /\ UNCHANGED <<req, uid, snap, verdict>>
        /\ pc[s] = "write" /\ pc' = [pc EXCEPT ![s] = "commit"]
        /\ staged' = [staged EXCEPT ![s] = WritesOf(s)]
    BY DEF Write, Goto, tables
  <1>2. /\ pc'[s] = "commit" /\ staged'[s] = WritesOf(s)
        /\ \A t \in Sessions : t # s => pc'[t] = pc[t] /\ staged'[t] = staged[t]
    BY <1>1 DEF TypeInv, TypeOK, LocalType
  <1>3. WritesOf(s).row.cmd = req[s]
    <2>1. WritesOf(s).row = RowOf(s)
      BY DEF WritesOf
    <2>2. CASE verdict[s] = "RETRY"
      <3>1. s \in WorkerSessions
        BY <1>1, <2>2 DEF TypeInv, SessionShape, Shape
      <3>2. txns[uid[s]].cmd = req[s] /\ txns[uid[s]] \in TxRows
        BY <1>1, <3>1 DEF RowInv, ClaimedRow, TypeInv, SessionShape, Shape
      <3>3. RowOf(s) = [txns[uid[s]] EXCEPT !.attempts = AttemptsAfter(s), !.due = FALSE]
        BY <2>2 DEF RowOf
      <3> QED
        BY <2>1, <3>2, <3>3 DEF TxRows
    <2>3. CASE verdict[s] # "RETRY"
      BY <2>1, <2>3 DEF RowOf
    <2> QED
      BY <2>2, <2>3
  <1>4. /\ WritesOf(s).wallet = WalletOf(req[s], verdict[s], snap[s])
        /\ WritesOf(s).entry = EntryOf(uid[s], req[s], verdict[s], snap[s])
        /\ Moves(req[s], verdict[s], snap[s]) => snap[s] \in WalletRows
    BY <1>1 DEF WritesOf, Moves, Directions, TypeInv, SessionShape, Shape
  <1>5. IDsFresh'
    BY <1>1, <1>2 DEF RowInv, IDsFresh
  <1>6. OwnRow'
    BY <1>1, <1>2 DEF RowInv, OwnRow
  <1>7. ClaimedRow'
    BY <1>1, <1>2 DEF RowInv, ClaimedRow, Sessions
  <1>8. PendingAccepted'
    BY <1>1 DEF RowInv, PendingAccepted, Persisted
  <1>9. DecidedAccepted'
    BY <1>1, <1>2 DEF RowInv, DecidedAccepted
  <1>10. StagedFromSnapshot'
    BY <1>1, <1>2, <1>3, <1>4 DEF RowInv, StagedFromSnapshot
  <1> QED
    BY <1>5, <1>6, <1>7, <1>8, <1>9, <1>10 DEF RowInv

\* Commit writes a row nobody else has staged, or the claimed row with its
\* command unchanged.
LEMMA CommitRows ==
    ASSUME TypeInv, RowInv, NEW s \in Sessions, Commit(s)
    PROVE  /\ RowInv'
           /\ \A i \in Persisted : txns'[i] # None /\ txns'[i].cmd = txns[i].cmd
  <1>1. EndTx(s) /\ issued' = issued /\ \A t \in Sessions : GoesOn(t)
    BY EndTxGoesOn DEF Commit, counters
  <1>2. CASE staged[s] = None
    <2>1. txns' = txns
      BY <1>2 DEF Commit
    <2> QED
      BY <1>1, <2>1, KeepsRows DEF Persisted
  <1>3. CASE staged[s] # None
    <2>1. /\ pc[s] = "commit" /\ uid[s] \in TxIDs
          /\ txns' = [txns EXCEPT ![uid[s]] = staged[s].row]
          /\ staged[s].row \in TxRows /\ staged[s].row # None
          /\ staged[s].row.cmd = req[s]
      BY <1>3, NoneAssumption
      DEF Commit, TypeInv, TypeOK, LocalType, SessionShape, Shape, StagedWrites, RowInv,
          StagedFromSnapshot
    <2>2. /\ txns'[uid[s]] = staged[s].row
          /\ \A i \in TxIDs : i # uid[s] => txns'[i] = txns[i]
      BY <2>1 DEF TypeInv, TypeOK, TablesType
    <2>3. \A i \in Persisted : txns'[i] # None /\ txns'[i].cmd = txns[i].cmd
      BY <2>1, <2>2 DEF Persisted, RowInv, OwnRow, ClaimedRow
    <2>4. pc'[s] = "idle" /\ \A t \in Sessions : t # s => pc'[t] = pc[t]
      BY <1>1 DEF EndTx, Goto, TypeInv, TypeOK, LocalType
    <2>5. \A t \in Sessions : pc[t] # "idle" => uid[t] \in TxIDs
      BY DEF TypeInv, SessionShape, Shape
    <2>6. IDsFresh'
      BY <1>1, <2>1, <2>2 DEF RowInv, IDsFresh, GoesOn, TypeInv, TypeOK, CountersType,
         TxIDs
    <2>7. OwnRow'
      <3>1. ASSUME NEW t \in Sessions \ WorkerSessions, pc'[t] # "idle"
            PROVE  txns'[uid'[t]] = None
        <4>1. /\ t # s /\ pc[t] # "idle" /\ uid'[t] = uid[t] /\ uid[t] \in TxIDs
              /\ txns[uid[t]] = None
          BY <1>1, <2>4, <2>5, <3>1 DEF GoesOn, RowInv, OwnRow
        <4>2. uid[t] # uid[s]
          BY <2>1, <4>1 DEF RowInv, OwnRow
        <4> QED
          BY <2>2, <4>1, <4>2
      <3> QED
        BY <1>1, <3>1 DEF RowInv, OwnRow, GoesOn
    <2>8. ClaimedRow'
      BY <1>1, <2>3, <2>5 DEF RowInv, ClaimedRow, GoesOn, Persisted, Sessions
    <2>9. PendingAccepted'
      BY <1>3, <2>1, <2>2 DEF RowInv, PendingAccepted, Persisted, DecidedAccepted
    <2>10. DecidedAccepted'
      BY <1>1 DEF RowInv, DecidedAccepted, GoesOn
    <2>11. StagedFromSnapshot'
      BY <1>1 DEF RowInv, StagedFromSnapshot, GoesOn
    <2> QED
      BY <2>3, <2>6, <2>7, <2>8, <2>9, <2>10, <2>11 DEF RowInv
  <1> QED
    BY <1>2, <1>3

\* An attempt draws an id no row and no other session has.
LEMMA BeginRows ==
    ASSUME TypeInv, RowInv, NEW s \in Sessions \ WorkerSessions, NEW c, NEW m,
           NEW label \in {"identity", "inbox"}, Begin(s, c, m, label)
    PROVE  RowInv'
  <1>1. /\ pc[s] = "idle" /\ issued \in Nat /\ issued + 1 \in TxIDs
        /\ issued' = issued + 1
        /\ UNCHANGED <<txns, snap, verdict, staged>>
        /\ verdict[s] = "NONE" /\ staged[s] = None
    BY BoundsAssumption DEF Begin, tables, TypeInv, TypeOK, CountersType, TxIDs,
       SessionShape, Shape
  <1>2. /\ pc'[s] = label /\ uid'[s] = issued + 1
        /\ \A t \in Sessions : t # s => pc'[t] = pc[t] /\ req'[t] = req[t] /\ uid'[t] = uid[t]
    BY DEF Begin, Goto, TypeInv, TypeOK, LocalType
  <1>3. \A t \in Sessions : pc[t] # "idle" => uid[t] \in TxIDs /\ uid[t] <= issued
    BY DEF TypeInv, SessionShape, Shape, RowInv, IDsFresh
  <1>4. IDsFresh'
    BY <1>1, <1>2, <1>3 DEF RowInv, IDsFresh, TxIDs
  <1>5. OwnRow'
    BY <1>1, <1>2, <1>3 DEF RowInv, IDsFresh, OwnRow, TxIDs
  <1>6. ClaimedRow'
    BY <1>1, <1>2 DEF RowInv, ClaimedRow, Sessions
  <1>7. PendingAccepted'
    BY <1>1 DEF RowInv, PendingAccepted, Persisted
  <1>8. DecidedAccepted'
    BY <1>1, <1>2 DEF RowInv, DecidedAccepted, Directions
  <1>9. StagedFromSnapshot'
    BY <1>1, <1>2 DEF RowInv, StagedFromSnapshot
  <1> QED
    BY <1>4, <1>5, <1>6, <1>7, <1>8, <1>9 DEF RowInv

\* A worker claims a committed pending row.
LEMMA ClaimRows ==
    ASSUME TypeInv, RowInv, NEW s \in Sessions, NEW i \in TxIDs, ClaimPending(s, i)
    PROVE  RowInv'
  <1>1. /\ s \in WorkerSessions /\ pc[s] = "idle" /\ txns[i] # None
        /\ UNCHANGED <<txns, issued, snap, verdict, staged>>
        /\ verdict[s] = "NONE" /\ staged[s] = None
        /\ Accepted(txns[i].cmd)
    BY DEF ClaimPending, tables, counters, TypeInv, SessionShape, Shape, RowInv,
       PendingAccepted, Persisted
  <1>2. /\ pc'[s] = "identity" /\ uid'[s] = i /\ req'[s] = txns[i].cmd
        /\ \A t \in Sessions : t # s => pc'[t] = pc[t] /\ req'[t] = req[t] /\ uid'[t] = uid[t]
    BY DEF ClaimPending, CommandFromRecord, Goto, TypeInv, TypeOK, LocalType
  <1>3. i <= issued
    BY <1>1 DEF RowInv, IDsFresh, TypeInv, TypeOK, CountersType, TxIDs
  <1>4. IDsFresh'
    BY <1>1, <1>2, <1>3 DEF RowInv, IDsFresh
  <1>5. OwnRow'
    BY <1>1, <1>2 DEF RowInv, OwnRow
  <1>6. ClaimedRow'
    BY <1>1, <1>2 DEF RowInv, ClaimedRow, Sessions
  <1>7. PendingAccepted'
    BY <1>1 DEF RowInv, PendingAccepted, Persisted
  <1>8. DecidedAccepted'
    BY <1>1, <1>2 DEF RowInv, DecidedAccepted, Directions
  <1>9. StagedFromSnapshot'
    BY <1>1, <1>2 DEF RowInv, StagedFromSnapshot
  <1> QED
    BY <1>4, <1>5, <1>6, <1>7, <1>8, <1>9 DEF RowInv

\* Rows that appear under a new id, or change without their command, while the
\* sessions stand still.
LEMMA TableStepRows ==
    ASSUME TypeInv, RowInv, UNCHANGED <<pc, req, uid, snap, verdict, staged>>,
           issued' \in Nat, issued' >= issued,
           \A j \in TxIDs : j > issued' => txns'[j] = None,
           \A j \in TxIDs : txns[j] # None =>
              txns'[j] # None /\ txns'[j].cmd = txns[j].cmd
                             /\ txns'[j].state = txns[j].state,
           \A j \in TxIDs : txns[j] = None /\ txns'[j] # None =>
              j > issued /\ txns'[j].state # "PENDING_REFERENCE"
    PROVE  RowInv'
  <1>1. \A t \in Sessions : pc[t] # "idle" => uid[t] \in TxIDs /\ uid[t] <= issued
    BY DEF TypeInv, SessionShape, Shape, RowInv, IDsFresh
  <1>2. issued \in Nat
    BY DEF TypeInv, TypeOK, CountersType
  <1>3. IDsFresh'
    BY <1>1, <1>2 DEF IDsFresh, TxIDs
  <1>4. OwnRow'
    BY <1>1, <1>2 DEF RowInv, OwnRow, TxIDs
  <1>5. ClaimedRow'
    BY <1>1 DEF RowInv, ClaimedRow, Sessions
  <1>6. PendingAccepted'
    BY DEF RowInv, PendingAccepted, Persisted
  <1>7. DecidedAccepted' /\ StagedFromSnapshot'
    BY DEF RowInv, DecidedAccepted, StagedFromSnapshot
  <1> QED
    BY <1>3, <1>4, <1>5, <1>6, <1>7 DEF RowInv

\* OpenWallet books its opening credit under a new id.
LEMMA OpenWalletRows ==
    ASSUME TypeInv, RowInv, NEW o \in OpenRequests, OpenWallet(o)
    PROVE  /\ RowInv'
           /\ \A i \in Persisted : txns'[i] = txns[i]
  <1>1. UNCHANGED <<pc, req, uid, snap, verdict, staged>> /\ issued \in Nat
    BY DEF OpenWallet, local, TypeInv, TypeOK, CountersType
  <1>2. CASE o.amount = 0
    <2>1. UNCHANGED <<txns, issued>>
      BY <1>2 DEF OpenWallet
    <2> QED
      BY <1>1, <2>1, TableStepRows DEF RowInv, IDsFresh, Persisted
  <1>3. CASE o.amount # 0
    <2> DEFINE i == issued + 1
    <2>1. i \in TxIDs /\ issued' = i
      BY <1>1, <1>3, BoundsAssumption DEF OpenWallet, TxIDs
    <2>2. /\ txns'[i].state = "PROCESSED"
          /\ \A j \in TxIDs : j # i => txns'[j] = txns[j]
      BY <1>3, <2>1 DEF OpenWallet, TypeInv, TypeOK, TablesType
    <2>3. \A j \in TxIDs : j > issued => txns[j] = None
      BY DEF RowInv, IDsFresh
    <2> HIDE DEF i
    <2>4. i > issued
      BY <1>1 DEF i
    <2> QED
      BY <1>1, <2>1, <2>2, <2>3, <2>4, TableStepRows DEF Persisted, TxIDs
  <1> QED
    BY <1>2, <1>3

\* A pending reference becomes due and keeps its command and state.
LEMMA BackoffRows ==
    ASSUME TypeInv, RowInv, NEW i \in TxIDs, BackoffElapses(i)
    PROVE  /\ RowInv'
           /\ \A j \in Persisted : txns'[j] # None /\ txns'[j].cmd = txns[j].cmd
  <1>1. /\ UNCHANGED <<pc, req, uid, snap, verdict, staged, issued>>
        /\ txns' = [txns EXCEPT ![i] = [txns[i] EXCEPT !.due = TRUE]]
        /\ txns[i] \in TxRows /\ txns[i] # None
    BY DEF BackoffElapses, local, counters, Persisted, TypeInv, TypeOK, TablesType
  <1>2. /\ [txns[i] EXCEPT !.due = TRUE] \in TxRows
        /\ [txns[i] EXCEPT !.due = TRUE].cmd = txns[i].cmd
        /\ [txns[i] EXCEPT !.due = TRUE].state = txns[i].state
    BY <1>1 DEF TxRows
  <1>3. /\ txns'[i] \in TxRows /\ txns'[i].cmd = txns[i].cmd
        /\ txns'[i].state = txns[i].state
        /\ \A j \in TxIDs : j # i => txns'[j] = txns[j]
    BY <1>1, <1>2 DEF TypeInv, TypeOK, TablesType
  <1>4. issued \in Nat /\ txns'[i] # None
    BY <1>3, NoneAssumption DEF TypeInv, TypeOK, CountersType
  <1>5. \A j \in TxIDs : j > issued => txns[j] = None
    BY DEF RowInv, IDsFresh
  <1> QED
    BY <1>1, <1>3, <1>4, <1>5, TableStepRows DEF Persisted

-----------------------------------------------------------------------------
(* The ledger chain.                                                       *)

Chain(l) ==
    \A k \in 1 .. Len(l) : ValidEntry(l[k]) /\ l[k].before = BalanceBefore(l, k)

(* What WalletMatchesLedger says of wallet w.                              *)
Matches(w) ==
    IF wallets[w] = None THEN ledger[w] = <<>>
    ELSE /\ Chain(ledger[w])
         /\ wallets[w].balance = BalanceBefore(ledger[w], Len(ledger[w]) + 1)
         /\ wallets[w].version = Len(ledger[w]) + VersionOffset(w)

(* Every booked entry belongs to a committed row.                          *)
EntriesPersisted ==
    \A w \in Wallets : \A k \in 1 .. Len(ledger[w]) : txns[ledger[w][k].tx] # None

ChainInv == WalletMatchesLedger /\ EntriesPersisted

\* The invariant, wallet by wallet.
LEMMA MatchesEach == WalletMatchesLedger <=> \A w \in Wallets : Matches(w)
  BY DEF WalletMatchesLedger, Matches, Chain

\* An entry that starts where the ledger ends extends the chain.
LEMMA AppendChain ==
    ASSUME NEW l \in Seq(Entries), NEW e \in Entries, Chain(l), ValidEntry(e),
           e.before = BalanceBefore(l, Len(l) + 1)
    PROVE  /\ Chain(Append(l, e))
           /\ Len(Append(l, e)) = Len(l) + 1
           /\ BalanceBefore(Append(l, e), Len(Append(l, e)) + 1) = e.after
           /\ l # <<>> => Append(l, e)[1] = l[1]
           /\ l = <<>> => Append(l, e)[1] = e
  <1> DEFINE m == Append(l, e)
  <1>1. /\ m \in Seq(Entries) /\ Len(l) \in Nat /\ Len(m) = Len(l) + 1
        /\ m[Len(l) + 1] = e
        /\ \A k \in 1 .. Len(l) : m[k] = l[k]
    OBVIOUS
  <1>2. l # <<>> => 1 \in 1 .. Len(l)
    OBVIOUS
  <1>3. l = <<>> => Len(l) = 0
    OBVIOUS
  <1> HIDE DEF m
  <1>4. \A k \in 1 .. Len(l) + 1 : BalanceBefore(m, k) = BalanceBefore(l, k)
    BY <1>1 DEF BalanceBefore
  <1>5. Chain(m)
    BY <1>1, <1>4 DEF Chain
  <1>6. BalanceBefore(m, Len(m) + 1) = e.after
    BY <1>1 DEF BalanceBefore
  <1>7. (l # <<>> => m[1] = l[1]) /\ (l = <<>> => m[1] = e)
    BY <1>1, <1>2, <1>3
  <1> QED
    BY <1>1, <1>5, <1>6, <1>7 DEF m

\* Only the command of a ledger's first row decides the version offset.
LEMMA OffsetKept ==
    ASSUME TypeInv, ChainInv, NEW w \in Wallets, ledger'[w] = ledger[w],
           \A i \in Persisted : txns'[i] # None /\ txns'[i].cmd = txns[i].cmd
    PROVE  /\ VersionOffset(w)' = VersionOffset(w)
           /\ \A k \in 1 .. Len(ledger'[w]) : txns'[ledger'[w][k].tx] # None
  <1>1. ledger[w] \in Seq(Entries)
    BY DEF TypeInv, TypeOK, TablesType
  <1>2. \A k \in 1 .. Len(ledger[w]) : ledger[w][k].tx \in Persisted
    <2> SUFFICES ASSUME NEW k \in 1 .. Len(ledger[w])
                 PROVE  ledger[w][k].tx \in Persisted
      OBVIOUS
    <2>1. ledger[w][k] \in Entries
      BY <1>1
    <2>2. ledger[w][k].tx \in TxIDs
      BY <2>1 DEF Entries
    <2> QED
      BY <2>2 DEF ChainInv, EntriesPersisted, Persisted
  <1>3. ledger[w] # <<>> => 1 \in 1 .. Len(ledger[w])
    BY <1>1
  <1> QED
    BY <1>2, <1>3 DEF VersionOffset, OpenedEmpty

\* A step that touches neither wallets nor ledger, and no command.
LEMMA KeepsChain ==
    ASSUME TypeInv, ChainInv, UNCHANGED <<wallets, ledger>>,
           \A i \in Persisted : txns'[i] # None /\ txns'[i].cmd = txns[i].cmd
    PROVE  ChainInv'
  <1>1. \A w \in Wallets : Matches(w)
    BY MatchesEach DEF ChainInv
  <1>2. \A w \in Wallets : /\ VersionOffset(w)' = VersionOffset(w)
                           /\ \A k \in 1 .. Len(ledger'[w]) : txns'[ledger'[w][k].tx] # None
    BY OffsetKept
  <1>3. ASSUME NEW w \in Wallets PROVE Matches(w)'
    BY <1>1, <1>2 DEF Matches, Chain
  <1>4. WalletMatchesLedger'
    BY <1>3 DEF WalletMatchesLedger, Matches, Chain
  <1> QED
    BY <1>2, <1>4 DEF ChainInv, EntriesPersisted

\* OpenWallet starts a chain.
LEMMA OpenWalletChain ==
    ASSUME TypeInv, RowInv, ChainInv, NEW o \in OpenRequests, OpenWallet(o)
    PROVE  ChainInv'
  <1> DEFINE w == o.wallet
             i == issued + 1
             e == [tx |-> i, dir |-> "CREDIT", value |-> o.amount,
                   before |-> 0, after |-> o.amount]
  <1>1. w \in Wallets /\ o.amount \in Money
    BY RequestsAssumption
  <1>2. wallets[w] = None /\ ledger[w] = <<>>
    BY <1>1 DEF OpenWallet, ChainInv, WalletMatchesLedger
  <1>3. /\ wallets'[w] # None /\ wallets'[w].balance = o.amount /\ wallets'[w].version = 1
        /\ \A u \in Wallets : u # w => wallets'[u] = wallets[u]
    <2> DEFINE row == [player |-> o.player, currency |-> o.currency,
                       balance |-> o.amount, version |-> 1]
    <2>1. row \in WalletRows
      BY RequestsAssumption DEF WalletRows
    <2>2. wallets' = [wallets EXCEPT ![w] = row]
      BY DEF OpenWallet
    <2> QED
      BY <1>1, <2>1, <2>2, NoneAssumption DEF TypeInv, TypeOK, TablesType
  <1>4. \A j \in Persisted : txns'[j] # None /\ txns'[j].cmd = txns[j].cmd
    BY OpenWalletRows DEF Persisted
  <1>5. \A u \in Wallets : u # w => ledger'[u] = ledger[u]
    BY <1>1 DEF OpenWallet, TypeInv, TypeOK, TablesType
  <1>6. ASSUME NEW u \in Wallets, u # w
        PROVE  /\ Matches(u)'
               /\ \A k \in 1 .. Len(ledger'[u]) : txns'[ledger'[u][k].tx] # None
    <2>1. /\ VersionOffset(u)' = VersionOffset(u)
          /\ \A k \in 1 .. Len(ledger'[u]) : txns'[ledger'[u][k].tx] # None
      BY <1>4, <1>5, <1>6, OffsetKept
    <2>2. Matches(u)
      BY MatchesEach DEF ChainInv
    <2> QED
      BY <1>3, <1>5, <1>6, <2>1, <2>2 DEF Matches, Chain
  <1>7. /\ Matches(w)'
        /\ \A k \in 1 .. Len(ledger'[w]) : txns'[ledger'[w][k].tx] # None
    <2>1. CASE o.amount = 0
      <3>1. ledger'[w] = <<>>
        BY <1>2, <2>1 DEF OpenWallet
      <3> QED
        BY <1>3, <2>1, <3>1 DEF Matches, Chain, BalanceBefore, VersionOffset, OpenedEmpty
    <2>2. CASE o.amount # 0
      <3>1. i \in TxIDs
        BY <2>2, BoundsAssumption DEF OpenWallet, TypeInv, TypeOK, CountersType, TxIDs
      <3>2. ledger'[w] = Append(ledger[w], e)
        BY <1>1, <2>2 DEF OpenWallet, TypeInv, TypeOK, TablesType
      <3>3. txns'[i] # None /\ txns'[i].cmd.type = "OPENING"
        <4>1. txns'[i].cmd.type = "OPENING"
          BY <2>2, <3>1 DEF OpenWallet, OpeningCommand, TypeInv, TypeOK, TablesType
        <4>2. txns'[i] \in TxRows
          <5>1. OpeningCommand(o) \in CommandSet
            BY RequestsAssumption, <1>1 DEF OpeningCommand, CommandSet, Types
          <5>2. txns'[i] = [cmd |-> OpeningCommand(o), state |-> "PROCESSED",
                            result |-> [tx |-> i, state |-> "PROCESSED",
                                        balance |-> o.amount, code |-> NoCode],
                            attempts |-> 0, due |-> FALSE]
            BY <2>2, <3>1 DEF OpenWallet, TypeInv, TypeOK, TablesType
          <5> QED
            BY <1>1, <3>1, <5>1, <5>2 DEF TxRows, ResultSet, States
        <4> QED
          BY <4>1, <4>2, NoneAssumption
      <3>4. e \in Entries /\ ValidEntry(e) /\ e.tx = i
        BY <1>1, <2>2, <3>1, MaxInt64Assumption
        DEF Entries, ValidEntry, Moved, Directions, Money
      <3> HIDE DEF e
      <3>5. Chain(<<>>) /\ BalanceBefore(<<>>, Len(<<>>) + 1) = 0 /\ <<>> \in Seq(Entries)
        BY DEF Chain, BalanceBefore
      <3>6. e.before = 0 /\ e.after = o.amount
        BY DEF e
      <3>7. /\ Chain(ledger'[w]) /\ Len(ledger'[w]) = 1
            /\ BalanceBefore(ledger'[w], Len(ledger'[w]) + 1) = o.amount
            /\ ledger'[w][1] = e /\ ledger'[w] # <<>>
        <4> DEFINE l == <<>>
        <4>1. l \in Seq(Entries) /\ Len(l) = 0 /\ l = <<>>
          OBVIOUS
        <4>2. Chain(l) /\ e.before = BalanceBefore(l, Len(l) + 1)
          BY <3>5, <3>6
        <4>3. ledger'[w] = Append(l, e)
          BY <1>2, <3>2
        <4> HIDE DEF l
        <4>4. /\ Chain(Append(l, e)) /\ Len(Append(l, e)) = Len(l) + 1
              /\ BalanceBefore(Append(l, e), Len(Append(l, e)) + 1) = e.after
              /\ Append(l, e)[1] = e
          BY <3>4, <4>1, <4>2, AppendChain
        <4>5. Append(l, e) # <<>>
          BY <4>1, <4>4
        <4> QED
          BY <3>6, <4>1, <4>3, <4>4, <4>5
      <3> HIDE DEF i, w
      <3>8. VersionOffset(w)' = 0
        BY <3>3, <3>4, <3>7 DEF VersionOffset, OpenedEmpty
      <3> QED
        BY <1>3, <3>3, <3>4, <3>7, <3>8 DEF Matches, Chain
    <2> QED
      BY <2>1, <2>2
  <1>8. WalletMatchesLedger'
    <2>1. ASSUME NEW u \in Wallets PROVE Matches(u)'
      BY <1>6, <1>7
    <2> QED
      BY <2>1 DEF WalletMatchesLedger, Matches, Chain
  <1> QED
    BY <1>6, <1>7, <1>8 DEF ChainInv, EntriesPersisted

\* Commit appends the entry computed from the wallet's current row.
LEMMA CommitChain ==
    ASSUME TypeInv, LockInv, RowInv, ChainInv, NEW s \in Sessions, Commit(s)
    PROVE  ChainInv'
  <1> SUFFICES ASSUME NEW w, w = req[s].wallet PROVE ChainInv'
    OBVIOUS
  <1>1. \A i \in Persisted : txns'[i] # None /\ txns'[i].cmd = txns[i].cmd
    BY CommitRows
  <1>2. CASE staged[s] = None \/ ~Moves(req[s], verdict[s], snap[s])
    <2>1. staged[s] # None => staged[s].wallet = None /\ staged[s].entry = None
      BY <1>2 DEF RowInv, StagedFromSnapshot, WalletOf, EntryOf
    <2>2. UNCHANGED <<wallets, ledger>>
      BY <2>1 DEF Commit
    <2> QED
      BY <1>1, <2>2, KeepsChain
  <1>3. CASE staged[s] # None /\ Moves(req[s], verdict[s], snap[s])
    <2> DEFINE r == snap[s]
               after == BalanceAfter(req[s], verdict[s], r)
               e == [tx |-> uid[s], dir |-> verdict[s], value |-> req[s].amount,
                     before |-> r.balance, after |-> after]
               row == [player |-> r.player, currency |-> r.currency,
                       balance |-> after, version |-> r.version + 1]
               l == ledger[w]
    <2>1. /\ w \in Wallets /\ uid[s] \in TxIDs /\ req[s] \in CommandSet
          /\ l \in Seq(Entries) /\ r \in WalletRows
          /\ staged[s].row \in TxRows /\ staged[s].row.cmd = req[s]
          /\ Accepted(req[s]) /\ verdict[s] \in Directions /\ req[s].type # "LOSS"
      BY <1>3
      DEF Commit, TypeInv, TypeOK, TablesType, LocalType, SessionShape, Shape, CommandSet,
          StagedWrites, RowInv, StagedFromSnapshot, DecidedAccepted, Moves
    <2>2. /\ r = wallets[w] /\ wallets[w] # None
          /\ Chain(l) /\ r.balance = BalanceBefore(l, Len(l) + 1)
          /\ r.version = Len(l) + VersionOffset(w)
      <3>1. r # None
        BY <2>1, NoneAssumption
      <3>2. r = wallets[w]
        BY <3>1 DEF LockInv, SnapshotCurrent
      <3>3. Matches(w)
        BY <2>1, MatchesEach DEF ChainInv
      <3> QED
        BY <3>1, <3>2, <3>3 DEF Matches
    <2>3. after \in Money /\ after = Moved(r.balance, verdict[s], req[s].amount)
      BY <1>3, <2>1, BalanceAfterType DEF BalanceAfter
    <2>4. staged[s].entry = e /\ staged[s].wallet = row
      BY <1>3 DEF RowInv, StagedFromSnapshot, EntryOf, WalletOf
    <2>5. row \in WalletRows /\ row.balance = after /\ row.version = r.version + 1
      BY <2>1, <2>3 DEF WalletRows
    <2>6. /\ e \in Entries /\ e.tx = uid[s]
          /\ e.before = r.balance /\ e.after = after
      BY <2>1, <2>3 DEF Entries, WalletRows, CommandSet
    <2>7. ValidEntry(e)
      <3>1. req[s].amount > 0
        BY <2>1 DEF Accepted, ValidTransaction, Money
      <3> QED
        BY <2>1, <2>3, <2>6, <3>1 DEF ValidEntry, Entries, WalletRows
    <2>8. /\ wallets' = [wallets EXCEPT ![w] = row]
          /\ ledger' = [ledger EXCEPT ![w] = Append(l, e)]
          /\ txns' = [txns EXCEPT ![uid[s]] = staged[s].row]
      BY <1>3, <2>4, <2>5, <2>6, NoneAssumption DEF Commit
    <2> HIDE DEF e, row, after
    <2>9. /\ wallets'[w] = row /\ ledger'[w] = Append(l, e)
          /\ txns'[uid[s]] = staged[s].row
          /\ \A u \in Wallets : u # w => wallets'[u] = wallets[u] /\ ledger'[u] = ledger[u]
      BY <2>1, <2>8 DEF TypeInv, TypeOK, TablesType
    <2>10. /\ Chain(ledger'[w]) /\ Len(ledger'[w]) = Len(l) + 1
           /\ BalanceBefore(ledger'[w], Len(ledger'[w]) + 1) = after
           /\ l # <<>> => ledger'[w][1] = l[1]
           /\ l = <<>> => ledger'[w][1] = e
      <3>1. e.before = BalanceBefore(l, Len(l) + 1)
        BY <2>2, <2>6
      <3> QED
        BY <2>1, <2>2, <2>6, <2>7, <2>9, <3>1, AppendChain
    <2>11. txns'[uid[s]] # None /\ txns'[uid[s]].cmd.type # "OPENING"
      BY <2>1, <2>9, NoneAssumption DEF Accepted, ValidTransaction, ExternalTypes
    <2>12. \A k \in 1 .. Len(l) : l[k].tx \in Persisted
      <3> SUFFICES ASSUME NEW k \in 1 .. Len(l) PROVE l[k].tx \in Persisted
        OBVIOUS
      <3>1. l[k] \in Entries
        BY <2>1
      <3> QED
        BY <2>1, <3>1 DEF Entries, Persisted, ChainInv, EntriesPersisted
    <2>13. \A k \in 1 .. Len(ledger'[w]) : txns'[ledger'[w][k].tx] # None
      <3> SUFFICES ASSUME NEW k \in 1 .. Len(l) + 1 PROVE txns'[Append(l, e)[k].tx] # None
        BY <2>9, <2>10
      <3>1. CASE k \in 1 .. Len(l)
        BY <1>1, <2>1, <2>12, <3>1
      <3>2. CASE k = Len(l) + 1
        BY <2>1, <2>6, <2>11, <3>2
      <3> QED
        BY <2>1, <3>1, <3>2
    <2>14. VersionOffset(w)' = VersionOffset(w)
      <3>1. ledger'[w] # <<>>
        BY <2>1, <2>10
      <3>2. CASE l = <<>>
        BY <2>6, <2>10, <2>11, <3>1, <3>2 DEF VersionOffset, OpenedEmpty
      <3>3. CASE l # <<>>
        <4>1. l[1].tx \in Persisted
          BY <2>1, <2>12, <3>3
        <4> QED
          BY <1>1, <2>10, <3>1, <3>3, <4>1 DEF VersionOffset, OpenedEmpty
      <3> QED
        BY <3>2, <3>3
    <2>15. Matches(w)'
      <3>1. wallets'[w] # None /\ VersionOffset(w) \in Nat /\ Len(l) \in Nat
        BY <2>1, <2>5, <2>9, NoneAssumption DEF VersionOffset
      <3>2. wallets'[w].version = Len(ledger'[w]) + VersionOffset(w)'
        BY <2>2, <2>5, <2>9, <2>10, <2>14, <3>1
      <3> QED
        BY <2>5, <2>9, <2>10, <3>1, <3>2 DEF Matches, Chain
    <2>16. ASSUME NEW u \in Wallets, u # w
           PROVE  /\ Matches(u)'
                  /\ \A k \in 1 .. Len(ledger'[u]) : txns'[ledger'[u][k].tx] # None
      <3>1. /\ VersionOffset(u)' = VersionOffset(u)
            /\ \A k \in 1 .. Len(ledger'[u]) : txns'[ledger'[u][k].tx] # None
        BY <1>1, <2>9, <2>16, OffsetKept
      <3>2. Matches(u)
        BY MatchesEach DEF ChainInv
      <3> QED
        BY <2>9, <2>16, <3>1, <3>2 DEF Matches, Chain
    <2>17. WalletMatchesLedger'
      <3>1. ASSUME NEW u \in Wallets PROVE Matches(u)'
        BY <2>15, <2>16
      <3> QED
        BY <3>1 DEF WalletMatchesLedger, Matches, Chain
    <2> QED
      BY <2>13, <2>16, <2>17 DEF ChainInv, EntriesPersisted
  <1> QED
    BY <1>2, <1>3

\* Every other step of a transaction leaves tables alone.
LEMMA ReadingStep ==
    ASSUME NEW s \in Sessions,
           \/ InsertInbox(s) \/ LockReferenceIdentity(s) \/ Lookup(s) \/ LockWallet(s)
           \/ Relookup(s) \/ Decide(s) \/ ReadReference(s) \/ Write(s) \/ IdentityRace(s)
           \/ ConflictAtWrite(s) \/ WriteFails(s) \/ Resolve(s) \/ Abort(s)
           \/ (\E c \in Commands : BeginProcess(s, c))
           \/ (\E m \in Messages : BeginMessage(s, m))
           \/ (\E i \in TxIDs : ClaimPending(s, i))
    PROVE  UNCHANGED <<wallets, ledger, txns>>
  BY DEF InsertInbox, LockReferenceIdentity, Lookup, LockWallet, Relookup, Decide,
     ReadReference, Write, IdentityRace, ConflictAtWrite, WriteFails, Resolve, Abort,
     AnswerExisting, BeginProcess, BeginMessage, Begin, ClaimPending, tables

\* The row invariant is inductive relative to the types.
LEMMA NextRows == TypeInv /\ RowInv /\ [Next]_vars => RowInv'
  <1> SUFFICES ASSUME TypeInv, RowInv, [Next]_vars PROVE RowInv'
    OBVIOUS
  <1>1. ASSUME NEW o \in OpenRequests, OpenWallet(o) PROVE RowInv'
    BY <1>1, OpenWalletRows
  <1>2. ASSUME NEW s \in Sessions, NEW c \in Commands, BeginProcess(s, c) PROVE RowInv'
    BY <1>2, BeginRows, SessionsAssumption DEF BeginProcess
  <1>3. ASSUME NEW s \in Sessions, NEW m \in Messages, BeginMessage(s, m) PROVE RowInv'
    BY <1>3, BeginRows, SessionsAssumption DEF BeginMessage
  <1>4. ASSUME NEW s \in Sessions, NEW i \in TxIDs, ClaimPending(s, i) PROVE RowInv'
    BY <1>4, ClaimRows
  <1>5. ASSUME NEW s \in Sessions, Step(s) PROVE RowInv'
    BY <1>5, PlainStepRows, LockWalletRows, DecideRows, ReadReferenceRows,
       IdentityRaceRows, WriteRows, CommitRows DEF Step
  <1>6. ASSUME NEW s \in Sessions, Abort(s) PROVE RowInv'
    BY <1>6, PlainStepRows
  <1>7. ASSUME NEW i \in TxIDs, BackoffElapses(i) PROVE RowInv'
    BY <1>7, BackoffRows
  <1>8. CASE UNCHANGED vars
    <2>1. txns' = txns /\ issued' = issued
      BY <1>8 DEF vars, tables, counters
    <2>2. \A t \in Sessions : GoesOn(t)
      BY <1>8, IdleGoesOn DEF vars, local
    <2> QED
      BY <2>1, <2>2, KeepsRows
  <1> QED
    BY <1>1, <1>2, <1>3, <1>4, <1>5, <1>6, <1>7, <1>8 DEF Next

\* The chain is inductive relative to the lock and row invariants.
LEMMA NextChain ==
    TypeInv /\ LockInv /\ RowInv /\ ChainInv /\ [Next]_vars => ChainInv'
  <1> SUFFICES ASSUME TypeInv, LockInv, RowInv, ChainInv, [Next]_vars PROVE ChainInv'
    OBVIOUS
  <1>1. ASSUME UNCHANGED <<wallets, ledger, txns>> PROVE ChainInv'
    BY <1>1, KeepsChain DEF Persisted
  <1>2. ASSUME NEW o \in OpenRequests, OpenWallet(o) PROVE ChainInv'
    BY <1>2, OpenWalletChain
  <1>3. ASSUME NEW s \in Sessions, Commit(s) PROVE ChainInv'
    BY <1>3, CommitChain
  <1>4. ASSUME NEW i \in TxIDs, BackoffElapses(i) PROVE ChainInv'
    <2>1. UNCHANGED <<wallets, ledger>>
      BY <1>4 DEF BackoffElapses
    <2> QED
      BY <1>4, <2>1, BackoffRows, KeepsChain
  <1>5. CASE UNCHANGED vars
    BY <1>1, <1>5 DEF vars, tables
  <1> QED
    BY <1>1, <1>2, <1>3, <1>4, <1>5, ReadingStep DEF Next, Step

\* In every instance the wallet row and its ledger agree after every commit:
\* the entries form a chain of valid movements from zero to the balance, and
\* the version counts them, whatever requests, deliveries, workers and crashes
\* interleave.
THEOREM WalletAndLedgerAgree == Spec => []WalletMatchesLedger
  <1>1. Init => LockInv /\ RowInv /\ ChainInv
    <2> SUFFICES ASSUME Init PROVE LockInv /\ RowInv /\ ChainInv
      OBVIOUS
    <2>1. LockInv
      BY DEF Init, LockInv, SnapshotCurrent, OneLockHolder, WrittenUnderLock
    <2>2. RowInv
      BY DEF Init, RowInv, IDsFresh, OwnRow, ClaimedRow, PendingAccepted, DecidedAccepted,
         StagedFromSnapshot, Persisted, Sessions, Directions
    <2>3. ChainInv
      BY DEF Init, ChainInv, WalletMatchesLedger, EntriesPersisted
    <2> QED
      BY <2>1, <2>2, <2>3
  <1>2. ChainInv => WalletMatchesLedger
    BY DEF ChainInv
  <1> QED
    BY <1>1, <1>2, InitType, NextType, NextLocks, NextRows, NextChain, PTL DEF Spec
=============================================================================
