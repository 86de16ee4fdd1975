----------------------- MODULE FinancialServiceProofs -----------------------
(***************************************************************************)
(* Proofs about FinancialService, for every value of its constants.        *)
(***************************************************************************)
EXTENDS FinancialService, TLAPS

(* What the program counter of a session says about its local state.       *)
Shape(s) ==
    /\ pc[s] # "idle" => req[s] \in CommandSet /\ uid[s] \in TxIDs
    /\ pc[s] # "idle" /\ s \in ConsumerSessions => msg[s] \in MessageIDs
    /\ pc[s] = "inbox" => s \in ConsumerSessions
    /\ pc[s] = "resolve" => s \in HTTPSessions
    /\ pc[s] = "reference" => s \in WorkerSessions
    /\ pc[s] \in {"lookup", "relookup", "decide"} => s \notin WorkerSessions
    /\ s \in WorkerSessions /\ pc[s] # "idle" => txns[uid[s]] \in TxRows
    /\ pc[s] \in {"relookup", "decide"} => snap[s] \in WalletRows
    /\ pc[s] = "write" =>
          \/ snap[s] \in WalletRows /\ verdict[s] # "RETRY"
          \/ s \in WorkerSessions /\ verdict[s] = "RETRY" /\ snap[s] = None
    /\ pc[s] = "wallet" => verdict[s] # "RETRY"
    /\ pc[s] \in {"idle", "inbox", "identity", "lookup"} => verdict[s] = "NONE"
    /\ pc[s] = "commit" /\ s \notin ConsumerSessions => staged[s] \in StagedWrites
    /\ pc[s] \notin {"relookup", "decide", "write", "commit"} => snap[s] = None
    /\ pc[s] # "commit" => staged[s] = None

SessionShape == \A s \in Sessions : Shape(s)

TypeInv == TypeOK /\ SessionShape

-----------------------------------------------------------------------------
(* What a transaction writes is well typed.                                *)

\* The canonical payload drops the key and keeps every other field.
LEMMA PayloadHashType ==
    ASSUME NEW c \in CommandSet
    PROVE  PayloadHash(c) \in HashSet
  BY DEF PayloadHash, CommandSet, HashSet

\* Wallet.Debit and Wallet.Credit keep the balance inside int64.
LEMMA BalanceAfterType ==
    ASSUME NEW c \in CommandSet, NEW v, NEW w \in WalletRows
    PROVE  BalanceAfter(c, v, w) \in Money
  BY MaxInt64Assumption
  DEF BalanceAfter, Moves, Settles, Moved, CanDebit, CanCredit, CommandSet,
      WalletRows, Money, Directions

\* The result a transaction stores is a Result of the service.
LEMMA ResultType ==
    ASSUME NEW i \in TxIDs, NEW c \in CommandSet, NEW v \in Verdicts,
           NEW w \in WalletRows
    PROVE  ResultOf(i, c, v, w) \in ResultSet
  <1>1. StateAfter(c, v, w) \in States
    BY DEF StateAfter, States
  <1>2. FailureCode(c, v, w) \in FailureCodes \cup {NoCode}
    BY DEF FailureCode, FailureCodes
  <1> QED
    BY <1>1, <1>2, BalanceAfterType DEF ResultOf, ResultSet

\* The kinds of the events it inserts, in order.
LEMMA KindsType ==
    ASSUME NEW c, NEW v, NEW w
    PROVE  EventKindsOf(c, v, w) \in Seq(EventKinds)
  <1>1. /\ <<>> \in Seq(EventKinds)
        /\ <<"WagerTransactionPendingReference">> \in Seq(EventKinds)
        /\ <<"WagerTransactionProcessed", "WalletBalanceChanged">> \in Seq(EventKinds)
        /\ <<"WagerTransactionProcessed">> \in Seq(EventKinds)
        /\ <<"WagerTransactionRejected">> \in Seq(EventKinds)
    BY DEF EventKinds
  <1>2. CASE v = "RETRY"
    BY <1>1, <1>2 DEF EventKindsOf, Moves, Directions
  <1>3. CASE v = "PENDING_REFERENCE"
    BY <1>1, <1>3 DEF EventKindsOf, Moves, Directions
  <1>4. CASE Moves(c, v, w)
    BY <1>1, <1>4 DEF EventKindsOf, Moves, Directions
  <1>5. CASE v = "NONE"
    BY <1>1, <1>5 DEF EventKindsOf, Moves, Directions
  <1>6. CASE ~(v \in {"RETRY", "PENDING_REFERENCE", "NONE"}) /\ ~Moves(c, v, w)
    BY <1>1, <1>6 DEF EventKindsOf
  <1> QED
    BY <1>2, <1>3, <1>4, <1>5, <1>6

\* Outbox rows are well typed and the sequence only advances.
LEMMA EventsType ==
    ASSUME NEW first \in Nat, NEW kinds \in Seq(EventKinds), NEW w \in Wallets,
           NEW i \in TxIDs, NEW version \in Nat
    PROVE  EventsFrom(first, kinds, w, i, version) \subseteq Events
  <1> SUFFICES ASSUME NEW k \in DOMAIN kinds
               PROVE  [kind |-> kinds[k], wallet |-> w, tx |-> i,
                       ord |-> first + k, version |-> version] \in Events
    BY DEF EventsFrom
  <1>1. k \in Nat /\ kinds[k] \in EventKinds
    OBVIOUS
  <1> QED
    BY <1>1 DEF Events

\* Everything a session stages at its write step is well typed.
LEMMA WritesType ==
    ASSUME TypeInv, NEW s \in Sessions, pc[s] = "write"
    PROVE  /\ WritesOf(s) \in StagedWrites
           /\ Len(EventKindsOf(req[s], verdict[s], snap[s])) \in Nat
  <1> DEFINE c == req[s]
             v == verdict[s]
             w == snap[s]
             i == uid[s]
  <1>1. /\ c \in CommandSet /\ i \in TxIDs /\ v \in Verdicts /\ ordering \in Nat
        /\ s \in WorkerSessions => txns[i] \in TxRows
        /\ \/ w \in WalletRows /\ v # "RETRY"
           \/ s \in WorkerSessions /\ v = "RETRY"
    BY DEF TypeInv, SessionShape, Shape, TypeOK, LocalType, CountersType
  <1>2. AttemptsAfter(s) \in Nat
    BY <1>1 DEF AttemptsAfter, TxRows
  <1>3. c.wallet \in Wallets
    BY <1>1 DEF CommandSet
  <1>4. EventKindsOf(c, v, w) \in Seq(EventKinds)
    BY KindsType
  <1>5. CASE v = "RETRY"
    <2>1. RowOf(s) \in TxRows
      BY <1>1, <1>2, <1>5 DEF RowOf, TxRows
    <2>2. ~Moves(c, v, w)
      BY <1>5 DEF Moves, Directions
    <2>3. WalletOf(c, v, w) = None /\ EntryOf(i, c, v, w) = None
      BY <2>2 DEF WalletOf, EntryOf
    <2>4. EventVersion(c, v, w) \in Nat
      BY <1>5 DEF EventVersion
    <2>5. EventsFrom(ordering, EventKindsOf(c, v, w), c.wallet, i, EventVersion(c, v, w))
             \in SUBSET Events
      BY <1>1, <1>3, <1>4, <2>4, EventsType
    <2> QED
      BY <1>4, <2>1, <2>3, <2>5 DEF WritesOf, StagedWrites
  <1>6. CASE v # "RETRY"
    <2>0. w \in WalletRows
      BY <1>1, <1>6
    <2>1. StateAfter(c, v, w) \in States
      BY DEF StateAfter, States
    <2>2. ResultOf(i, c, v, w) \in ResultSet
      BY <1>1, <2>0, ResultType
    <2>3. RowOf(s) \in TxRows
      BY <1>1, <1>2, <1>6, <2>1, <2>2 DEF RowOf, TxRows
    <2>4. BalanceAfter(c, v, w) \in Money
      BY <1>1, <2>0, BalanceAfterType
    <2>5. WalletOf(c, v, w) \in WalletRows \cup {None}
      BY <2>0, <2>4 DEF WalletOf, WalletRows
    <2>6. EntryOf(i, c, v, w) \in Entries \cup {None}
      BY <1>1, <2>0, <2>4 DEF EntryOf, Entries, WalletRows, CommandSet, Moves
    <2>7. EventVersion(c, v, w) \in Nat
      BY <1>6, <2>0 DEF EventVersion, WalletRows
    <2>8. EventsFrom(ordering, EventKindsOf(c, v, w), c.wallet, i, EventVersion(c, v, w))
             \in SUBSET Events
      BY <1>1, <1>3, <1>4, <2>7, EventsType
    <2> QED
      BY <1>4, <2>3, <2>5, <2>6, <2>8 DEF WritesOf, StagedWrites
  <1> QED
    BY <1>5, <1>6

\* processInTx decides on a failure code, a direction, no movement or waiting,
\* never on a reschedule.
LEMMA DecisionType ==
    ASSUME NEW c \in CommandSet, NEW w \in WalletRows
    PROVE  Decision(c, w) \in Verdicts /\ Decision(c, w) # "RETRY"
  <1>1. ASSUME NEW t, NEW r
        PROVE  DirectionOf(t, r) \in {"NONE", "DEBIT", "CREDIT"}
    BY DEF DirectionOf
  <1> QED
    BY <1>1 DEF Decision, Verdicts, FailureCodes, Directions

\* A worker's decision on a pending row is a verdict.
LEMMA PendingDecisionType ==
    ASSUME NEW i
    PROVE  PendingDecision(i) \in Verdicts
  <1>1. ASSUME NEW t, NEW r
        PROVE  DirectionOf(t, r) \in {"NONE", "DEBIT", "CREDIT"}
    BY DEF DirectionOf
  <1> QED
    BY <1>1 DEF PendingDecision, Advance, Verdicts, FailureCodes, Directions

-----------------------------------------------------------------------------
(* The end of a transaction.                                               *)

\* Commit and rollback leave the session idle and well typed, as long as no
\* row disappears.
LEMMA EndTxType ==
    ASSUME TypeInv, NEW s \in Sessions, EndTx(s),
           \A i \in TxIDs : txns[i] \in TxRows => txns'[i] \in TxRows
    PROVE  LocalType' /\ SessionShape'
  <1>1. LocalType'
    BY DEF TypeInv, TypeOK, LocalType, EndTx, Goto, PCs, Verdicts
  <1>2. ASSUME NEW t \in Sessions PROVE Shape(t)'
    <2>1. CASE t = s
      BY <2>1 DEF TypeInv, TypeOK, LocalType, EndTx, Goto, Shape
    <2>2. CASE t # s
      BY <2>2 DEF TypeInv, TypeOK, LocalType, EndTx, Goto, SessionShape, Shape
    <2> QED
      BY <2>1, <2>2
  <1> QED
    BY <1>1, <1>2 DEF SessionShape

\* The invariant holds before any transaction.
LEMMA InitType == Init => TypeInv
  <1> SUFFICES ASSUME Init PROVE TypeInv
    OBVIOUS
  <1>1. TablesType
    BY DEF Init, TablesType
  <1>2. CountersType
    BY BoundsAssumption DEF Init, CountersType
  <1>3. LocalType
    BY DEF Init, LocalType, PCs, Verdicts
  <1>4. HistoryType
    BY DEF Init, HistoryType
  <1>5. SessionShape
    BY DEF Init, SessionShape, Shape
  <1> QED
    BY <1>1, <1>2, <1>3, <1>4, <1>5 DEF TypeInv, TypeOK

-----------------------------------------------------------------------------
(* One lemma per action.                                                   *)

\* OpenWallet inserts a wallet and, when it is funded, its opening credit.
LEMMA OpenWalletType ==
    ASSUME TypeInv, NEW o \in OpenRequests, OpenWallet(o)
    PROVE  TypeInv'
  <1> DEFINE i == issued + 1
  <1>1. /\ o \in [wallet : Wallets, player : Identifiers,
                  currency : Identifiers, amount : Money]
        /\ OpeningExternalID[o.wallet] \in Identifiers
        /\ "internal" \in Identifiers /\ "opening" \in Identifiers
    BY RequestsAssumption
  <1>2. wallets' \in [Wallets -> WalletRows \cup {None}]
    BY <1>1 DEF TypeInv, TypeOK, TablesType, OpenWallet, WalletRows
  <1>3. UNCHANGED <<inbox, failures, pc, local, history>>
    BY DEF OpenWallet
  <1>4. CASE o.amount = 0
    <2>1. UNCHANGED <<txns, ledger, outbox, ordering, issued>>
      BY <1>4 DEF OpenWallet
    <2> QED
      BY <1>2, <1>3, <2>1 DEF TypeInv, TypeOK, TablesType, CountersType, LocalType,
         HistoryType, SessionShape, Shape, local, history
  <1>5. CASE o.amount # 0
    <2>1. i \in TxIDs /\ issued' = i /\ ordering' = ordering + 2
      BY <1>5, BoundsAssumption DEF OpenWallet, TypeInv, TypeOK, CountersType, TxIDs
    <2>2. [tx |-> i, dir |-> "CREDIT", value |-> o.amount,
           before |-> 0, after |-> o.amount] \in Entries
      BY <1>1, <2>1, MaxInt64Assumption DEF Entries, Directions, Money
    <2>3. ledger' \in [Wallets -> Seq(Entries)]
      <3>1. PICK e \in Entries : ledger' = [ledger EXCEPT ![o.wallet] = Append(@, e)]
        BY <1>5, <2>2 DEF OpenWallet
      <3>2. Append(ledger[o.wallet], e) \in Seq(Entries)
        BY <1>1 DEF TypeInv, TypeOK, TablesType
      <3> QED
        BY <3>1, <3>2 DEF TypeInv, TypeOK, TablesType
    <2>4. EventsFrom(ordering, <<"WagerTransactionProcessed", "WalletBalanceChanged">>,
                     o.wallet, i, 1) \subseteq Events
      <3>1. <<"WagerTransactionProcessed", "WalletBalanceChanged">> \in Seq(EventKinds)
        BY DEF EventKinds
      <3>2. ordering \in Nat /\ 1 \in Nat /\ o.wallet \in Wallets
        BY <1>1 DEF TypeInv, TypeOK, CountersType
      <3> QED
        BY <2>1, <3>1, <3>2, EventsType
    <2>5. outbox' \subseteq Events
      BY <1>5, <2>4 DEF OpenWallet, TypeInv, TypeOK, TablesType
    <2>6. [tx |-> i, state |-> "PROCESSED", balance |-> o.amount, code |-> NoCode]
            \in ResultSet
      BY <1>1, <2>1 DEF ResultSet, States
    <2>7. OpeningCommand(o) \in CommandSet
      BY <1>1 DEF OpeningCommand, CommandSet, Types
    <2>8. PICK row \in TxRows : txns' = [txns EXCEPT ![i] = row]
      BY <1>5, <2>6, <2>7 DEF OpenWallet, TxRows, States
    <2>9. /\ txns' \in [TxIDs -> TxRows \cup {None}]
          /\ \A j \in TxIDs : txns[j] \in TxRows => txns'[j] \in TxRows
      BY <2>1, <2>8 DEF TypeInv, TypeOK, TablesType
    <2>10. TablesType'
      BY <1>2, <1>3, <2>3, <2>5, <2>9 DEF TypeInv, TypeOK, TablesType
    <2>11. CountersType'
      BY <1>3, <2>1 DEF TypeInv, TypeOK, CountersType, TxIDs
    <2>12. LocalType' /\ HistoryType'
      BY <1>3 DEF TypeInv, TypeOK, LocalType, HistoryType, local, history
    <2>13. SessionShape'
      BY <1>3, <2>9 DEF TypeInv, SessionShape, Shape, local
    <2> QED
      BY <2>10, <2>11, <2>12, <2>13 DEF TypeInv, TypeOK
  <1> QED
    BY <1>4, <1>5

\* A session starts with a request of its own kind.
LEMMA BeginType ==
    ASSUME TypeInv, NEW s \in Sessions, NEW c \in CommandSet,
           NEW m, NEW label, Begin(s, c, m, label),
           \/ s \in HTTPSessions /\ m = None /\ label = "identity"
           \/ s \in ConsumerSessions /\ m \in MessageIDs /\ label = "inbox"
    PROVE  TypeInv'
  <1>1. TablesType' /\ HistoryType'
    BY DEF TypeInv, TypeOK, TablesType, HistoryType, Begin, tables, history
  <1>2. issued + 1 \in TxIDs
    BY BoundsAssumption DEF Begin, TypeInv, TypeOK, CountersType, TxIDs
  <1>3. CountersType'
    BY <1>2 DEF Begin, TypeInv, TypeOK, CountersType, TxIDs
  <1>4. LocalType'
    BY <1>2 DEF Begin, Goto, TypeInv, TypeOK, LocalType, PCs
  <1>5. ASSUME NEW t \in Sessions PROVE Shape(t)'
    <2>1. CASE t = s
      BY <1>2, <2>1, SessionsAssumption
      DEF Begin, Goto, TypeInv, TypeOK, LocalType, SessionShape, Shape
    <2>2. CASE t # s
      BY <2>2 DEF Begin, Goto, TypeInv, TypeOK, LocalType, SessionShape, Shape, tables
    <2> QED
      BY <2>1, <2>2
  <1> QED
    BY <1>1, <1>3, <1>4, <1>5 DEF TypeInv, TypeOK, SessionShape

\* A worker starts with a committed row.
LEMMA ClaimType ==
    ASSUME TypeInv, NEW s \in Sessions, NEW i \in TxIDs, ClaimPending(s, i)
    PROVE  TypeInv'
  <1>1. TablesType' /\ HistoryType' /\ CountersType'
    BY DEF TypeInv, TypeOK, TablesType, HistoryType, CountersType, ClaimPending, CommandFromRecord,
       tables, history, counters
  <1>2. txns[i] \in TxRows /\ txns[i].cmd \in CommandSet
    BY DEF ClaimPending, CommandFromRecord, Persisted, TypeInv, TypeOK, TablesType, TxRows
  <1>3. LocalType'
    BY <1>2 DEF ClaimPending, CommandFromRecord, Goto, TypeInv, TypeOK, LocalType, PCs
  <1>4. ASSUME NEW t \in Sessions PROVE Shape(t)'
    <2>1. CASE t = s
      BY <1>2, <2>1, SessionsAssumption
      DEF ClaimPending, CommandFromRecord, Goto, TypeInv, TypeOK, LocalType, SessionShape, Shape, tables
    <2>2. CASE t # s
      BY <2>2 DEF ClaimPending, CommandFromRecord, Goto, TypeInv, TypeOK, LocalType, SessionShape, Shape,
         tables
    <2> QED
      BY <2>1, <2>2
  <1> QED
    BY <1>1, <1>3, <1>4 DEF TypeInv, TypeOK, SessionShape

\* A transaction that ends without an effect.
LEMMA RollbackType ==
    ASSUME TypeInv, NEW s \in Sessions, UNCHANGED <<tables, counters, history>>,
           EndTx(s)
    PROVE  TypeInv'
  <1>1. TablesType' /\ HistoryType' /\ CountersType'
    BY DEF TypeInv, TypeOK, TablesType, HistoryType, CountersType, tables, history,
       counters
  <1>2. LocalType' /\ SessionShape'
    BY EndTxType DEF tables
  <1> QED
    BY <1>1, <1>2 DEF TypeInv, TypeOK

\* Shape is a matter of one session: the others keep theirs.
LEMMA OtherShape ==
    ASSUME TypeInv, NEW s \in Sessions, NEW t \in Sessions, s # t,
           NEW label, Goto(s, label), txns' = txns,
           /\ req'[t] = req[t] /\ uid'[t] = uid[t] /\ msg'[t] = msg[t]
           /\ snap'[t] = snap[t] /\ verdict'[t] = verdict[t] /\ staged'[t] = staged[t]
    PROVE  Shape(t)'
  <1>1. pc'[t] = pc[t]
    BY DEF Goto, TypeInv, TypeOK, LocalType
  <1> QED
    BY <1>1 DEF TypeInv, SessionShape, Shape

\* A statement that only lets the transaction continue.
LEMMA ContinueType ==
    ASSUME TypeInv, NEW s \in Sessions, NEW label \in PCs,
           UNCHANGED <<tables, counters, history>>, UNCHANGED local,
           Goto(s, label), Shape(s)'
    PROVE  TypeInv'
  <1>1. TablesType' /\ HistoryType' /\ CountersType'
    BY DEF TypeInv, TypeOK, TablesType, HistoryType, CountersType, tables, history,
       counters
  <1>2. LocalType'
    BY DEF Goto, TypeInv, TypeOK, LocalType, local
  <1>3. ASSUME NEW t \in Sessions, t # s PROVE Shape(t)'
    BY <1>3, OtherShape DEF local, tables
  <1> QED
    BY <1>1, <1>2, <1>3 DEF TypeInv, TypeOK, SessionShape

\* InsertIfAbsent.
LEMMA InsertInboxType ==
    ASSUME TypeInv, NEW s \in Sessions, InsertInbox(s)
    PROVE  TypeInv'
  <1>1. CASE EndTx(s)
    BY <1>1, RollbackType DEF InsertInbox
  <1>2. CASE Goto(s, "identity") /\ UNCHANGED local
    <2>1. Shape(s)'
      BY <1>2, SessionsAssumption DEF InsertInbox, Goto, TypeInv, TypeOK, LocalType,
         SessionShape, Shape, local, tables
    <2> QED
      BY <1>2, <2>1, ContinueType DEF InsertInbox, PCs
  <1> QED
    BY <1>1, <1>2 DEF InsertInbox

\* The advisory lock.
LEMMA LockReferenceIdentityType ==
    ASSUME TypeInv, NEW s \in Sessions, LockReferenceIdentity(s)
    PROVE  TypeInv'
  <1> DEFINE label == IF s \in WorkerSessions THEN "reference" ELSE "lookup"
  <1>1. label \in PCs /\ Goto(s, label)
    BY DEF LockReferenceIdentity, PCs
  <1>2. Shape(s)'
    BY <1>1 DEF LockReferenceIdentity, Goto, TypeInv, TypeOK, LocalType,
       SessionShape, Shape, local, tables
  <1> QED
    BY <1>1, <1>2, ContinueType DEF LockReferenceIdentity

\* A found row is answered with its stored result or refused.
LEMMA AnswerExistingType ==
    ASSUME TypeInv, NEW s \in Sessions, AnswerExisting(s),
           pc[s] \in {"lookup", "relookup", "resolve"}
    PROVE  TypeInv'
  <1> DEFINE found == FindExisting(s)
             result == txns[CHOOSE i \in found : TRUE].result
  <1>1. req[s] \in CommandSet
    BY DEF TypeInv, SessionShape, Shape
  <1>2. ASSUME IsReplay(s) PROVE Reply(req[s], result) \in [cmd : CommandSet, result : ResultSet]
    <2>1. found \subseteq Persisted
      BY DEF FindExisting, FindByIdempotency, FindByExternal
    <2>2. (CHOOSE i \in found : TRUE) \in found
      BY <1>2 DEF IsReplay
    <2>3. result \in ResultSet
      BY <2>1, <2>2 DEF Persisted, TypeInv, TypeOK, TablesType, TxRows
    <2> QED
      BY <1>1, <2>3 DEF Reply
  <1>3. HistoryType'
    BY <1>1, <1>2 DEF AnswerExisting, TypeInv, TypeOK, HistoryType
  <1>4. TablesType' /\ CountersType' /\ txns' = txns
    BY DEF AnswerExisting, TypeInv, TypeOK, TablesType, CountersType, tables, counters
  <1>5. LocalType' /\ SessionShape'
    <2>1. CASE EndTx(s)
      BY <1>4, <2>1, EndTxType
    <2>2. CASE s \in ConsumerSessions /\ Goto(s, "commit") /\ UNCHANGED local
      <3>1. LocalType'
        BY <2>2 DEF Goto, TypeInv, TypeOK, LocalType, local, PCs
      <3>2. Shape(s)'
        BY <1>4, <2>2, SessionsAssumption
        DEF Goto, TypeInv, TypeOK, LocalType, SessionShape, Shape, local
      <3>3. ASSUME NEW t \in Sessions, t # s PROVE Shape(t)'
        BY <1>4, <2>2, <3>3, OtherShape DEF local
      <3> QED
        BY <3>1, <3>2, <3>3 DEF SessionShape
    <2> QED
      BY <2>1, <2>2 DEF AnswerExisting
  <1> QED
    BY <1>3, <1>4, <1>5 DEF TypeInv, TypeOK

\* The lookup before the wallet lock.
LEMMA LookupType ==
    ASSUME TypeInv, NEW s \in Sessions, Lookup(s)
    PROVE  TypeInv'
  <1>1. CASE AnswerExisting(s)
    BY <1>1, AnswerExistingType DEF Lookup
  <1>2. CASE Goto(s, "wallet") /\ UNCHANGED <<tables, counters, local, history>>
    <2>1. Shape(s)'
      BY <1>2 DEF Lookup, Goto, TypeInv, TypeOK, LocalType, SessionShape, Shape, local,
         tables
    <2> QED
      BY <1>2, <2>1, ContinueType DEF PCs
  <1> QED
    BY <1>1, <1>2 DEF Lookup

\* The lookup under the wallet lock.
LEMMA RelookupType ==
    ASSUME TypeInv, NEW s \in Sessions, Relookup(s)
    PROVE  TypeInv'
  <1>1. CASE AnswerExisting(s)
    BY <1>1, AnswerExistingType DEF Relookup
  <1>2. CASE Goto(s, "decide") /\ UNCHANGED <<tables, counters, local, history>>
    <2>1. Shape(s)'
      BY <1>2 DEF Relookup, Goto, TypeInv, TypeOK, LocalType, SessionShape, Shape, local,
         tables
    <2> QED
      BY <1>2, <2>1, ContinueType DEF PCs
  <1> QED
    BY <1>1, <1>2 DEF Relookup

\* A statement that changes the session's own variables: the tables and the
\* other sessions keep their types.
LEMMA OwnStepType ==
    ASSUME TypeInv, NEW s \in Sessions, UNCHANGED <<tables, counters, history>>,
           NEW label \in PCs, Goto(s, label),
           NEW w \in WalletRows \cup {None}, snap' = [snap EXCEPT ![s] = w],
           NEW v \in Verdicts, verdict' = [verdict EXCEPT ![s] = v],
           UNCHANGED <<req, uid, msg, staged>>, Shape(s)'
    PROVE  TypeInv'
  <1>1. TablesType' /\ HistoryType' /\ CountersType'
    BY DEF TypeInv, TypeOK, TablesType, HistoryType, CountersType, tables, history,
       counters
  <1>2. LocalType'
    BY DEF Goto, TypeInv, TypeOK, LocalType
  <1>3. ASSUME NEW t \in Sessions, t # s PROVE Shape(t)'
    <2>1. snap'[t] = snap[t] /\ verdict'[t] = verdict[t]
      BY <1>3 DEF TypeInv, TypeOK, LocalType
    <2> QED
      BY <1>3, <2>1, OtherShape DEF tables
  <1> QED
    BY <1>1, <1>2, <1>3 DEF TypeInv, TypeOK, SessionShape

\* FindForUpdate reads a row of its type, which fits the session's shape.
LEMMA LockWalletType ==
    ASSUME TypeInv, NEW s \in Sessions, LockWallet(s)
    PROVE  TypeInv'
  <1> DEFINE w == wallets[req[s].wallet]
             label == IF s \in WorkerSessions THEN "write" ELSE "relookup"
  <1>1. CASE EndTx(s)
    BY <1>1, RollbackType DEF LockWallet
  <1>2. CASE ~EndTx(s)
    <2>1. w \in WalletRows
      BY <1>2 DEF LockWallet, TypeInv, TypeOK, TablesType, SessionShape, Shape, CommandSet
    <2>2. /\ Goto(s, label) /\ label \in PCs
          /\ snap' = [snap EXCEPT ![s] = w]
          /\ UNCHANGED <<req, uid, msg, verdict, staged>>
      BY <1>2 DEF LockWallet, PCs
    <2>3. Shape(s)'
      BY <2>1, <2>2 DEF LockWallet, Goto, TypeInv, TypeOK, LocalType, SessionShape,
         Shape, tables
    <2>4. verdict[s] \in Verdicts /\ verdict' = [verdict EXCEPT ![s] = verdict[s]]
      BY <2>2 DEF TypeInv, TypeOK, LocalType
    <2> QED
      BY <2>1, <2>2, <2>3, <2>4, OwnStepType DEF LockWallet
  <1> QED
    BY <1>1, <1>2

\* processInTx decides.
LEMMA DecideType ==
    ASSUME TypeInv, NEW s \in Sessions, Decide(s)
    PROVE  TypeInv'
  <1> DEFINE v == Decision(req[s], snap[s])
  <1>1. CASE EndTx(s)
    BY <1>1, RollbackType DEF Decide
  <1>2. CASE ~EndTx(s)
    <2>1. v \in Verdicts /\ v # "RETRY"
      BY DecisionType DEF Decide, TypeInv, SessionShape, Shape
    <2>2. /\ Goto(s, "write") /\ "write" \in PCs
          /\ verdict' = [verdict EXCEPT ![s] = v]
          /\ UNCHANGED <<req, uid, msg, snap, staged>>
      BY <1>2 DEF Decide, PCs
    <2>3. Shape(s)'
      BY <2>1, <2>2 DEF Decide, Goto, TypeInv, TypeOK, LocalType, SessionShape, Shape,
         tables
    <2>4. snap[s] \in WalletRows \cup {None} /\ snap' = [snap EXCEPT ![s] = snap[s]]
      BY <2>2 DEF TypeInv, TypeOK, LocalType
    <2> QED
      BY <2>1, <2>2, <2>3, <2>4, OwnStepType DEF Decide
  <1> QED
    BY <1>1, <1>2

\* The worker's decision.
LEMMA ReadReferenceType ==
    ASSUME TypeInv, NEW s \in Sessions, ReadReference(s)
    PROVE  TypeInv'
  <1> DEFINE v == PendingDecision(uid[s])
             label == IF v = "RETRY" THEN "write" ELSE "wallet"
  <1>1. v \in Verdicts
    BY PendingDecisionType
  <1>2. /\ Goto(s, label) /\ label \in PCs
        /\ verdict' = [verdict EXCEPT ![s] = v]
        /\ UNCHANGED <<req, uid, msg, snap, staged>>
    BY DEF ReadReference, PCs
  <1>3. Shape(s)'
    BY <1>1, <1>2 DEF ReadReference, Goto, TypeInv, TypeOK, LocalType, SessionShape,
       Shape, tables
  <1>4. snap[s] \in WalletRows \cup {None} /\ snap' = [snap EXCEPT ![s] = snap[s]]
    BY <1>2 DEF TypeInv, TypeOK, LocalType
  <1> QED
    BY <1>1, <1>2, <1>3, <1>4, OwnStepType DEF ReadReference

\* The rollback before resolveIdentityConflict.
LEMMA IdentityRaceType ==
    ASSUME TypeInv, NEW s \in Sessions, IdentityRace(s)
    PROVE  TypeInv'
  <1>1. Shape(s)'
    BY SessionsAssumption DEF IdentityRace, Goto, TypeInv, TypeOK, LocalType,
       SessionShape, Shape, tables
  <1>2. "resolve" \in PCs /\ "NONE" \in Verdicts
    BY DEF PCs, Verdicts
  <1> QED
    BY <1>1, <1>2, OwnStepType DEF IdentityRace

\* The rollback of a conflict.
LEMMA ConflictAtWriteType ==
    ASSUME TypeInv, NEW s \in Sessions, ConflictAtWrite(s)
    PROVE  TypeInv'
  <1>1. HistoryType'
    BY DEF ConflictAtWrite, TypeInv, TypeOK, HistoryType, SessionShape, Shape
  <1>2. TablesType' /\ CountersType' /\ txns' = txns
    BY DEF ConflictAtWrite, TypeInv, TypeOK, TablesType, CountersType, tables, counters
  <1>3. LocalType' /\ SessionShape'
    BY <1>2, EndTxType DEF ConflictAtWrite
  <1> QED
    BY <1>1, <1>2, <1>3 DEF TypeInv, TypeOK

\* The writes are staged with their types.
LEMMA WriteType ==
    ASSUME TypeInv, NEW s \in Sessions, Write(s)
    PROVE  TypeInv'
  <1>1. /\ WritesOf(s) \in StagedWrites
        /\ Len(EventKindsOf(req[s], verdict[s], snap[s])) \in Nat
    BY WritesType DEF Write
  <1>2. TablesType' /\ HistoryType' /\ txns' = txns
    BY DEF Write, TypeInv, TypeOK, TablesType, HistoryType, tables, history
  <1>3. CountersType'
    BY <1>1 DEF Write, TypeInv, TypeOK, CountersType
  <1>4. LocalType'
    BY <1>1 DEF Write, Goto, TypeInv, TypeOK, LocalType, PCs
  <1>5. Shape(s)'
    BY <1>1, <1>2 DEF Write, Goto, TypeInv, TypeOK, LocalType, SessionShape, Shape
  <1>6. ASSUME NEW t \in Sessions, t # s PROVE Shape(t)'
    <2>1. staged'[t] = staged[t]
      BY <1>6 DEF Write, TypeInv, TypeOK, LocalType
    <2> QED
      BY <1>2, <1>6, <2>1, OtherShape DEF Write
  <1> QED
    BY <1>2, <1>3, <1>4, <1>5, <1>6 DEF TypeInv, TypeOK, SessionShape

\* Commit makes staged rows visible.
LEMMA CommitType ==
    ASSUME TypeInv, NEW s \in Sessions, Commit(s)
    PROVE  TypeInv'
  <1> DEFINE w == req[s].wallet
             i == uid[s]
  <1>1. /\ pc[s] = "commit" /\ req[s] \in CommandSet /\ i \in TxIDs /\ w \in Wallets
        /\ s \in ConsumerSessions => msg[s] \in MessageIDs
        /\ s \notin ConsumerSessions => staged[s] \in StagedWrites
        /\ staged[s] \in StagedWrites \cup {None}
    BY DEF Commit, TypeInv, TypeOK, LocalType, SessionShape, Shape, CommandSet
  <1>2. /\ wallets' \in [Wallets -> WalletRows \cup {None}]
        /\ txns' \in [TxIDs -> TxRows \cup {None}]
        /\ ledger' \in [Wallets -> Seq(Entries)]
        /\ outbox' \subseteq Events
        /\ \A j \in TxIDs : txns[j] \in TxRows => txns'[j] \in TxRows
    <2>1. CASE staged[s] = None
      BY <2>1 DEF Commit, TypeInv, TypeOK, TablesType
    <2>2. CASE staged[s] # None
      <3>1. /\ staged[s].row \in TxRows
            /\ staged[s].wallet \in WalletRows \cup {None}
            /\ staged[s].entry \in Entries \cup {None}
            /\ staged[s].events \subseteq Events
        BY <1>1, <2>2 DEF StagedWrites
      <3>2. wallets' \in [Wallets -> WalletRows \cup {None}]
        BY <1>1, <2>2, <3>1 DEF Commit, TypeInv, TypeOK, TablesType
      <3>3. /\ txns' \in [TxIDs -> TxRows \cup {None}]
            /\ \A j \in TxIDs : txns[j] \in TxRows => txns'[j] \in TxRows
        BY <1>1, <2>2, <3>1 DEF Commit, TypeInv, TypeOK, TablesType
      <3>4. ledger' \in [Wallets -> Seq(Entries)]
        <4>1. CASE staged[s].entry = None
          BY <2>2, <4>1 DEF Commit, TypeInv, TypeOK, TablesType
        <4>2. CASE staged[s].entry # None
          <5>1. ledger' = [ledger EXCEPT ![w] = Append(@, staged[s].entry)]
            BY <2>2, <4>2 DEF Commit
          <5>2. Append(ledger[w], staged[s].entry) \in Seq(Entries)
            BY <1>1, <3>1, <4>2 DEF TypeInv, TypeOK, TablesType
          <5> QED
            BY <5>1, <5>2 DEF TypeInv, TypeOK, TablesType
        <4> QED
          BY <4>1, <4>2
      <3>5. outbox' \subseteq Events
        BY <2>2, <3>1 DEF Commit, TypeInv, TypeOK, TablesType
      <3> QED
        BY <3>2, <3>3, <3>4, <3>5
    <2> QED
      BY <2>1, <2>2
  <1>3. inbox' \in [MessageIDs -> HashSet \cup {None}]
    <2>1. PayloadHash(req[s]) \in HashSet
      BY <1>1, PayloadHashType
    <2> QED
      BY <1>1, <2>1 DEF Commit, TypeInv, TypeOK, TablesType
  <1>4. HistoryType'
    <2>1. CASE s \in HTTPSessions
      <3>1. staged[s].row.result \in ResultSet
        BY <1>1, <2>1, SessionsAssumption DEF StagedWrites, TxRows
      <3>2. Reply(req[s], staged[s].row.result) \in [cmd : CommandSet, result : ResultSet]
        BY <1>1, <3>1 DEF Reply
      <3> QED
        BY <2>1, <3>2 DEF Commit, TypeInv, TypeOK, HistoryType
    <2>2. CASE s \notin HTTPSessions
      BY <2>2 DEF Commit, TypeInv, TypeOK, HistoryType
    <2> QED
      BY <2>1, <2>2
  <1>5. CountersType'
    BY DEF Commit, TypeInv, TypeOK, CountersType, counters
  <1>6. LocalType' /\ SessionShape'
    BY <1>2, EndTxType DEF Commit
  <1> QED
    BY <1>2, <1>3, <1>4, <1>5, <1>6 DEF TypeInv, TypeOK, TablesType

\* A cut transaction.
LEMMA AbortType ==
    ASSUME TypeInv, NEW s \in Sessions, Abort(s)
    PROVE  TypeInv'
  <1>1. TablesType' /\ HistoryType' /\ txns' = txns
    BY DEF Abort, TypeInv, TypeOK, TablesType, HistoryType, tables, history
  <1>2. CountersType'
    BY BoundsAssumption DEF Abort, TypeInv, TypeOK, CountersType
  <1>3. LocalType' /\ SessionShape'
    BY <1>1, EndTxType DEF Abort
  <1> QED
    BY <1>1, <1>2, <1>3 DEF TypeInv, TypeOK

\* A pending reference becomes due.
LEMMA BackoffElapsesType ==
    ASSUME TypeInv, NEW i \in TxIDs, BackoffElapses(i)
    PROVE  TypeInv'
  <1>1. txns[i] \in TxRows
    BY DEF BackoffElapses, Persisted, TypeInv, TypeOK, TablesType
  <1>2. [txns[i] EXCEPT !.due = TRUE] \in TxRows
    BY <1>1 DEF TxRows
  <1>3. txns' = [txns EXCEPT ![i] = [txns[i] EXCEPT !.due = TRUE]]
    BY DEF BackoffElapses
  <1>4. /\ txns' \in [TxIDs -> TxRows \cup {None}]
        /\ \A j \in TxIDs : txns[j] \in TxRows => txns'[j] \in TxRows
    BY <1>2, <1>3 DEF TypeInv, TypeOK, TablesType
  <1>5. UNCHANGED <<wallets, ledger, inbox, outbox, counters, pc, local, history>>
    BY DEF BackoffElapses
  <1>6. TablesType' /\ CountersType' /\ LocalType' /\ HistoryType'
    BY <1>4, <1>5 DEF TypeInv, TypeOK, TablesType, CountersType, LocalType, HistoryType,
       counters, local, history
  <1>7. SessionShape'
    BY <1>4, <1>5 DEF TypeInv, SessionShape, Shape, local
  <1> QED
    BY <1>6, <1>7 DEF TypeInv, TypeOK

\* Every step of a transaction that has begun keeps the invariant.
LEMMA StepType ==
    ASSUME TypeInv, NEW s \in Sessions, Step(s)
    PROVE  TypeInv'
  <1>1. CASE Resolve(s)
    BY <1>1, AnswerExistingType DEF Resolve
  <1>2. CASE WriteFails(s)
    BY <1>2, RollbackType DEF WriteFails
  <1> QED
    BY <1>1, <1>2, InsertInboxType, LockReferenceIdentityType, LookupType, LockWalletType,
       RelookupType, DecideType, ReadReferenceType, WriteType, IdentityRaceType,
       ConflictAtWriteType, CommitType
    DEF Step

\* The type invariant is inductive.
LEMMA NextType == TypeInv /\ [Next]_vars => TypeInv'
  <1> SUFFICES ASSUME TypeInv, [Next]_vars PROVE TypeInv'
    OBVIOUS
  <1>1. ASSUME NEW o \in OpenRequests, OpenWallet(o) PROVE TypeInv'
    BY <1>1, OpenWalletType
  <1>2. ASSUME NEW s \in Sessions, NEW c \in Commands, BeginProcess(s, c) PROVE TypeInv'
    BY <1>2, BeginType, RequestsAssumption DEF BeginProcess
  <1>3. ASSUME NEW s \in Sessions, NEW m \in Messages, BeginMessage(s, m) PROVE TypeInv'
    <2>1. m.cmd \in CommandSet /\ m.id \in MessageIDs
      BY RequestsAssumption
    <2> QED
      BY <1>3, <2>1, BeginType DEF BeginMessage
  <1>4. ASSUME NEW s \in Sessions, NEW i \in TxIDs, ClaimPending(s, i) PROVE TypeInv'
    BY <1>4, ClaimType
  <1>5. ASSUME NEW s \in Sessions, Step(s) PROVE TypeInv'
    BY <1>5, StepType
  <1>6. ASSUME NEW s \in Sessions, Abort(s) PROVE TypeInv'
    BY <1>6, AbortType
  <1>7. ASSUME NEW i \in TxIDs, BackoffElapses(i) PROVE TypeInv'
    BY <1>7, BackoffElapsesType
  <1>8. CASE UNCHANGED vars
    BY <1>8 DEF TypeInv, TypeOK, TablesType, CountersType, LocalType, HistoryType,
       SessionShape, Shape, vars, tables, counters, local, history
  <1> QED
    BY <1>1, <1>2, <1>3, <1>4, <1>5, <1>6, <1>7, <1>8 DEF Next

\* In every reachable state of every instance, each table row and each local
\* variable has its Go or SQL type; in particular no balance is negative or
\* leaves int64, and each statement of service.go finds the locals it uses.
THEOREM TypeCorrect == Spec => [](TypeOK /\ SessionShape)
  BY InitType, NextType, PTL DEF Spec, TypeInv
=============================================================================
