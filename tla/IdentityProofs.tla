--------------------------- MODULE IdentityProofs ---------------------------
(***************************************************************************)
(* Who a transaction row belongs to, in every instance of                  *)
(* FinancialService: rows are final, results can be replayed, a key and an *)
(* external id name one row, and what clients were told stays true.        *)
(***************************************************************************)
EXTENDS WalletLedgerProofs

(* A worker's row is pending until the worker commits, and is claimed by   *)
(* nobody else.                                                            *)
HeldRow ==
    \A s \in WorkerSessions :
        pc[s] # "idle" =>
            /\ txns[uid[s]].state = "PENDING_REFERENCE"
            /\ \A t \in WorkerSessions : t # s /\ pc[t] # "idle" => uid[t] # uid[s]

(* Session s has decided: on a locked wallet row, or to retry later.       *)
HasDecided(s) ==
    \/ snap[s] \in WalletRows /\ verdict[s] # "RETRY"
    \/ s \in WorkerSessions /\ verdict[s] = "RETRY"

(* The staged row is the one the session would write now.                  *)
StagedRow ==
    \A s \in Sessions :
        staged[s] # None => staged[s].row = RowOf(s) /\ HasDecided(s)

FinalInv == HeldRow /\ StagedRow /\ ReplayAvailable

(* Two rows the unique constraints do not allow side by side.              *)
Clash(a, b) == SameIdentity(a, b) \/ SameReversal(a, b)

(* No two rows clash, committed or staged.                                 *)
UniqueRows ==
    /\ \A i, j \in Persisted : i # j => ~Clash(txns[i], txns[j])
    /\ \A s \in Sessions :
         staged[s] # None =>
           /\ \A i \in Persisted \ {uid[s]} : ~Clash(staged[s].row, txns[i])
           /\ \A t \in Sessions \ {s} :
                staged[t] # None => ~Clash(staged[s].row, staged[t].row)

(* The advisory lock has one holder.                                       *)
OneIdentityHolder ==
    \A s, t \in Sessions :
        s # t => ~(/\ HoldsIdentity(s, IdentityOf(s))
                   /\ HoldsIdentity(t, IdentityOf(s)))

(* A request that found nothing finds no twin later: nobody else can       *)
(* commit its command while it holds the advisory lock.                    *)
NoTwin ==
    \A s \in Sessions \ WorkerSessions :
        pc[s] \in {"wallet", "relookup", "decide", "write"} =>
            \A i \in Persisted : txns[i].cmd # req[s]

(* A worker that found no reference keeps it absent.                       *)
ReferenceAbsent ==
    \A s \in WorkerSessions :
        verdict[s] = "REFERENCE_NOT_FOUND" => FindByExternal(req[s].prov, req[s].ref) = {}

(* The row that won the race is there to be resolved against.              *)
RaceLost ==
    \A s \in Sessions :
        pc[s] = "resolve" =>
            \E i \in Persisted : /\ txns[i].cmd.prov = req[s].prov
                                 /\ \/ txns[i].cmd.ext = req[s].ext
                                    \/ txns[i].cmd.key = req[s].key

(* A message that commits without writing is a replay of a committed row.  *)
ReplayedMessage ==
    \A s \in ConsumerSessions :
        pc[s] = "commit" /\ staged[s] = None =>
            \E i \in Persisted : PayloadHash(txns[i].cmd) = PayloadHash(req[s])

(* What an HTTP client was told is on record.                              *)
RepliesRecorded ==
    \A r \in replies :
        /\ r.result.tx \in Persisted
        /\ txns[r.result.tx].cmd = r.cmd
        /\ r.result.state # "PENDING_REFERENCE" => txns[r.result.tx].result = r.result

-----------------------------------------------------------------------------
(* What a step does to the sessions and the rows.                          *)

(* Session t does not move.                                                *)
Stands(t) ==
    /\ pc'[t] = pc[t] /\ req'[t] = req[t] /\ uid'[t] = uid[t] /\ msg'[t] = msg[t]
    /\ snap'[t] = snap[t] /\ verdict'[t] = verdict[t] /\ staged'[t] = staged[t]

(* Session t goes on with its command, or ends.                            *)
Continues(t) ==
    pc'[t] # "idle" =>
        pc[t] # "idle" /\ req'[t] = req[t] /\ uid'[t] = uid[t] /\ msg'[t] = msg[t]

(* An action of session s.                                                 *)
Acts(s) ==
    \/ \E c \in Commands : BeginProcess(s, c)
    \/ \E m \in Messages : BeginMessage(s, m)
    \/ \E i \in TxIDs : ClaimPending(s, i)
    \/ Step(s)
    \/ Abort(s)

\* A statement of one session moves no other session.
LEMMA OthersStand ==
    ASSUME TypeInv, NEW s \in Sessions, Acts(s), NEW t \in Sessions, t # s
    PROVE  Stands(t)
  <1>1. CASE EndTx(s)
    BY <1>1 DEF EndTx, Goto, Stands, TypeInv, TypeOK, LocalType
  <1>2. CASE ~EndTx(s) /\ (Step(s) \/ Abort(s))
    BY <1>2
    DEF Step, Abort, InsertInbox, LockReferenceIdentity, Lookup, LockWallet, Relookup, Decide,
        ReadReference, Write, IdentityRace, ConflictAtWrite, WriteFails, Resolve, Commit,
        AnswerExisting, Goto, local, Stands, TypeInv, TypeOK, LocalType
  <1>3. CASE ~(Step(s) \/ Abort(s))
    BY <1>3
    DEF Acts, BeginProcess, BeginMessage, Begin, ClaimPending, Goto, Stands, TypeInv, TypeOK,
        LocalType
  <1> QED
    BY <1>1, <1>2, <1>3

\* A transaction that has begun keeps its command, its id and its message.
LEMMA StepContinues ==
    ASSUME TypeInv, NEW s \in Sessions, Step(s) \/ Abort(s)
    PROVE  pc[s] # "idle" /\ Continues(s)
  <1>0. pc[s] # "idle"
    BY DEF Step, Abort, InsertInbox, LockReferenceIdentity, Lookup, LockWallet, Relookup, Decide,
        ReadReference, Write, IdentityRace, ConflictAtWrite, WriteFails, Resolve, Commit
  <1>1. CASE EndTx(s)
    BY <1>0, <1>1 DEF EndTx, Goto, Continues, TypeInv, TypeOK, LocalType
  <1>2. CASE ~EndTx(s)
    BY <1>0, <1>2
    DEF Step, Abort, InsertInbox, LockReferenceIdentity, Lookup, LockWallet, Relookup, Decide,
        ReadReference, Write, IdentityRace, ConflictAtWrite, WriteFails, Resolve, Commit,
        AnswerExisting, local, Continues
  <1> QED
    BY <1>1, <1>2

\* OpenWallet, the clock and stuttering move no session.
LEMMA TableStepStands ==
    ASSUME NEW t \in Sessions,
           \/ \E o \in OpenRequests : OpenWallet(o)
           \/ \E i \in TxIDs : BackoffElapses(i)
           \/ UNCHANGED vars
    PROVE  Stands(t)
  BY DEF OpenWallet, BackoffElapses, vars, local, Stands

\* Every step is of one session, or of none.
LEMMA OneMoves ==
    ASSUME [Next]_vars
    PROVE  \/ \E s \in Sessions : Acts(s)
           \/ \E o \in OpenRequests : OpenWallet(o)
           \/ \E i \in TxIDs : BackoffElapses(i)
           \/ UNCHANGED vars
  BY DEF Next, Acts

\* A statement other than Commit leaves every table alone.
LEMMA OnlyCommitWrites ==
    ASSUME NEW s \in Sessions, Acts(s), ~Commit(s)
    PROVE  UNCHANGED tables
  BY DEF Acts, Step, InsertInbox, LockReferenceIdentity, Lookup, LockWallet, Relookup, Decide,
     ReadReference, Write, IdentityRace, ConflictAtWrite, WriteFails, Resolve, Abort,
     AnswerExisting, BeginProcess, BeginMessage, Begin, ClaimPending, tables

\* No two transactions have the same row.
LEMMA DistinctRows ==
    ASSUME RowInv, HeldRow, NEW s \in Sessions, NEW t \in Sessions, s # t,
           pc[s] # "idle", pc[t] # "idle"
    PROVE  uid[s] # uid[t]
  <1>1. CASE s \notin WorkerSessions
    BY <1>1 DEF RowInv, OwnRow
  <1>2. CASE t \notin WorkerSessions
    BY <1>2 DEF RowInv, OwnRow
  <1>3. CASE s \in WorkerSessions /\ t \in WorkerSessions
    BY <1>3 DEF HeldRow
  <1> QED
    BY <1>1, <1>2, <1>3

\* A row changes under no open transaction but the one that commits it.
LEMMA OwnRowStands ==
    ASSUME TypeInv, RowInv, HeldRow, [Next]_vars,
           NEW t \in Sessions, pc[t] # "idle", pc'[t] # "idle"
    PROVE  txns'[uid[t]] = txns[uid[t]]
  <1>0. uid[t] \in TxIDs /\ uid[t] <= issued
    BY DEF TypeInv, SessionShape, Shape, RowInv, IDsFresh
  <1>1. ASSUME NEW s \in Sessions, Commit(s) PROVE txns'[uid[t]] = txns[uid[t]]
    <2>1. pc[s] = "commit" /\ pc'[s] = "idle"
      BY <1>1 DEF Commit, EndTx, Goto, TypeInv, TypeOK, LocalType
    <2>2. uid[s] # uid[t]
      BY <2>1, DistinctRows
    <2> QED
      BY <1>0, <1>1, <2>2 DEF Commit, TypeInv, TypeOK, TablesType
  <1>2. ASSUME NEW s \in Sessions, Acts(s), ~Commit(s) PROVE txns'[uid[t]] = txns[uid[t]]
    BY <1>2, OnlyCommitWrites DEF tables
  <1>3. ASSUME NEW o \in OpenRequests, OpenWallet(o) PROVE txns'[uid[t]] = txns[uid[t]]
    <2>1. uid[t] # issued + 1
      BY <1>0 DEF TypeInv, TypeOK, CountersType, TxIDs
    <2> QED
      BY <1>0, <1>3, <2>1 DEF OpenWallet, TypeInv, TypeOK, TablesType
  <1>4. ASSUME NEW i \in TxIDs, BackoffElapses(i) PROVE txns'[uid[t]] = txns[uid[t]]
    <2>1. CASE t \in WorkerSessions
      <3>1. InTransaction(t)
        BY <2>1, SessionsAssumption DEF InTransaction, TypeInv, SessionShape, Shape
      <3>2. i # uid[t]
        BY <1>4, <2>1, <3>1 DEF BackoffElapses, HoldsRow
      <3> QED
        BY <1>0, <1>4, <3>2 DEF BackoffElapses, TypeInv, TypeOK, TablesType
    <2>2. CASE t \notin WorkerSessions
      <3>1. i # uid[t]
        BY <1>4, <2>2 DEF BackoffElapses, Persisted, RowInv, OwnRow
      <3> QED
        BY <1>0, <1>4, <3>1 DEF BackoffElapses, TypeInv, TypeOK, TablesType
    <2> QED
      BY <2>1, <2>2
  <1>5. CASE UNCHANGED vars
    BY <1>5 DEF vars, tables
  <1> QED
    BY <1>1, <1>2, <1>3, <1>4, <1>5, OneMoves

\* The row a session would write does not change while the session stands.
LEMMA RowOfStands ==
    ASSUME NEW t \in Sessions, req'[t] = req[t], uid'[t] = uid[t],
           snap'[t] = snap[t], verdict'[t] = verdict[t],
           txns'[uid[t]] = txns[uid[t]]
    PROVE  RowOf(t)' = RowOf(t)
  BY DEF RowOf, AttemptsAfter

\* Claims exclude each other, and only the holder settles a pending row.
LEMMA NextHeldRow ==
    ASSUME TypeInv, RowInv, HeldRow, [Next]_vars
    PROVE  HeldRow'
  <1>1. ASSUME NEW s \in Sessions, NEW i \in TxIDs, ClaimPending(s, i) PROVE HeldRow'
    <2>1. /\ s \in WorkerSessions /\ pc[s] = "idle" /\ txns' = txns
          /\ txns[i].state = "PENDING_REFERENCE"
          /\ \A t \in Sessions : ~HoldsRow(t, i)
          /\ uid'[s] = i
      BY <1>1 DEF ClaimPending, tables, TypeInv, TypeOK, LocalType
    <2>2. \A t \in Sessions : t # s => pc'[t] = pc[t] /\ uid'[t] = uid[t]
      BY <1>1 DEF ClaimPending, Goto, TypeInv, TypeOK, LocalType
    <2>3. ASSUME NEW t \in WorkerSessions, t # s, pc[t] # "idle" PROVE uid[t] # i
      BY <2>1, <2>3, SessionsAssumption
      DEF HoldsRow, InTransaction, TypeInv, SessionShape, Shape, Sessions
    <2> QED
      BY <2>1, <2>2, <2>3 DEF HeldRow, Sessions
  <1>2. ASSUME \A t \in WorkerSessions : Continues(t) PROVE HeldRow'
    <2> SUFFICES ASSUME NEW s \in WorkerSessions, pc'[s] # "idle"
                 PROVE  /\ txns'[uid'[s]].state = "PENDING_REFERENCE"
                        /\ \A t \in WorkerSessions :
                              t # s /\ pc'[t] # "idle" => uid'[t] # uid'[s]
      BY DEF HeldRow
    <2>1. pc[s] # "idle" /\ uid'[s] = uid[s] /\ txns'[uid[s]] = txns[uid[s]]
      BY <1>2, OwnRowStands DEF Continues, Sessions
    <2> QED
      BY <1>2, <2>1 DEF HeldRow, Continues
  <1>3. ASSUME NEW s \in Sessions, Acts(s), \A i \in TxIDs : ~ClaimPending(s, i)
        PROVE  \A t \in WorkerSessions : Continues(t)
    <2>1. ASSUME NEW t \in WorkerSessions, t # s PROVE Continues(t)
      BY <1>3, <2>1, OthersStand DEF Stands, Continues, Sessions
    <2>2. CASE Step(s) \/ Abort(s)
      BY <2>1, <2>2, StepContinues
    <2>3. CASE ~(Step(s) \/ Abort(s))
      <3>1. s \notin WorkerSessions
        BY <1>3, <2>3, SessionsAssumption DEF Acts, BeginProcess, BeginMessage
      <3> QED
        BY <2>1, <3>1
    <2> QED
      BY <2>2, <2>3
  <1>4. ASSUME ~\E s \in Sessions : Acts(s) PROVE \A t \in WorkerSessions : Continues(t)
    BY <1>4, OneMoves, TableStepStands DEF Stands, Continues, Sessions
  <1> QED
    BY <1>1, <1>2, <1>3, <1>4

\* What is staged stays what would be written.
LEMMA NextStagedRow ==
    ASSUME TypeInv, RowInv, HeldRow, StagedRow, [Next]_vars
    PROVE  StagedRow'
  <1> SUFFICES ASSUME NEW t \in Sessions, staged'[t] # None
               PROVE  staged'[t].row = RowOf(t)' /\ HasDecided(t)'
    BY DEF StagedRow
  <1>1. CASE Stands(t)
    <2>1. staged[t] # None /\ pc[t] = "commit" /\ pc'[t] = "commit"
      BY <1>1 DEF Stands, TypeInv, SessionShape, Shape
    <2>2. txns'[uid[t]] = txns[uid[t]]
      BY <2>1, OwnRowStands
    <2>3. RowOf(t)' = RowOf(t)
      BY <1>1, <2>2, RowOfStands DEF Stands
    <2> QED
      BY <1>1, <2>1, <2>3 DEF Stands, StagedRow, HasDecided
  <1>2. CASE Write(t)
    <2>1. staged'[t].row = RowOf(t)
      BY <1>2 DEF Write, WritesOf, TypeInv, TypeOK, LocalType
    <2>2. RowOf(t)' = RowOf(t)
      BY <1>2, RowOfStands DEF Write, tables
    <2>3. HasDecided(t)'
      BY <1>2 DEF Write, HasDecided, TypeInv, SessionShape, Shape
    <2> QED
      BY <2>1, <2>2, <2>3
  <1>3. CASE Acts(t) /\ ~Write(t)
    <2>1. ~EndTx(t)
      BY DEF EndTx, TypeInv, TypeOK, LocalType
    <2>2. staged'[t] = staged[t] /\ pc[t] # "commit"
      BY <1>3, <2>1
      DEF Acts, Step, Abort, InsertInbox, LockReferenceIdentity, Lookup, LockWallet, Relookup,
          Decide, ReadReference, IdentityRace, ConflictAtWrite, WriteFails, Resolve, Commit,
          AnswerExisting, BeginProcess, BeginMessage, Begin, ClaimPending, local
    <2> QED
      BY <2>2 DEF TypeInv, SessionShape, Shape
  <1> QED
    BY <1>1, <1>2, <1>3, OneMoves, OthersStand, TableStepStands

(* The row OpenWallet inserts for a funded wallet.                         *)
OpeningRow(o, i) ==
    [cmd |-> OpeningCommand(o), state |-> "PROCESSED",
     result |-> [tx |-> i, state |-> "PROCESSED", balance |-> o.amount, code |-> NoCode],
     attempts |-> 0, due |-> FALSE]

(* Session s commits its staged row i.                                     *)
CommitsRow(s, i) ==
    /\ Commit(s) /\ staged[s] # None /\ uid[s] = i
    /\ txns'[i] = RowOf(s) /\ RowOf(s) \in TxRows
    /\ HasDecided(s) /\ RowOf(s).cmd = req[s]

(* OpenWallet inserts row i.                                               *)
OpensRow(o, i) ==
    /\ OpenWallet(o) /\ o.amount # 0 /\ i = issued + 1 /\ txns[i] = None
    /\ txns'[i] = OpeningRow(o, i) /\ OpeningRow(o, i) \in TxRows

\* The row of an opening is well typed.
LEMMA OpeningRowType ==
    ASSUME NEW o \in OpenRequests, NEW i \in TxIDs
    PROVE  OpeningRow(o, i) \in TxRows
  <1>1. /\ o.wallet \in Wallets /\ o.player \in Identifiers
        /\ o.currency \in Identifiers /\ o.amount \in Money
        /\ OpeningExternalID[o.wallet] \in Identifiers
        /\ "internal" \in Identifiers /\ "opening" \in Identifiers
    BY RequestsAssumption
  <1>2. OpeningCommand(o) \in CommandSet
    BY <1>1 DEF OpeningCommand, CommandSet, Types
  <1> QED
    BY <1>1, <1>2 DEF OpeningRow, TxRows, ResultSet, States

\* The ways a row of wager_transactions changes: its transaction commits, a
\* wallet opens with it, or the time of its next attempt is reached.
LEMMA RowChange ==
    ASSUME TypeInv, RowInv, HeldRow, StagedRow, [Next]_vars, NEW i \in TxIDs
    PROVE  \/ txns'[i] = txns[i]
           \/ \E s \in Sessions : CommitsRow(s, i)
           \/ \E o \in OpenRequests : OpensRow(o, i)
           \/ BackoffElapses(i) /\ txns'[i] = [txns[i] EXCEPT !.due = TRUE]
  <1> SUFFICES ASSUME txns'[i] # txns[i]
               PROVE  \/ \E s \in Sessions : CommitsRow(s, i)
                      \/ \E o \in OpenRequests : OpensRow(o, i)
                      \/ BackoffElapses(i) /\ txns'[i] = [txns[i] EXCEPT !.due = TRUE]
    OBVIOUS
  <1>1. ASSUME NEW s \in Sessions, Commit(s) PROVE CommitsRow(s, i)
    <2>1. staged[s] # None /\ txns' = [txns EXCEPT ![uid[s]] = staged[s].row]
      BY <1>1 DEF Commit
    <2>2. uid[s] = i /\ txns'[i] = staged[s].row
      BY <2>1 DEF TypeInv, TypeOK, TablesType
    <2>3. /\ staged[s].row = RowOf(s) /\ HasDecided(s)
          /\ staged[s].row \in TxRows /\ staged[s].row.cmd = req[s]
      BY <2>1 DEF StagedRow, RowInv, StagedFromSnapshot, TypeInv, TypeOK, LocalType, StagedWrites
    <2> QED
      BY <1>1, <2>1, <2>2, <2>3 DEF CommitsRow
  <1>2. ASSUME NEW s \in Sessions, Acts(s), ~Commit(s) PROVE FALSE
    BY <1>2, OnlyCommitWrites DEF tables
  <1>3. ASSUME NEW o \in OpenRequests, OpenWallet(o) PROVE OpensRow(o, i)
    <2>1. /\ o.amount # 0 /\ issued < MaxAttempts
          /\ txns' = [txns EXCEPT ![issued + 1] = OpeningRow(o, issued + 1)]
      BY <1>3 DEF OpenWallet, OpeningRow
    <2>2. i = issued + 1 /\ txns'[i] = OpeningRow(o, i)
      BY <2>1 DEF TypeInv, TypeOK, TablesType
    <2>3. txns[i] = None
      BY <2>2 DEF RowInv, IDsFresh, TypeInv, TypeOK, CountersType
    <2>4. OpeningRow(o, i) \in TxRows
      BY OpeningRowType
    <2> QED
      BY <1>3, <2>1, <2>2, <2>3, <2>4 DEF OpensRow
  <1>4. ASSUME NEW j \in TxIDs, BackoffElapses(j)
        PROVE  BackoffElapses(i) /\ txns'[i] = [txns[i] EXCEPT !.due = TRUE]
    BY <1>4 DEF BackoffElapses, TypeInv, TypeOK, TablesType
  <1>5. CASE UNCHANGED vars
    BY <1>5 DEF vars, tables
  <1> QED
    BY <1>1, <1>2, <1>3, <1>4, <1>5, OneMoves

\* A transaction ends pending, processed or rejected, with a result that says
\* so; only rescheduling keeps the stored result.
LEMMA RowOfStates ==
    ASSUME TypeInv, RowInv, HeldRow, NEW s \in Sessions, HasDecided(s), pc[s] # "idle"
    PROVE  /\ RowOf(s).state \in {"PENDING_REFERENCE", "PROCESSED", "REJECTED"}
           /\ verdict[s] # "RETRY" =>
                /\ RowOf(s).state = StateAfter(req[s], verdict[s], snap[s])
                /\ RowOf(s).result = ResultOf(uid[s], req[s], verdict[s], snap[s])
           /\ verdict[s] = "RETRY" =>
                /\ s \in WorkerSessions
                /\ RowOf(s).state = "PENDING_REFERENCE"
                /\ RowOf(s).result = txns[uid[s]].result
  <1>1. CASE verdict[s] = "RETRY"
    <2>1. /\ s \in WorkerSessions /\ txns[uid[s]] \in TxRows
          /\ txns[uid[s]].state = "PENDING_REFERENCE"
      BY <1>1 DEF HasDecided, HeldRow, TypeInv, SessionShape, Shape
    <2>2. RowOf(s) = [txns[uid[s]] EXCEPT !.attempts = AttemptsAfter(s), !.due = FALSE]
      BY <1>1 DEF RowOf
    <2>3. RowOf(s).state = txns[uid[s]].state /\ RowOf(s).result = txns[uid[s]].result
      BY <2>1, <2>2 DEF TxRows
    <2> QED
      BY <1>1, <2>1, <2>3
  <1>2. CASE verdict[s] # "RETRY"
    <2>1. /\ RowOf(s).state = StateAfter(req[s], verdict[s], snap[s])
          /\ RowOf(s).result = ResultOf(uid[s], req[s], verdict[s], snap[s])
      BY <1>2 DEF RowOf
    <2>2. StateAfter(req[s], verdict[s], snap[s]) \in {"PENDING_REFERENCE", "PROCESSED", "REJECTED"}
      BY DEF StateAfter
    <2> QED
      BY <1>2, <2>1, <2>2
  <1> QED
    BY <1>1, <1>2

\* A stored result always agrees with its row.
LEMMA NextReplayAvailable ==
    ASSUME TypeInv, RowInv, HeldRow, StagedRow, ReplayAvailable, [Next]_vars
    PROVE  ReplayAvailable'
  <1> SUFFICES ASSUME NEW i \in TxIDs, txns'[i] # None
               PROVE  Replayable(i)'
    BY DEF ReplayAvailable, Persisted
  <1>1. CASE txns'[i] = txns[i]
    BY <1>1 DEF ReplayAvailable, Replayable, Persisted
  <1>2. ASSUME NEW s \in Sessions, CommitsRow(s, i) PROVE Replayable(i)'
    <2>1. /\ pc[s] = "commit" /\ HasDecided(s) /\ txns'[i] = RowOf(s) /\ uid[s] = i
          /\ req[s] \in CommandSet /\ i \in TxIDs
      BY <1>2 DEF CommitsRow, Commit, TypeInv, SessionShape, Shape
    <2>2. CASE verdict[s] = "RETRY"
      <3>1. /\ RowOf(s).state = "PENDING_REFERENCE" /\ RowOf(s).result = txns[i].result
            /\ s \in WorkerSessions
        BY <2>1, <2>2, RowOfStates
      <3>2. txns[i].state = "PENDING_REFERENCE" /\ Replayable(i)
        BY <2>1, <3>1, NoneAssumption
        DEF HeldRow, ReplayAvailable, Persisted, TypeInv, SessionShape, Shape
      <3> QED
        BY <2>1, <3>1, <3>2 DEF Replayable
    <2>3. CASE verdict[s] # "RETRY"
      <3>1. /\ RowOf(s).state = StateAfter(req[s], verdict[s], snap[s])
            /\ RowOf(s).result = ResultOf(i, req[s], verdict[s], snap[s])
            /\ snap[s] \in WalletRows
        BY <2>1, <2>3, RowOfStates DEF HasDecided
      <3>2. BalanceAfter(req[s], verdict[s], snap[s]) >= 0
        BY <2>1, <3>1, BalanceAfterType DEF Money
      <3> QED
        BY <2>1, <3>1, <3>2 DEF Replayable, ResultOf
    <2> QED
      BY <2>2, <2>3
  <1>3. ASSUME NEW o \in OpenRequests, OpensRow(o, i) PROVE Replayable(i)'
    BY <1>3, RequestsAssumption DEF OpensRow, OpeningRow, Replayable, Money
  <1>4. ASSUME BackoffElapses(i), txns'[i] = [txns[i] EXCEPT !.due = TRUE]
        PROVE  Replayable(i)'
    <2>1. txns[i] \in TxRows /\ Replayable(i)
      BY <1>4 DEF BackoffElapses, Persisted, TypeInv, TypeOK, TablesType, ReplayAvailable
    <2> QED
      BY <1>4, <2>1 DEF TxRows, Replayable
  <1> QED
    BY <1>1, <1>2, <1>3, <1>4, RowChange

\* A committed row keeps its command; one that is not pending never changes,
\* and a pending one stays pending or is decided.
LEMMA RowsLast ==
    ASSUME TypeInv, RowInv, HeldRow, StagedRow, [Next]_vars, NEW i \in Persisted
    PROVE  /\ i \in Persisted' /\ txns'[i].cmd = txns[i].cmd
           /\ txns[i].state # "PENDING_REFERENCE" => txns'[i] = txns[i]
           /\ \/ txns'[i].state = txns[i].state
              \/ txns'[i].state \in {"PROCESSED", "REJECTED"}
  <1>0. i \in TxIDs /\ txns[i] # None /\ txns[i] \in TxRows
    BY DEF Persisted, TypeInv, TypeOK, TablesType
  <1>1. CASE txns'[i] = txns[i]
    BY <1>0, <1>1 DEF Persisted
  <1>2. ASSUME NEW s \in Sessions, CommitsRow(s, i)
        PROVE  /\ txns'[i] # None /\ txns'[i].cmd = txns[i].cmd
               /\ txns[i].state = "PENDING_REFERENCE"
               /\ txns'[i].state \in {"PENDING_REFERENCE", "PROCESSED", "REJECTED"}
    <2>1. /\ pc[s] = "commit" /\ uid[s] = i /\ txns'[i] = RowOf(s) /\ RowOf(s) \in TxRows
          /\ HasDecided(s) /\ RowOf(s).cmd = req[s]
      BY <1>2 DEF CommitsRow, Commit
    <2>2. s \in WorkerSessions
      BY <1>0, <2>1 DEF RowInv, OwnRow
    <2>3. txns[i].cmd = req[s] /\ txns[i].state = "PENDING_REFERENCE"
      BY <2>1, <2>2 DEF RowInv, ClaimedRow, HeldRow
    <2>4. RowOf(s).state \in {"PENDING_REFERENCE", "PROCESSED", "REJECTED"}
      BY <2>1, RowOfStates
    <2> QED
      BY <2>1, <2>3, <2>4, NoneAssumption
  <1>3. ASSUME NEW o \in OpenRequests, OpensRow(o, i) PROVE FALSE
    BY <1>0, <1>3 DEF OpensRow
  <1>4. ASSUME BackoffElapses(i), txns'[i] = [txns[i] EXCEPT !.due = TRUE]
        PROVE  /\ txns'[i] # None /\ txns'[i].cmd = txns[i].cmd
               /\ txns[i].state = "PENDING_REFERENCE" /\ txns'[i].state = txns[i].state
    <2>1. txns'[i] \in TxRows /\ txns'[i].cmd = txns[i].cmd /\ txns'[i].state = txns[i].state
      BY <1>0, <1>4 DEF TxRows
    <2> QED
      BY <1>4, <2>1, NoneAssumption DEF BackoffElapses
  <1> QED
    BY <1>0, <1>1, <1>2, <1>3, <1>4, RowChange DEF Persisted

\* The invariant of single rows is inductive.
LEMMA NextFinal == TypeInv /\ RowInv /\ FinalInv /\ [Next]_vars => FinalInv'
  BY NextHeldRow, NextStagedRow, NextReplayAvailable DEF FinalInv

\* Before any transaction there is no row.
LEMMA InitFinal == Init => RowInv /\ FinalInv
  <1> SUFFICES ASSUME Init PROVE RowInv /\ FinalInv
    OBVIOUS
  <1>1. RowInv
    BY DEF Init, RowInv, IDsFresh, OwnRow, ClaimedRow, PendingAccepted, DecidedAccepted,
       StagedFromSnapshot, Persisted, Sessions, Directions
  <1>2. FinalInv
    BY DEF Init, FinalInv, HeldRow, StagedRow, ReplayAvailable, Persisted, Sessions
  <1> QED
    BY <1>1, <1>2

\* In every instance a stored result agrees with its row, so a replayed
\* request never ends in ErrReplayUnavailable, whichever of insertTransaction
\* and UpdatePendingReference wrote it.
THEOREM ReplaysAreAvailable == Spec => []ReplayAvailable
  <1>1. FinalInv => ReplayAvailable
    BY DEF FinalInv
  <1> QED
    BY <1>1, InitType, NextType, InitFinal, NextRows, NextFinal, PTL DEF Spec

\* In every instance a PROCESSED or REJECTED row never changes again, no row
\* changes its command, and a pending one moves only along Transition: claims
\* exclude each other and a request commits only a row of its own.
THEOREM TerminalRowsAreFinal == Spec => TerminalIsFinal
  <1>1. TypeInv /\ RowInv /\ FinalInv /\ [Next]_vars =>
          [\A i \in Persisted :
             /\ txns'[i] # None /\ txns'[i].cmd = txns[i].cmd
             /\ txns'[i].state = txns[i].state \/ Transition(txns[i].state, txns'[i].state)
             /\ txns[i].state # "PENDING_REFERENCE" => txns'[i] = txns[i]]_vars
    <2> SUFFICES ASSUME TypeInv, RowInv, FinalInv, [Next]_vars, NEW i \in Persisted
                 PROVE  /\ txns'[i] # None /\ txns'[i].cmd = txns[i].cmd
                        /\ \/ txns'[i].state = txns[i].state
                           \/ Transition(txns[i].state, txns'[i].state)
                        /\ txns[i].state # "PENDING_REFERENCE" => txns'[i] = txns[i]
      OBVIOUS
    <2> QED
      BY RowsLast DEF FinalInv, Persisted, Transition
  <1> QED
    BY <1>1, InitType, NextType, InitFinal, NextRows, NextFinal, PTL DEF Spec, TerminalIsFinal

-----------------------------------------------------------------------------
(* The unique constraints.                                                 *)

\* A clash does not depend on the order of the rows.
LEMMA ClashSymmetric ==
    ASSUME NEW a, NEW b, Clash(a, b)
    PROVE  Clash(b, a)
  BY DEF Clash, SameIdentity, SameReversal

\* A clash depends on commands and states only.
LEMMA ClashSame ==
    ASSUME NEW a, NEW b, NEW c, NEW d, a.cmd = c.cmd, a.state = c.state,
           b.cmd = d.cmd, b.state = d.state, Clash(a, b)
    PROVE  Clash(c, d)
  BY DEF Clash, SameIdentity, SameReversal

\* A step that keeps every command and state and stages nothing.
LEMMA UniqueKept ==
    ASSUME UniqueRows, Persisted' = Persisted,
           \A i \in Persisted : txns'[i].cmd = txns[i].cmd /\ txns'[i].state = txns[i].state,
           \A t \in Sessions :
              \/ staged'[t] = None
              \/ staged'[t] = staged[t] /\ uid'[t] = uid[t]
    PROVE  UniqueRows'
  <1>1. ASSUME NEW i \in Persisted', NEW j \in Persisted', i # j
        PROVE  ~Clash(txns'[i], txns'[j])
    BY <1>1, ClashSame DEF UniqueRows
  <1>2. ASSUME NEW s \in Sessions, staged'[s] # None, NEW i \in Persisted' \ {uid'[s]}
        PROVE  ~Clash(staged'[s].row, txns'[i])
    BY <1>2, ClashSame DEF UniqueRows
  <1>3. ASSUME NEW s \in Sessions, staged'[s] # None, NEW t \in Sessions \ {s}, staged'[t] # None
        PROVE  ~Clash(staged'[s].row, staged'[t].row)
    BY <1>3 DEF UniqueRows
  <1> QED
    BY <1>1, <1>2, <1>3 DEF UniqueRows, Clash, SameIdentity, SameReversal

\* An insert or update that the unique indexes let through.
LEMMA WriteUnique ==
    ASSUME TypeInv, UniqueRows, NEW s \in Sessions, Write(s)
    PROVE  UniqueRows'
  <1>1. /\ txns' = txns /\ uid' = uid /\ pc[s] = "write"
        /\ staged' = [staged EXCEPT ![s] = WritesOf(s)] /\ WritesOf(s).row = RowOf(s)
    BY DEF Write, WritesOf, tables
  <1>2. /\ staged'[s].row = RowOf(s)
        /\ \A t \in Sessions : t # s => staged'[t] = staged[t]
    BY <1>1 DEF TypeInv, TypeOK, LocalType
  <1>3. \A i \in Persisted \ {uid[s]} : ~Clash(RowOf(s), txns[i])
    BY DEF Write, IdentityTaken, ReversalTaken, Clash
  <1>4. \A t \in Sessions : t # s /\ staged[t] # None => ~Clash(RowOf(s), staged[t].row)
    BY <1>1 DEF Write, Granted, WaitsFor, WaitsForWriter, Clash
  <1>5. \A t \in Sessions : t # s /\ staged[t] # None => ~Clash(staged[t].row, RowOf(s))
    BY <1>4, ClashSymmetric
  <1>6. Persisted' = Persisted
    BY <1>1 DEF Persisted
  <1>7. \A i, j \in Persisted' : i # j => ~Clash(txns[i], txns[j])
    BY <1>6 DEF UniqueRows
  <1>8. ASSUME NEW t \in Sessions, staged'[t] # None
        PROVE  /\ \A i \in Persisted \ {uid[t]} : ~Clash(staged'[t].row, txns[i])
               /\ \A u \in Sessions \ {t} :
                    staged'[u] # None => ~Clash(staged'[t].row, staged'[u].row)
    <2>1. CASE t = s
      BY <1>2, <1>3, <1>4, <2>1
    <2>2. CASE t # s
      BY <1>2, <1>5, <1>8, <2>2 DEF UniqueRows
    <2> QED
      BY <2>1, <2>2
  <1> QED
    BY <1>1, <1>6, <1>7, <1>8 DEF UniqueRows, Clash, SameIdentity, SameReversal

\* The committed row was checked against every committed and staged one.
LEMMA CommitUnique ==
    ASSUME TypeInv, RowInv, HeldRow, UniqueRows, NEW s \in Sessions, Commit(s),
           staged[s] # None
    PROVE  UniqueRows'
  <1> DEFINE row == staged[s].row
  <1>1. /\ txns' = [txns EXCEPT ![uid[s]] = row] /\ pc[s] = "commit"
        /\ row \in TxRows /\ row # None /\ uid[s] \in TxIDs
    BY NoneAssumption DEF Commit, TypeInv, TypeOK, LocalType, SessionShape, Shape, StagedWrites
  <1>2. /\ staged'[s] = None
        /\ \A t \in Sessions : t # s => staged'[t] = staged[t] /\ uid'[t] = uid[t]
    BY DEF Commit, EndTx, TypeInv, TypeOK, LocalType
  <1>3. /\ txns'[uid[s]] = row
        /\ \A i \in TxIDs : i # uid[s] => txns'[i] = txns[i]
        /\ Persisted' = Persisted \cup {uid[s]}
    BY <1>1 DEF Persisted, TypeInv, TypeOK, TablesType
  <1> HIDE DEF row
  <1>4. \A i \in Persisted \ {uid[s]} : ~Clash(row, txns[i])
    BY DEF UniqueRows, row
  <1>5. \A i \in Persisted \ {uid[s]} : ~Clash(txns[i], row)
    BY <1>4, ClashSymmetric
  <1>6. ASSUME NEW i \in Persisted', NEW j \in Persisted', i # j
        PROVE  ~Clash(txns'[i], txns'[j])
    BY <1>3, <1>4, <1>5, <1>6 DEF UniqueRows, Persisted
  <1>7. ASSUME NEW t \in Sessions, staged'[t] # None
        PROVE  /\ \A i \in Persisted' \ {uid'[t]} : ~Clash(staged'[t].row, txns'[i])
               /\ \A u \in Sessions \ {t} :
                    staged'[u] # None => ~Clash(staged'[t].row, staged'[u].row)
    <2>1. t # s /\ staged[t] # None /\ staged'[t] = staged[t] /\ uid'[t] = uid[t]
      BY <1>2, <1>7
    <2>2. ~Clash(staged[t].row, row)
      BY <2>1 DEF UniqueRows, row
    <2>3. ASSUME NEW i \in Persisted' \ {uid[t]} PROVE ~Clash(staged[t].row, txns'[i])
      <3>1. CASE i = uid[s]
        BY <1>3, <2>2, <3>1
      <3>2. CASE i # uid[s]
        BY <1>3, <2>1, <3>2 DEF UniqueRows, Persisted
      <3> QED
        BY <3>1, <3>2
    <2>4. ASSUME NEW u \in Sessions \ {t}, staged'[u] # None
          PROVE  ~Clash(staged[t].row, staged'[u].row)
      BY <1>2, <2>1, <2>4 DEF UniqueRows
    <2> QED
      BY <2>1, <2>3, <2>4
  <1> QED
    BY <1>6, <1>7 DEF UniqueRows, Clash, SameIdentity, SameReversal

\* The opening transaction has an identity nobody has named.
LEMMA OpenWalletUnique ==
    ASSUME TypeInv, RowInv, HeldRow, StagedRow, UniqueRows,
           NEW o \in OpenRequests, OpenWallet(o), o.amount # 0
    PROVE  UniqueRows'
  <1> DEFINE i == issued + 1
             row == OpeningRow(o, i)
  <1>1. txns' = [txns EXCEPT ![i] = row] /\ UNCHANGED <<staged, uid>> /\ i \in TxIDs
    BY BoundsAssumption
    DEF OpenWallet, OpeningRow, local, TypeInv, TypeOK, CountersType, TxIDs
  <1>2. row.cmd = OpeningCommand(o) /\ row.state = "PROCESSED" /\ row.cmd.ref = NoReference
    BY DEF OpeningRow, OpeningCommand
  <1> HIDE DEF i, row
  <1>3. /\ txns'[i] = row /\ \A j \in TxIDs : j # i => txns'[j] = txns[j]
        /\ Persisted' \subseteq Persisted \cup {i}
    BY <1>1 DEF Persisted, TypeInv, TypeOK, TablesType
  <1>4. ASSUME NEW r, r.cmd.prov = "internal" =>
                        OpeningExternalID[o.wallet] \notin {r.cmd.ext, r.cmd.key, r.cmd.ref}
        PROVE  ~Clash(r, row) /\ ~Clash(row, r)
    BY <1>2, <1>4 DEF Clash, SameIdentity, SameReversal, OpeningCommand
  <1>5. \A j \in Persisted : ~Clash(txns[j], row) /\ ~Clash(row, txns[j])
    BY <1>4 DEF OpenWallet, FreshOpening, OpeningCommand
  <1>6. ASSUME NEW t \in Sessions, staged[t] # None
        PROVE  ~Clash(staged[t].row, row) /\ ~Clash(row, staged[t].row)
    <2>1. staged[t].row.cmd = req[t] /\ pc[t] # "idle"
      BY <1>6 DEF RowInv, StagedFromSnapshot, TypeInv, SessionShape, Shape
    <2>2. req[t].prov = "internal" =>
            OpeningExternalID[o.wallet] \notin {req[t].ext, req[t].key, req[t].ref}
      BY <2>1 DEF OpenWallet, FreshOpening, OpeningCommand
    <2> QED
      BY <1>4, <2>1, <2>2
  <1>7. ASSUME NEW j \in Persisted', NEW k \in Persisted', j # k
        PROVE  ~Clash(txns'[j], txns'[k])
    BY <1>3, <1>5, <1>7 DEF UniqueRows, Persisted
  <1>8. ASSUME NEW t \in Sessions, staged[t] # None
        PROVE  /\ \A j \in Persisted' \ {uid[t]} : ~Clash(staged[t].row, txns'[j])
               /\ \A u \in Sessions \ {t} :
                    staged[u] # None => ~Clash(staged[t].row, staged[u].row)
    <2>1. ASSUME NEW j \in Persisted' \ {uid[t]} PROVE ~Clash(staged[t].row, txns'[j])
      BY <1>3, <1>6, <1>8, <2>1 DEF UniqueRows, Persisted
    <2> QED
      BY <1>8, <2>1 DEF UniqueRows
  <1> QED
    BY <1>1, <1>7, <1>8 DEF UniqueRows, Clash, SameIdentity, SameReversal

\* Only Write stages.
LEMMA OnlyWriteStages ==
    ASSUME TypeInv, NEW s \in Sessions, Acts(s), ~Write(s), NEW t \in Sessions
    PROVE  \/ staged'[t] = None
           \/ staged'[t] = staged[t] /\ uid'[t] = uid[t]
  <1>1. CASE t # s
    BY <1>1, OthersStand DEF Stands
  <1>2. CASE t = s /\ EndTx(s)
    BY <1>2 DEF EndTx, TypeInv, TypeOK, LocalType
  <1>3. CASE t = s /\ ~EndTx(s) /\ pc[s] = "idle"
    BY <1>3
    DEF Acts, Step, Abort, InsertInbox, LockReferenceIdentity, Lookup, LockWallet, Relookup,
        Decide, ReadReference, IdentityRace, ConflictAtWrite, WriteFails, Resolve, Commit,
        BeginProcess, BeginMessage, Begin, ClaimPending, TypeInv, SessionShape, Shape
  <1>4. CASE t = s /\ ~EndTx(s) /\ pc[s] # "idle"
    BY <1>4
    DEF Acts, Step, Abort, InsertInbox, LockReferenceIdentity, Lookup, LockWallet, Relookup,
        Decide, ReadReference, IdentityRace, ConflictAtWrite, WriteFails, Resolve, Commit,
        AnswerExisting, BeginProcess, BeginMessage, Begin, ClaimPending, local
  <1> QED
    BY <1>1, <1>2, <1>3, <1>4

\* Uniqueness is inductive.
LEMMA NextUnique ==
    TypeInv /\ RowInv /\ FinalInv /\ UniqueRows /\ [Next]_vars => UniqueRows'
  <1> SUFFICES ASSUME TypeInv, RowInv, FinalInv, UniqueRows, [Next]_vars PROVE UniqueRows'
    OBVIOUS
  <1>1. ASSUME NEW s \in Sessions, Write(s) PROVE UniqueRows'
    BY <1>1, WriteUnique
  <1>2. ASSUME NEW s \in Sessions, Commit(s), staged[s] # None PROVE UniqueRows'
    BY <1>2, CommitUnique DEF FinalInv
  <1>3. ASSUME NEW s \in Sessions, Acts(s), ~Write(s), ~(Commit(s) /\ staged[s] # None)
        PROVE  UniqueRows'
    <2>1. txns' = txns
      BY <1>3, OnlyCommitWrites DEF Commit, tables
    <2>2. Persisted' = Persisted
      BY <2>1 DEF Persisted
    <2> QED
      BY <1>3, <2>1, <2>2, OnlyWriteStages, UniqueKept
  <1>4. ASSUME NEW o \in OpenRequests, OpenWallet(o), o.amount # 0 PROVE UniqueRows'
    BY <1>4, OpenWalletUnique DEF FinalInv
  <1>5. ASSUME txns' = txns, \A t \in Sessions : Stands(t) PROVE UniqueRows'
    <2>1. Persisted' = Persisted
      BY <1>5 DEF Persisted
    <2> QED
      BY <1>5, <2>1, UniqueKept DEF Stands
  <1>6. ASSUME NEW o \in OpenRequests, OpenWallet(o), o.amount = 0 PROVE UniqueRows'
    BY <1>5, <1>6, TableStepStands DEF OpenWallet
  <1>7. ASSUME NEW i \in TxIDs, BackoffElapses(i) PROVE UniqueRows'
    <2>1. txns[i] \in TxRows /\ txns' = [txns EXCEPT ![i] = [txns[i] EXCEPT !.due = TRUE]]
      BY <1>7 DEF BackoffElapses, Persisted, TypeInv, TypeOK, TablesType
    <2>2. /\ [txns[i] EXCEPT !.due = TRUE] \in TxRows
          /\ [txns[i] EXCEPT !.due = TRUE].cmd = txns[i].cmd
          /\ [txns[i] EXCEPT !.due = TRUE].state = txns[i].state
      BY <2>1 DEF TxRows
    <2>3. /\ txns'[i] # None /\ txns'[i].cmd = txns[i].cmd /\ txns'[i].state = txns[i].state
          /\ txns[i] # None
          /\ \A j \in TxIDs : j # i => txns'[j] = txns[j]
      BY <2>1, <2>2, NoneAssumption DEF TypeInv, TypeOK, TablesType
    <2>4. Persisted' = Persisted
      BY <2>3 DEF Persisted
    <2>5. \A j \in Persisted : txns'[j].cmd = txns[j].cmd /\ txns'[j].state = txns[j].state
      BY <2>3 DEF Persisted
    <2> QED
      BY <1>7, <2>4, <2>5, TableStepStands, UniqueKept DEF Stands
  <1>8. CASE UNCHANGED vars
    BY <1>5, <1>8, TableStepStands DEF vars, tables
  <1> QED
    BY <1>1, <1>2, <1>3, <1>4, <1>6, <1>7, <1>8, OneMoves

\* In every instance a provider's key and external id name at most one
\* committed transaction: insertTransaction meets the unique constraints,
\* uncommitted rows included, and an opening has a fresh identity.
THEOREM IdentitiesAreUnique == Spec => []OneRowPerIdentity
  <1>1. Init => UniqueRows
    BY DEF Init, UniqueRows, Persisted
  <1>2. UniqueRows => OneRowPerIdentity
    BY DEF UniqueRows, OneRowPerIdentity, Clash, SameIdentity
  <1> QED
    BY <1>1, <1>2, InitType, NextType, InitFinal, NextRows, NextFinal, NextUnique, PTL DEF Spec

-----------------------------------------------------------------------------
(* The advisory lock.                                                      *)

LockPCs == {"lookup", "reference", "wallet", "relookup", "decide", "write", "commit"}

\* pg_advisory_xact_lock: the identity has one holder at a time.
LEMMA NextIdentityHolder ==
    TypeInv /\ OneIdentityHolder /\ [Next]_vars => OneIdentityHolder'
  <1> SUFFICES ASSUME TypeInv, OneIdentityHolder, [Next]_vars PROVE OneIdentityHolder'
    OBVIOUS
  <1> DEFINE Keeps(t) == pc'[t] \in LockPCs => pc[t] \in LockPCs /\ req'[t] = req[t]
  <1>1. ASSUME \A t \in Sessions : Keeps(t) PROVE OneIdentityHolder'
    BY <1>1 DEF OneIdentityHolder, HoldsIdentity, IdentityOf, LockPCs
  <1>2. ASSUME NEW t \in Sessions, Stands(t) PROVE Keeps(t)
    BY <1>2 DEF Stands
  <1>3. ASSUME NEW s \in Sessions, LockReferenceIdentity(s) PROVE OneIdentityHolder'
    <2>1. UNCHANGED req /\ pc[s] = "identity"
      BY <1>3 DEF LockReferenceIdentity, local
    <2>2. \A t \in Sessions : t # s => pc'[t] = pc[t]
      BY <1>3 DEF LockReferenceIdentity, Goto, TypeInv, TypeOK, LocalType
    <2>3. \A t \in Sessions : t # s => ~HoldsIdentity(t, IdentityOf(s))
      BY <1>3 DEF LockReferenceIdentity, Granted, WaitsFor, WaitsForIdentity
    <2> QED
      BY <2>1, <2>2, <2>3 DEF OneIdentityHolder, HoldsIdentity, IdentityOf
  <1>4. ASSUME NEW s \in Sessions, Acts(s), ~LockReferenceIdentity(s) PROVE OneIdentityHolder'
    <2>1. Keeps(s)
      <3>1. CASE EndTx(s)
        BY <3>1 DEF EndTx, Goto, TypeInv, TypeOK, LocalType, LockPCs
      <3>2. CASE ~EndTx(s) /\ (Step(s) \/ Abort(s))
        BY <1>4, <3>2, SessionsAssumption
        DEF Step, Abort, InsertInbox, Lookup, LockWallet, Relookup, Decide, ReadReference, Write,
            IdentityRace, ConflictAtWrite, WriteFails, Resolve, Commit, AnswerExisting, Goto,
            local, LockPCs, TypeInv, TypeOK, LocalType, SessionShape, Shape
      <3>3. CASE ~(Step(s) \/ Abort(s))
        BY <1>4, <3>3
        DEF Acts, BeginProcess, BeginMessage, Begin, ClaimPending, Goto, LockPCs, TypeInv,
            TypeOK, LocalType
      <3> QED
        BY <3>1, <3>2, <3>3
    <2> QED
      BY <1>1, <1>2, <1>4, <2>1, OthersStand
  <1>5. ASSUME \A t \in Sessions : Stands(t) PROVE OneIdentityHolder'
    BY <1>1, <1>2, <1>5
  <1> QED
    BY <1>3, <1>4, <1>5, OneMoves, TableStepStands

\* A row that appears belongs to a request that holds its identity's lock, or
\* opens a wallet.
LEMMA NewRow ==
    ASSUME TypeInv, RowInv, HeldRow, StagedRow, [Next]_vars,
           NEW i \in Persisted', i \notin Persisted
    PROVE  \/ \E s \in Sessions \ WorkerSessions :
                /\ CommitsRow(s, i) /\ txns'[i].cmd = req[s] /\ pc[s] = "commit"
           \/ \E o \in OpenRequests : OpenWallet(o) /\ txns'[i].cmd = OpeningCommand(o)
  <1>1. i \in TxIDs /\ txns[i] = None /\ txns'[i] # None
    BY DEF Persisted
  <1>2. ASSUME NEW s \in Sessions, CommitsRow(s, i)
        PROVE  s \notin WorkerSessions /\ txns'[i].cmd = req[s] /\ pc[s] = "commit"
    BY <1>1, <1>2 DEF CommitsRow, Commit, RowInv, ClaimedRow
  <1>3. ASSUME NEW o \in OpenRequests, OpensRow(o, i)
        PROVE  OpenWallet(o) /\ txns'[i].cmd = OpeningCommand(o)
    BY <1>3 DEF OpensRow, OpeningRow
  <1>4. ~BackoffElapses(i)
    BY <1>1 DEF BackoffElapses, Persisted
  <1> QED
    BY <1>1, <1>2, <1>3, <1>4, RowChange

\* Nobody commits a twin of a request, or the reference of a worker, while
\* it holds the advisory lock on that identity.
LEMMA NobodyEnters ==
    ASSUME TypeInv, RowInv, HeldRow, StagedRow, OneIdentityHolder, [Next]_vars,
           NEW t \in Sessions, pc[t] \in LockPCs, pc'[t] # "idle",
           NEW i \in Persisted', i \notin Persisted
    PROVE  <<txns'[i].cmd.prov, txns'[i].cmd.ext>> # IdentityOf(t)
  <1>1. ASSUME NEW s \in Sessions \ WorkerSessions, CommitsRow(s, i), txns'[i].cmd = req[s],
               pc[s] = "commit"
        PROVE  <<txns'[i].cmd.prov, txns'[i].cmd.ext>> # IdentityOf(t)
    <2>1. s # t
      BY <1>1 DEF CommitsRow, Commit, EndTx, Goto, TypeInv, TypeOK, LocalType
    <2>2. IdentityOf(s) = <<req[s].prov, req[s].ext>>
      BY DEF IdentityOf
    <2>3. IdentityOf(s) # IdentityOf(t)
      BY <1>1, <2>1 DEF OneIdentityHolder, HoldsIdentity, LockPCs
    <2> QED
      BY <1>1, <2>2, <2>3
  <1>2. ASSUME NEW o \in OpenRequests, OpenWallet(o), txns'[i].cmd = OpeningCommand(o)
        PROVE  <<txns'[i].cmd.prov, txns'[i].cmd.ext>> # IdentityOf(t)
    <2>1. pc[t] # "idle"
      BY DEF LockPCs
    <2> QED
      BY <1>2, <2>1 DEF OpenWallet, FreshOpening, OpeningCommand, IdentityOf
  <1> QED
    BY <1>1, <1>2, NewRow

\* The lookup is not outdated by the time its request writes.
LEMMA NextNoTwin ==
    ASSUME TypeInv, RowInv, HeldRow, StagedRow, OneIdentityHolder, NoTwin, [Next]_vars
    PROVE  NoTwin'
  <1> SUFFICES ASSUME NEW t \in Sessions \ WorkerSessions,
                      pc'[t] \in {"wallet", "relookup", "decide", "write"},
                      NEW i \in Persisted'
               PROVE  txns'[i].cmd # req'[t]
    BY DEF NoTwin
  <1>1. /\ pc[t] \in {"lookup", "wallet", "relookup", "decide", "write"}
        /\ req'[t] = req[t] /\ pc'[t] # "idle" /\ pc[t] \in LockPCs
        /\ pc[t] = "lookup" => Lookup(t) /\ FindExisting(t) = {} /\ txns' = txns
    <2>1. CASE Stands(t)
      BY <2>1 DEF Stands, LockPCs
    <2>2. CASE Step(t) \/ Abort(t)
      <3>1. ~EndTx(t)
        BY DEF EndTx, Goto, TypeInv, TypeOK, LocalType
      <3> QED
        BY <2>2, <3>1, SessionsAssumption
        DEF Step, Abort, InsertInbox, LockReferenceIdentity, Lookup, LockWallet, Relookup,
            Decide, ReadReference, Write, IdentityRace, ConflictAtWrite, WriteFails, Resolve,
            Commit, AnswerExisting, Goto, local, tables, TypeInv, TypeOK, LocalType, SessionShape,
            Shape, LockPCs
    <2>3. CASE Acts(t) /\ ~(Step(t) \/ Abort(t))
      BY <2>3
      DEF Acts, BeginProcess, BeginMessage, Begin, ClaimPending, Goto, TypeInv, TypeOK, LocalType
    <2> QED
      BY <2>1, <2>2, <2>3, OneMoves, OthersStand, TableStepStands
  <1>2. CASE i \notin Persisted
    <2>1. IdentityOf(t) = <<req[t].prov, req[t].ext>>
      BY DEF IdentityOf
    <2> QED
      BY <1>1, <1>2, <2>1, NobodyEnters
  <1>3. CASE i \in Persisted
    <2>1. txns'[i].cmd = txns[i].cmd
      BY <1>3, RowsLast
    <2>2. CASE pc[t] = "lookup"
      BY <1>1, <1>3, <2>1, <2>2 DEF FindExisting, FindByExternal, FindByIdempotency
    <2>3. CASE pc[t] # "lookup"
      BY <1>1, <1>3, <2>1, <2>3 DEF NoTwin
    <2> QED
      BY <2>2, <2>3
  <1> QED
    BY <1>2, <1>3

\* A worker's reference stays absent from the read to the commit.
LEMMA NextReferenceAbsent ==
    ASSUME TypeInv, RowInv, HeldRow, StagedRow, OneIdentityHolder, ReferenceAbsent, [Next]_vars
    PROVE  ReferenceAbsent'
  <1> SUFFICES ASSUME NEW t \in WorkerSessions, verdict'[t] = "REFERENCE_NOT_FOUND",
                      NEW i \in Persisted'
               PROVE  ~(txns'[i].cmd.prov = req'[t].prov /\ txns'[i].cmd.ext = req'[t].ref)
    BY DEF ReferenceAbsent, FindByExternal
  <1>0. t \in Sessions
    BY DEF Sessions
  <1>1. /\ req'[t] = req[t] /\ pc'[t] # "idle" /\ pc[t] \in LockPCs
        /\ \/ verdict[t] = "REFERENCE_NOT_FOUND"
           \/ /\ PendingDecision(uid[t]) = "REFERENCE_NOT_FOUND" /\ txns' = txns
              /\ pc[t] = "reference"
    <2>1. verdict[t] # "REFERENCE_NOT_FOUND" \/ pc[t] \in LockPCs
      BY <1>0, SessionsAssumption DEF TypeInv, TypeOK, LocalType, PCs, SessionShape, Shape, LockPCs
    <2>2. CASE Stands(t)
      BY <2>1, <2>2 DEF Stands, LockPCs
    <2>3. CASE Step(t) \/ Abort(t)
      <3>1. ~EndTx(t)
        BY <1>0 DEF EndTx, TypeInv, TypeOK, LocalType
      <3> QED
        BY <1>0, <2>1, <2>3, <3>1, SessionsAssumption
        DEF Step, Abort, InsertInbox, LockReferenceIdentity, Lookup, LockWallet, Relookup,
            Decide, ReadReference, Write, IdentityRace, ConflictAtWrite, WriteFails, Resolve,
            Commit, AnswerExisting, Goto, local, tables, TypeInv, TypeOK, LocalType, SessionShape,
            Shape, LockPCs
    <2>4. CASE Acts(t) /\ ~(Step(t) \/ Abort(t))
      BY <1>0, <2>4
      DEF Acts, BeginProcess, BeginMessage, Begin, ClaimPending, TypeInv, SessionShape, Shape
    <2> QED
      BY <1>0, <2>2, <2>3, <2>4, OneMoves, OthersStand, TableStepStands
  <1>2. CASE i \notin Persisted
    <2>1. IdentityOf(t) = <<req[t].prov, req[t].ref>>
      BY DEF IdentityOf
    <2> QED
      BY <1>0, <1>1, <1>2, <2>1, NobodyEnters
  <1>3. CASE i \in Persisted
    <2>1. txns'[i].cmd = txns[i].cmd
      BY <1>3, RowsLast
    <2>2. CASE verdict[t] = "REFERENCE_NOT_FOUND"
      BY <1>1, <1>3, <2>1, <2>2 DEF ReferenceAbsent, FindByExternal
    <2>3. CASE verdict[t] # "REFERENCE_NOT_FOUND"
      <3>1. txns[uid[t]].cmd = req[t]
        BY <1>1 DEF LockPCs, RowInv, ClaimedRow
      <3>2. FindByExternal(req[t].prov, req[t].ref) = {}
        BY <1>1, <2>3, <3>1 DEF PendingDecision, Advance, DirectionOf
      <3> QED
        BY <1>1, <1>3, <2>1, <3>2 DEF FindByExternal
    <2> QED
      BY <2>2, <2>3
  <1> QED
    BY <1>2, <1>3

-----------------------------------------------------------------------------
(* Lost races, inbox rows and conflicts.                                   *)

\* Only rescheduling keeps the old row; every other write carries the command.
LEMMA RequestRow ==
    ASSUME TypeInv, NEW s \in Sessions \ WorkerSessions, pc[s] = "write"
    PROVE  /\ RowOf(s).cmd = req[s] /\ verdict[s] # "RETRY"
           /\ RowOf(s).state = StateAfter(req[s], verdict[s], snap[s])
  <1>1. verdict[s] # "RETRY"
    BY DEF TypeInv, SessionShape, Shape
  <1> QED
    BY <1>1 DEF RowOf

\* Key and canonical payload determine the command.
LEMMA PayloadIdentifies ==
    ASSUME NEW c \in CommandSet, NEW d \in CommandSet, c.key = d.key,
           PayloadHash(c) = PayloadHash(d)
    PROVE  c = d
  <1>1. /\ PayloadHash(c).prov = c.prov /\ PayloadHash(c).ext = c.ext
        /\ PayloadHash(c).wallet = c.wallet /\ PayloadHash(c).player = c.player
        /\ PayloadHash(c).round = c.round /\ PayloadHash(c).type = c.type
        /\ PayloadHash(c).amount = c.amount /\ PayloadHash(c).currency = c.currency
        /\ PayloadHash(c).ref = c.ref
    BY DEF PayloadHash, CommandSet
  <1>2. /\ PayloadHash(d).prov = d.prov /\ PayloadHash(d).ext = d.ext
        /\ PayloadHash(d).wallet = d.wallet /\ PayloadHash(d).player = d.player
        /\ PayloadHash(d).round = d.round /\ PayloadHash(d).type = d.type
        /\ PayloadHash(d).amount = d.amount /\ PayloadHash(d).currency = d.currency
        /\ PayloadHash(d).ref = d.ref
    BY DEF PayloadHash, CommandSet
  <1> QED
    BY <1>1, <1>2 DEF CommandSet

\* A request that goes to its second transaction lost to a committed row.
LEMMA NextRaceLost ==
    ASSUME TypeInv, RowInv, HeldRow, StagedRow, RaceLost, [Next]_vars
    PROVE  RaceLost'
  <1> SUFFICES ASSUME NEW t \in Sessions, pc'[t] = "resolve"
               PROVE  \E i \in Persisted' : /\ txns'[i].cmd.prov = req'[t].prov
                                            /\ \/ txns'[i].cmd.ext = req'[t].ext
                                               \/ txns'[i].cmd.key = req'[t].key
    BY DEF RaceLost
  <1>1. /\ req'[t] = req[t]
        /\ pc[t] = "resolve" \/ IdentityRace(t)
    <2>1. CASE Stands(t)
      BY <2>1 DEF Stands
    <2>2. CASE Acts(t)
      <3>1. ~EndTx(t)
        BY DEF EndTx, Goto, TypeInv, TypeOK, LocalType
      <3> QED
        BY <2>2, <3>1
        DEF Acts, Step, Abort, InsertInbox, LockReferenceIdentity, Lookup, LockWallet, Relookup,
            Decide, ReadReference, Write, IdentityRace, ConflictAtWrite, WriteFails, Resolve,
            Commit, AnswerExisting, BeginProcess, BeginMessage, Begin, ClaimPending, Goto, local,
            TypeInv, TypeOK, LocalType
    <2> QED
      BY <2>1, <2>2, OneMoves, OthersStand, TableStepStands
  <1>2. \E i \in Persisted : /\ txns[i].cmd.prov = req[t].prov
                             /\ \/ txns[i].cmd.ext = req[t].ext
                                \/ txns[i].cmd.key = req[t].key
    <2>1. CASE pc[t] = "resolve"
      BY <2>1 DEF RaceLost
    <2>2. CASE IdentityRace(t)
      <3>1. t \notin WorkerSessions /\ pc[t] = "write" /\ IdentityTaken(t)
        BY <2>2, SessionsAssumption DEF IdentityRace
      <3> QED
        BY <3>1, RequestRow DEF IdentityTaken, SameIdentity
    <2> QED
      BY <1>1, <2>1, <2>2
  <1> QED
    BY <1>1, <1>2, RowsLast

\* A message commits without writing only as a replay.
LEMMA NextReplayedMessage ==
    ASSUME TypeInv, RowInv, HeldRow, StagedRow, ReplayedMessage, [Next]_vars
    PROVE  ReplayedMessage'
  <1> SUFFICES ASSUME NEW t \in ConsumerSessions, pc'[t] = "commit", staged'[t] = None
               PROVE  \E i \in Persisted' : PayloadHash(txns'[i].cmd) = PayloadHash(req'[t])
    BY DEF ReplayedMessage, PayloadHash
  <1>0. t \in Sessions
    BY DEF Sessions
  <1>1. /\ req'[t] = req[t]
        /\ (pc[t] = "commit" /\ staged[t] = None) \/ IsReplay(t)
    <2>1. CASE Stands(t)
      BY <2>1 DEF Stands
    <2>2. CASE Acts(t)
      <3>1. ~EndTx(t)
        BY <1>0 DEF EndTx, Goto, TypeInv, TypeOK, LocalType
      <3>2. ~Write(t)
        <4>1. ASSUME Write(t) PROVE FALSE
          <5>1. staged'[t] = WritesOf(t) /\ pc[t] = "write"
            BY <1>0, <4>1 DEF Write, TypeInv, TypeOK, LocalType
          <5>2. WritesOf(t) \in StagedWrites
            BY <1>0, <5>1, WritesType
          <5> QED
            BY <5>1, <5>2, NoneAssumption
        <4> QED
          BY <4>1
      <3> QED
        BY <1>0, <2>2, <3>1, <3>2
        DEF Acts, Step, Abort, InsertInbox, LockReferenceIdentity, Lookup, LockWallet, Relookup,
            Decide, ReadReference, IdentityRace, ConflictAtWrite, WriteFails, Resolve,
            Commit, AnswerExisting, BeginProcess, BeginMessage, Begin, ClaimPending, Goto, local,
            TypeInv, TypeOK, LocalType
    <2> QED
      BY <1>0, <2>1, <2>2, OneMoves, OthersStand, TableStepStands
  <1>2. PICK i \in Persisted : PayloadHash(txns[i].cmd) = PayloadHash(req[t])
    <2>1. CASE pc[t] = "commit" /\ staged[t] = None
      BY <2>1 DEF ReplayedMessage
    <2>2. CASE IsReplay(t)
      BY <2>2 DEF IsReplay, FindExisting, FindByIdempotency, FindByExternal
    <2> QED
      BY <1>1, <2>1, <2>2
  <1>3. i \in Persisted' /\ txns'[i].cmd = txns[i].cmd
    BY RowsLast
  <1> QED
    BY <1>1, <1>2, <1>3

\* An inbox row is committed with, or after, the row of its command.
LEMMA NextInbox ==
    ASSUME TypeInv, RowInv, HeldRow, StagedRow, ReplayedMessage, InboxAtomic, [Next]_vars
    PROVE  InboxAtomic'
  <1> SUFFICES ASSUME NEW m \in MessageIDs, inbox'[m] # None
               PROVE  \E i \in Persisted' : PayloadHash(txns'[i].cmd) = inbox'[m]
    BY DEF InboxAtomic, PayloadHash
  <1>1. CASE inbox'[m] = inbox[m]
    <2>1. PICK i \in Persisted : PayloadHash(txns[i].cmd) = inbox[m]
      BY <1>1 DEF InboxAtomic
    <2>2. i \in Persisted' /\ txns'[i].cmd = txns[i].cmd
      BY RowsLast
    <2> QED
      BY <1>1, <2>1, <2>2
  <1>2. CASE inbox'[m] # inbox[m]
    <2>1. PICK s \in Sessions : Commit(s)
      <3>1. inbox' # inbox
        BY <1>2
      <3> QED
        BY <3>1, OneMoves, OnlyCommitWrites DEF OpenWallet, BackoffElapses, vars, tables
    <2>2. s \in ConsumerSessions /\ inbox'[m] = PayloadHash(req[s]) /\ pc[s] = "commit"
      BY <1>2, <2>1 DEF Commit, TypeInv, TypeOK, TablesType
    <2>3. CASE staged[s] = None
      <3>1. PICK i \in Persisted : PayloadHash(txns[i].cmd) = PayloadHash(req[s])
        BY <2>2, <2>3 DEF ReplayedMessage
      <3>2. i \in Persisted' /\ txns'[i].cmd = txns[i].cmd
        BY RowsLast
      <3> QED
        BY <2>2, <3>1, <3>2
    <2>4. CASE staged[s] # None
      <3>1. /\ uid[s] \in TxIDs /\ txns'[uid[s]] = staged[s].row
            /\ staged[s].row \in TxRows /\ staged[s].row.cmd = req[s]
        BY <2>1, <2>2, <2>4
        DEF Commit, TypeInv, TypeOK, TablesType, LocalType, SessionShape, Shape, StagedWrites,
            RowInv, StagedFromSnapshot
      <3>2. uid[s] \in Persisted'
        BY <3>1, NoneAssumption DEF Persisted
      <3> QED
        BY <2>2, <3>1, <3>2
    <2> QED
      BY <2>3, <2>4
  <1> QED
    BY <1>1, <1>2

(* A committed row that command c really conflicts with.                   *)
RealConflict(c) ==
    \E i \in Persisted :
        LET d == txns[i].cmd
        IN  /\ d # c /\ d.prov = c.prov
            /\ \/ d.key = c.key
               \/ d.ext = c.ext
               \/ d.ref = c.ref /\ d.ref # NoReference /\ txns[i].state = "PROCESSED"

\* A conflict stays one.
LEMMA ConflictLasts ==
    ASSUME TypeInv, RowInv, HeldRow, StagedRow, [Next]_vars, NEW c, RealConflict(c)
    PROVE  RealConflict(c)'
  <1>1. PICK i \in Persisted :
          /\ txns[i].cmd # c /\ txns[i].cmd.prov = c.prov
          /\ \/ txns[i].cmd.key = c.key
             \/ txns[i].cmd.ext = c.ext
             \/ /\ txns[i].cmd.ref = c.ref /\ txns[i].cmd.ref # NoReference
                /\ txns[i].state = "PROCESSED"
    BY DEF RealConflict
  <1>2. /\ i \in Persisted' /\ txns'[i].cmd = txns[i].cmd
        /\ txns[i].state = "PROCESSED" => txns'[i].state = "PROCESSED"
    BY RowsLast
  <1> QED
    BY <1>1, <1>2 DEF RealConflict

\* An existing row that is not replayed is a real conflict.
LEMMA ExistingConflicts ==
    ASSUME TypeInv, RowInv, NEW s \in Sessions \ WorkerSessions, pc[s] # "idle",
           FindExisting(s) # {}, ~IsReplay(s)
    PROVE  RealConflict(req[s])
  <1>1. PICK i \in FindExisting(s) : TRUE
    OBVIOUS
  <1>2. uid[s] \notin Persisted
    BY DEF RowInv, OwnRow, Persisted
  <1>3. /\ i \in Persisted /\ txns[i].cmd.prov = req[s].prov
        /\ txns[i].cmd.key = req[s].key \/ txns[i].cmd.ext = req[s].ext
    BY <1>1, <1>2 DEF FindExisting, FindByIdempotency, FindByExternal
  <1>4. txns[i].cmd # req[s]
    BY <1>1 DEF IsReplay
  <1> QED
    BY <1>3, <1>4 DEF RealConflict

\* A unique violation at the write is a real conflict: the advisory lock has
\* kept twins out.
LEMMA WriteConflicts ==
    ASSUME TypeInv, RowInv, NoTwin, NEW s \in Sessions, ConflictAtWrite(s)
    PROVE  RealConflict(req[s])
  <1>1. /\ s \in Sessions \ WorkerSessions /\ pc[s] = "write"
        /\ IdentityTaken(s) \/ ReversalTaken(s)
    BY DEF ConflictAtWrite
  <1>2. PICK i \in Persisted : SameIdentity(RowOf(s), txns[i]) \/ SameReversal(RowOf(s), txns[i])
    BY <1>1 DEF IdentityTaken, ReversalTaken
  <1>3. RowOf(s).cmd = req[s]
    BY <1>1, RequestRow
  <1>4. txns[i].cmd # req[s]
    BY <1>1 DEF NoTwin
  <1> QED
    BY <1>2, <1>3, <1>4 DEF SameIdentity, SameReversal, RealConflict

\* Whoever is refused conflicts with a committed row.
LEMMA NextConflicts ==
    ASSUME TypeInv, RowInv, HeldRow, StagedRow, NoTwin, RaceLost, ConflictIsReal, [Next]_vars
    PROVE  ConflictIsReal'
  <1> SUFFICES ASSUME NEW c \in conflicts' PROVE RealConflict(c)'
    BY DEF ConflictIsReal, RealConflict
  <1>1. CASE c \in conflicts
    <2>1. RealConflict(c)
      BY <1>1 DEF ConflictIsReal, RealConflict
    <2> QED
      BY <2>1, ConflictLasts
  <1>2. CASE c \notin conflicts
    <2>1. PICK s \in Sessions : Acts(s) /\ conflicts' # conflicts
      BY <1>2, OneMoves DEF OpenWallet, BackoffElapses, vars, history
    <2>2. /\ c = req[s]
          /\ \/ Lookup(s) /\ FindExisting(s) # {} /\ ~IsReplay(s)
             \/ Relookup(s) /\ FindExisting(s) # {} /\ ~IsReplay(s)
             \/ Resolve(s) /\ ~IsReplay(s)
             \/ ConflictAtWrite(s)
      BY <1>2, <2>1
      DEF Acts, Step, Abort, InsertInbox, LockReferenceIdentity, Lookup, LockWallet, Relookup,
          Decide, ReadReference, Write, IdentityRace, ConflictAtWrite, WriteFails, Resolve,
          Commit, AnswerExisting, BeginProcess, BeginMessage, Begin, ClaimPending, history
    <2>3. CASE ConflictAtWrite(s)
      BY <2>2, <2>3, WriteConflicts, ConflictLasts
    <2>4. CASE ~ConflictAtWrite(s)
      <3>1. pc[s] \in {"lookup", "relookup", "resolve"} /\ ~IsReplay(s)
        BY <2>2, <2>4 DEF Lookup, Relookup, Resolve
      <3>2. s \notin WorkerSessions /\ pc[s] # "idle"
        BY <3>1, SessionsAssumption DEF TypeInv, SessionShape, Shape
      <3>3. FindExisting(s) # {}
        <4>1. CASE pc[s] = "resolve"
          <5>1. PICK i \in Persisted : /\ txns[i].cmd.prov = req[s].prov
                                       /\ \/ txns[i].cmd.ext = req[s].ext
                                          \/ txns[i].cmd.key = req[s].key
            BY <4>1 DEF RaceLost
          <5> QED
            BY <5>1 DEF FindExisting, FindByIdempotency, FindByExternal
        <4>2. CASE pc[s] # "resolve"
          BY <2>2, <2>4, <4>2 DEF Resolve
        <4> QED
          BY <4>1, <4>2
      <3>4. RealConflict(req[s])
        BY <3>1, <3>2, <3>3, ExistingConflicts
      <3> QED
        BY <2>2, <3>4, ConflictLasts
    <2> QED
      BY <2>3, <2>4
  <1> QED
    BY <1>1, <1>2

-----------------------------------------------------------------------------
(* What HTTP clients are told.                                             *)

\* A replay finds exactly the row of its own command.
LEMMA ReplayFinds ==
    ASSUME TypeInv, RowInv, ReplayAvailable, UniqueRows,
           NEW s \in Sessions \ WorkerSessions, pc[s] # "idle", IsReplay(s)
    PROVE  \E i \in Persisted :
             /\ FindExisting(s) = {i} /\ txns[i].cmd = req[s]
             /\ txns[i].result.tx = i /\ txns[i].result.state = txns[i].state
  <1>1. PICK i \in FindExisting(s) :
          txns[i].cmd.key = req[s].key /\ PayloadHash(txns[i].cmd) = PayloadHash(req[s])
    BY DEF IsReplay
  <1>2. uid[s] \notin Persisted
    BY DEF RowInv, OwnRow, Persisted
  <1>3. /\ i \in Persisted
        /\ \A j \in FindExisting(s) :
             /\ j \in Persisted /\ txns[j].cmd.prov = req[s].prov
             /\ txns[j].cmd.key = req[s].key \/ txns[j].cmd.ext = req[s].ext
    BY <1>1, <1>2 DEF FindExisting, FindByIdempotency, FindByExternal
  <1>4. txns[i].cmd = req[s]
    <2>1. txns[i].cmd \in CommandSet /\ req[s] \in CommandSet
      BY <1>3 DEF Persisted, TypeInv, TypeOK, TablesType, TxRows, SessionShape, Shape
    <2> QED
      BY <1>1, <2>1, PayloadIdentifies
  <1>5. \A j \in FindExisting(s) : j = i
    BY <1>3, <1>4 DEF UniqueRows, Clash, SameIdentity
  <1> QED
    BY <1>1, <1>3, <1>4, <1>5 DEF ReplayAvailable, Replayable

\* A recorded result stays on record.
LEMMA ReplyLasts ==
    ASSUME TypeInv, RowInv, FinalInv, [Next]_vars, NEW r,
           r.result.tx \in Persisted, txns[r.result.tx].cmd = r.cmd,
           r.result.state # "PENDING_REFERENCE" => txns[r.result.tx].result = r.result
    PROVE  /\ r.result.tx \in Persisted' /\ txns'[r.result.tx].cmd = r.cmd
           /\ r.result.state # "PENDING_REFERENCE" => txns'[r.result.tx].result = r.result
  <1> DEFINE i == r.result.tx
  <1>1. /\ i \in Persisted' /\ txns'[i].cmd = txns[i].cmd
        /\ txns[i].state # "PENDING_REFERENCE" => txns'[i] = txns[i]
    BY RowsLast DEF FinalInv
  <1>2. txns[i].result.state = txns[i].state
    BY DEF FinalInv, ReplayAvailable, Replayable
  <1> QED
    BY <1>1, <1>2

\* Every answer is a result on record: replayed from it or committed with it.
LEMMA NextReplies ==
    ASSUME TypeInv, RowInv, FinalInv, UniqueRows, RepliesRecorded, [Next]_vars
    PROVE  RepliesRecorded'
  <1> SUFFICES ASSUME NEW r \in replies'
               PROVE  /\ r.result.tx \in Persisted' /\ txns'[r.result.tx].cmd = r.cmd
                      /\ r.result.state # "PENDING_REFERENCE" =>
                            txns'[r.result.tx].result = r.result
    BY DEF RepliesRecorded
  <1>1. CASE r \in replies
    BY <1>1, ReplyLasts DEF RepliesRecorded
  <1>2. CASE r \notin replies
    <2>1. PICK s \in Sessions : Acts(s) /\ replies' # replies
      BY <1>2, OneMoves DEF OpenWallet, BackoffElapses, vars, history
    <2>2. \/ Commit(s)
          \/ Lookup(s) /\ FindExisting(s) # {}
          \/ Relookup(s) /\ FindExisting(s) # {}
          \/ Resolve(s)
      BY <2>1
      DEF Acts, Step, Abort, InsertInbox, LockReferenceIdentity, Lookup, LockWallet, Relookup,
          Decide, ReadReference, Write, IdentityRace, ConflictAtWrite, WriteFails, Resolve,
          Commit, AnswerExisting, BeginProcess, BeginMessage, Begin, ClaimPending, history
    <2>3. CASE Commit(s)
      <3>1. /\ s \in HTTPSessions /\ pc[s] = "commit"
            /\ r = [cmd |-> req[s], result |-> staged[s].row.result]
        BY <1>2, <2>1, <2>3 DEF Commit, Reply
      <3>2. s \notin WorkerSessions /\ s \notin ConsumerSessions
        BY <3>1, SessionsAssumption
      <3>3. staged[s] # None /\ uid[s] \in TxIDs
        BY <3>1, <3>2, NoneAssumption DEF TypeInv, SessionShape, Shape
      <3>4. /\ staged[s].row = RowOf(s) /\ HasDecided(s)
            /\ staged[s].row.cmd = req[s] /\ staged[s].row \in TxRows
        BY <3>3 DEF FinalInv, StagedRow, RowInv, StagedFromSnapshot, TypeInv, TypeOK, LocalType,
           StagedWrites
      <3>5. RowOf(s).result = ResultOf(uid[s], req[s], verdict[s], snap[s])
        BY <3>1, <3>2, <3>4, RowOfStates DEF FinalInv, HasDecided
      <3>6. r.cmd = req[s] /\ r.result = staged[s].row.result /\ r.result.tx = uid[s]
        BY <3>1, <3>4, <3>5 DEF ResultOf
      <3>7. txns'[uid[s]] = staged[s].row
        BY <2>3, <3>3 DEF Commit, TypeInv, TypeOK, TablesType
      <3> QED
        BY <3>3, <3>4, <3>6, <3>7, NoneAssumption DEF Persisted
    <2>4. CASE ~Commit(s)
      <3>1. /\ AnswerExisting(s) /\ pc[s] \in {"lookup", "relookup", "resolve"}
        BY <2>2, <2>4 DEF Lookup, Relookup, Resolve
      <3>2. /\ IsReplay(s) /\ s \in HTTPSessions
            /\ r = [cmd |-> req[s],
                    result |-> txns[CHOOSE i \in FindExisting(s) : TRUE].result]
        BY <1>2, <2>1, <3>1 DEF AnswerExisting, Reply
      <3>3. PICK i \in Persisted :
              /\ FindExisting(s) = {i} /\ txns[i].cmd = req[s]
              /\ txns[i].result.tx = i /\ txns[i].result.state = txns[i].state
        BY <3>1, <3>2, ReplayFinds, SessionsAssumption DEF FinalInv
      <3>4. r.cmd = req[s] /\ r.result = txns[i].result
        BY <3>2, <3>3
      <3> QED
        BY <3>3, <3>4, ReplyLasts
    <2> QED
      BY <2>3, <2>4
  <1> QED
    BY <1>1, <1>2

\* Both reads show a recorded result.
LEMMA RecordedIsShown ==
    TypeOK /\ ReplayAvailable /\ UniqueRows /\ RepliesRecorded => RepliesAreDurable
  <1> SUFFICES ASSUME TypeOK, ReplayAvailable, UniqueRows, RepliesRecorded, NEW r \in replies
               PROVE  LET byID == TransactionForProvider(r.cmd.prov, r.result.tx)
                      IN  /\ byID = TransactionByExternalForProvider(r.cmd.prov, r.cmd.ext)
                          /\ \E view \in byID : view.cmd = r.cmd
                          /\ r.result.state # "PENDING_REFERENCE" => byID = {Shown(r)}
    BY DEF RepliesAreDurable
  <1> DEFINE i == r.result.tx
  <1>1. /\ i \in Persisted /\ txns[i].cmd = r.cmd
        /\ r.result.state # "PENDING_REFERENCE" => txns[i].result = r.result
    BY DEF RepliesRecorded
  <1>2. {j \in Persisted : j = i /\ txns[j].cmd.prov = r.cmd.prov} = {i}
    BY <1>1
  <1>3. FindByExternal(r.cmd.prov, r.cmd.ext) = {i}
    BY <1>1 DEF FindByExternal, UniqueRows, Clash, SameIdentity
  <1>4. TransactionForProvider(r.cmd.prov, i) = {TransactionView(i)}
    BY <1>2 DEF TransactionForProvider
  <1>5. TransactionByExternalForProvider(r.cmd.prov, r.cmd.ext) = {TransactionView(i)}
    BY <1>3 DEF TransactionByExternalForProvider
  <1>6. TransactionView(i).cmd = r.cmd
    BY <1>1 DEF TransactionView
  <1>7. ASSUME r.result.state # "PENDING_REFERENCE" PROVE TransactionView(i) = Shown(r)
    <2>1. txns[i].state = r.result.state /\ txns[i].result = r.result
      BY <1>1, <1>7 DEF ReplayAvailable, Replayable
    <2>2. PersistedBalance(i) = r.result.balance
      BY <1>1, <2>1 DEF PersistedBalance, ReplayAvailable
    <2> QED
      BY <1>1, <2>1, <2>2 DEF TransactionView, Shown
  <1> QED
    BY <1>4, <1>5, <1>6, <1>7

-----------------------------------------------------------------------------
(* The inductive invariant of identities, and what follows from it.        *)

IdentityInv ==
    /\ UniqueRows /\ OneIdentityHolder /\ NoTwin /\ ReferenceAbsent /\ RaceLost
    /\ ReplayedMessage /\ InboxAtomic /\ ConflictIsReal /\ RepliesRecorded

\* It holds before any transaction.
LEMMA InitIdentity == Init => IdentityInv
  <1> SUFFICES ASSUME Init PROVE IdentityInv
    OBVIOUS
  <1>1. Persisted = {} /\ \A s \in Sessions : pc[s] = "idle" /\ verdict[s] = "NONE"
    BY DEF Init, Persisted
  <1>2. UniqueRows
    BY <1>1 DEF Init, UniqueRows
  <1>3. OneIdentityHolder /\ NoTwin /\ RaceLost
    BY <1>1 DEF OneIdentityHolder, HoldsIdentity, NoTwin, RaceLost
  <1>4. ReferenceAbsent
    BY <1>1 DEF ReferenceAbsent, Sessions
  <1>5. ReplayedMessage
    BY <1>1 DEF ReplayedMessage, Sessions
  <1>6. InboxAtomic /\ ConflictIsReal /\ RepliesRecorded
    BY DEF Init, InboxAtomic, ConflictIsReal, RepliesRecorded
  <1> QED
    BY <1>2, <1>3, <1>4, <1>5, <1>6 DEF IdentityInv

\* It is inductive relative to the types and the single rows.
LEMMA NextIdentity ==
    TypeInv /\ RowInv /\ FinalInv /\ IdentityInv /\ [Next]_vars => IdentityInv'
  <1> SUFFICES ASSUME TypeInv, RowInv, FinalInv, IdentityInv, [Next]_vars PROVE IdentityInv'
    OBVIOUS
  <1>1. UniqueRows' /\ OneIdentityHolder'
    BY NextUnique, NextIdentityHolder DEF IdentityInv
  <1>2. NoTwin' /\ ReferenceAbsent'
    BY NextNoTwin, NextReferenceAbsent DEF IdentityInv, FinalInv
  <1>3. RaceLost' /\ ReplayedMessage'
    BY NextRaceLost, NextReplayedMessage DEF IdentityInv, FinalInv
  <1>4. InboxAtomic' /\ ConflictIsReal'
    BY NextInbox, NextConflicts DEF IdentityInv, FinalInv
  <1>5. RepliesRecorded'
    BY NextReplies DEF IdentityInv
  <1> QED
    BY <1>1, <1>2, <1>3, <1>4, <1>5 DEF IdentityInv

\* In every instance a completed message has the transaction row of its
\* payload: ProcessMessage commits both or neither, and skips the write only
\* for a row that is already committed.
THEOREM MessagesAreAtomic == Spec => []InboxAtomic
  <1>1. IdentityInv => InboxAtomic
    BY DEF IdentityInv
  <1> QED
    BY <1>1, InitType, NextType, InitFinal, NextRows, NextFinal, InitIdentity, NextIdentity, PTL
    DEF Spec

\* In every instance ErrIdempotencyConflict is raised only against a command
\* that differs and really shares a key, an external id or a consumed
\* reference, whichever of the two lookups, the unique violation or the second
\* transaction raised it: the advisory lock keeps a request's twin out.
THEOREM ConflictsAreReal == Spec => []ConflictIsReal
  <1>1. IdentityInv => ConflictIsReal
    BY DEF IdentityInv
  <1> QED
    BY <1>1, InitType, NextType, InitFinal, NextRows, NextFinal, InitIdentity, NextIdentity, PTL
    DEF Spec

\* In every instance what an HTTP client was told stays true: both reads find
\* its transaction, and a final answer is shown unchanged for ever.
THEOREM AnswersAreDurable == Spec => []RepliesAreDurable
  <1>1. TypeInv /\ FinalInv /\ IdentityInv => RepliesAreDurable
    BY RecordedIsShown DEF TypeInv, FinalInv, IdentityInv
  <1> QED
    BY <1>1, InitType, NextType, InitFinal, NextRows, NextFinal, InitIdentity, NextIdentity, PTL
    DEF Spec

\* In every instance a worker gives up with REFERENCE_NOT_FOUND only on a
\* reference that is absent when the rejection is committed: whoever would
\* commit it needs the advisory lock the worker holds since it looked.
THEOREM GivesUpOnlyOnAbsence == Spec => NotFoundIsTrue
  <1>1. TypeInv /\ RowInv /\ FinalInv /\ IdentityInv /\ [Next]_vars =>
          [\A i \in Persisted :
             RejectedNow(i, "REFERENCE_NOT_FOUND") => ReferencesOf(i) = {}]_vars
    <2> SUFFICES ASSUME TypeInv, RowInv, FinalInv, IdentityInv, [Next]_vars, NEW i \in Persisted,
                        RejectedNow(i, "REFERENCE_NOT_FOUND")
                 PROVE  ReferencesOf(i) = {}
      OBVIOUS
    <2>0. i \in TxIDs /\ txns[i] # None /\ txns[i] \in TxRows
      BY DEF Persisted, TypeInv, TypeOK, TablesType
    <2>1. PICK s \in Sessions : CommitsRow(s, i)
      <3>1. txns'[i] # txns[i]
        BY DEF RejectedNow
      <3>2. txns'[i] # [txns[i] EXCEPT !.due = TRUE]
        BY <2>0 DEF RejectedNow, TxRows
      <3>3. \A o \in OpenRequests : ~OpensRow(o, i)
        BY <2>0 DEF OpensRow
      <3> QED
        BY <2>0, <3>1, <3>2, <3>3, RowChange DEF FinalInv
    <2>2. /\ pc[s] = "commit" /\ uid[s] = i /\ txns'[i] = RowOf(s) /\ HasDecided(s)
      BY <2>1 DEF CommitsRow, Commit
    <2>3. s \in WorkerSessions /\ txns[i].cmd = req[s]
      BY <2>0, <2>2 DEF RowInv, OwnRow, ClaimedRow
    <2>4. verdict[s] = "REFERENCE_NOT_FOUND"
      <3>1. verdict[s] # "RETRY" /\ RowOf(s).result = ResultOf(i, req[s], verdict[s], snap[s])
        BY <2>2, RowOfStates DEF FinalInv, RejectedNow
      <3>2. FailureCode(req[s], verdict[s], snap[s]) = "REFERENCE_NOT_FOUND"
        BY <2>2, <3>1 DEF ResultOf, RejectedNow
      <3> QED
        BY <3>2 DEF FailureCode, NoCode
    <2> QED
      BY <2>3, <2>4 DEF IdentityInv, ReferenceAbsent, ReferencesOf
  <1> QED
    BY <1>1, InitType, NextType, InitFinal, NextRows, NextFinal, InitIdentity, NextIdentity, PTL
    DEF Spec, NotFoundIsTrue
=============================================================================
