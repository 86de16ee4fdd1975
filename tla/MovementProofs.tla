--------------------------- MODULE MovementProofs ---------------------------
(***************************************************************************)
(* What accepted transactions do to wallets and outbox, in every instance  *)
(* of FinancialService: each moves its money exactly once, a reversal      *)
(* undoes the movement it names, and the events tell the same story in the *)
(* same order.                                                             *)
(***************************************************************************)
EXTENDS IdentityProofs, FiniteSetTheorems

(* Session s has made its decision.                                        *)
Decided(s) ==
    \/ pc[s] = "write" \/ staged[s] # None
    \/ s \in WorkerSessions /\ pc[s] = "wallet"

(* A decision to move goes the way of the operation, a reversal the        *)
(* opposite way of a processed reference; only a LOSS moves nothing.       *)
DecisionHolds(s) ==
    LET c == req[s]
    IN  /\ verdict[s] \in Directions /\ c.type \notin Reversals =>
              verdict[s] = DirectionOf(c.type, "")
        /\ verdict[s] \in Directions /\ c.type \in Reversals =>
              \E j \in FindByExternal(c.prov, c.ref) :
                 /\ ValidReference(c, txns[j])
                 /\ verdict[s] = DirectionOf(c.type, txns[j].cmd.type)
        /\ Decided(s) /\ verdict[s] = "NONE" => c.type = "LOSS"

DecisionsHold == \A s \in Sessions : DecisionHolds(s)

(* Row i has moved money.                                                  *)
Counts(i) ==
    i \in Persisted /\ txns[i].state = "PROCESSED" /\ txns[i].cmd.type # "LOSS"

(* Ledger entry e of wallet w is the movement of its transaction.          *)
EntryBooks(w, e) ==
    /\ Counts(e.tx) /\ txns[e.tx].cmd.wallet = w /\ e.value = txns[e.tx].cmd.amount
    /\ txns[e.tx].cmd.type = "BET" => e.dir = "DEBIT"
    /\ txns[e.tx].cmd.type \in {"WIN", "REFUND"} => e.dir = "CREDIT"

EntriesBook ==
    \A w \in Wallets : \A k \in 1 .. Len(ledger[w]) : EntryBooks(w, ledger[w][k])

EntriesDistinct ==
    \A w \in Wallets : \A j, k \in 1 .. Len(ledger[w]) :
        ledger[w][j].tx = ledger[w][k].tx => j = k

MovementsBooked ==
    \A i \in TxIDs : Counts(i) =>
        \E k \in 1 .. Len(ledger[txns[i].cmd.wallet]) : ledger[txns[i].cmd.wallet][k].tx = i

(* Entry n, of transaction i, turns entry k, of transaction j, round.      *)
Reverses(i, n, j, k) ==
    LET l == ledger[txns[i].cmd.wallet]
    IN  /\ EntryAt(j, k) /\ EntryAt(i, n) /\ k < n
        /\ l[k].dir # l[n].dir /\ l[k].value = l[n].value

(* The movement of reversal i undoes an earlier one.                       *)
Undoes(i) ==
    \E j \in FindByExternal(txns[i].cmd.prov, txns[i].cmd.ref) :
        \E k, n \in 1 .. Len(ledger[txns[i].cmd.wallet]) : Reverses(i, n, j, k)

ReversalsUndo ==
    \A i \in TxIDs : Counts(i) /\ txns[i].cmd.type \in Reversals => Undoes(i)

BookInv == EntriesBook /\ EntriesDistinct /\ MovementsBooked /\ ReversalsUndo

-----------------------------------------------------------------------------
(* Decisions.                                                              *)

\* A processed reference stays what it was when the decision was made.
LEMMA DecisionLasts ==
    ASSUME TypeInv, RowInv, FinalInv, [Next]_vars, NEW t \in Sessions, DecisionHolds(t),
           req'[t] = req[t], verdict'[t] = verdict[t], Decided(t)' => Decided(t)
    PROVE  DecisionHolds(t)'
  <1> DEFINE c == req[t]
  <1>1. ASSUME NEW j \in FindByExternal(c.prov, c.ref), ValidReference(c, txns[j])
        PROVE  j \in FindByExternal(c.prov, c.ref)' /\ txns'[j] = txns[j]
    <2>1. j \in Persisted /\ txns[j].state = "PROCESSED"
      BY <1>1 DEF FindByExternal, ValidReference
    <2>2. j \in Persisted' /\ txns'[j] = txns[j]
      BY <2>1, RowsLast DEF FinalInv
    <2>3. txns[j].cmd.prov = c.prov /\ txns[j].cmd.ext = c.ref
      BY <1>1 DEF FindByExternal
    <2> QED
      BY <2>2, <2>3 DEF FindByExternal
  <1>2. CASE verdict[t] \in Directions /\ c.type \in Reversals
    <2>1. PICK j \in FindByExternal(c.prov, c.ref) :
            ValidReference(c, txns[j]) /\ verdict[t] = DirectionOf(c.type, txns[j].cmd.type)
      BY <1>2 DEF DecisionHolds
    <2>2. j \in FindByExternal(c.prov, c.ref)' /\ txns'[j] = txns[j]
      BY <1>1, <2>1
    <2> QED
      BY <1>2, <2>1, <2>2 DEF DecisionHolds, Directions
  <1>3. CASE ~(verdict[t] \in Directions /\ c.type \in Reversals)
    BY <1>3 DEF DecisionHolds
  <1> QED
    BY <1>2, <1>3

\* processInTx decides what the operation and its reference say.
LEMMA DecideHolds ==
    ASSUME TypeInv, RowInv, NEW s \in Sessions, Decide(s), ~EndTx(s)
    PROVE  DecisionHolds(s)'
  <1> DEFINE c == req[s]
             refs == FindByExternal(c.prov, c.ref)
             j == CHOOSE i \in refs : TRUE
             v == Decision(c, snap[s])
  <1>1. /\ req'[s] = c /\ verdict'[s] = v /\ txns' = txns
        /\ ValidTransaction(c.type, c.amount)
    BY DEF Decide, TypeInv, TypeOK, LocalType, tables
  <1>2. FindByExternal(c.prov, c.ref)' = refs
    BY <1>1 DEF FindByExternal, Persisted
  <1>3. refs # {} => j \in refs
    OBVIOUS
  <1>4. CASE c.type \notin Reversals
    <2>1. v \in {"PLAYER_WALLET_MISMATCH", DirectionOf(c.type, "")}
      BY <1>4 DEF Decision
    <2>2. v = "NONE" => c.type = "LOSS"
      BY <1>1, <1>4, <2>1 DEF DirectionOf, ValidTransaction, ExternalTypes, Reversals
    <2> QED
      BY <1>1, <1>4, <2>1, <2>2 DEF DecisionHolds, Directions
  <1>5. CASE c.type \in Reversals
    <2>1. \/ v \in {"PLAYER_WALLET_MISMATCH", "REFERENCE_REQUIRED", "PENDING_REFERENCE",
                    "REFERENCE_INVALID"}
          \/ refs # {} /\ ValidReference(c, txns[j]) /\ v = DirectionOf(c.type, txns[j].cmd.type)
      BY <1>5 DEF Decision
    <2>2. v # "NONE"
      BY <1>5, <2>1 DEF DirectionOf, Reversals
    <2>3. v \in Directions => refs # {} /\ ValidReference(c, txns[j])
                              /\ v = DirectionOf(c.type, txns[j].cmd.type)
      BY <2>1 DEF Directions
    <2> QED
      BY <1>1, <1>2, <1>3, <1>5, <2>2, <2>3 DEF DecisionHolds
  <1> QED
    BY <1>4, <1>5

\* So does a worker, on the command of the row it claimed.
LEMMA ReadReferenceHolds ==
    ASSUME TypeInv, RowInv, NEW s \in Sessions, ReadReference(s)
    PROVE  DecisionHolds(s)'
  <1> DEFINE c == req[s]
             refs == FindByExternal(c.prov, c.ref)
             j == CHOOSE i \in refs : TRUE
             v == PendingDecision(uid[s])
  <1>0. s \in WorkerSessions /\ pc[s] = "reference"
    BY DEF ReadReference, TypeInv, SessionShape, Shape
  <1>1. /\ req'[s] = c /\ verdict'[s] = v /\ txns' = txns
        /\ txns[uid[s]].cmd = c /\ ValidTransaction(c.type, c.amount)
    BY <1>0 DEF ReadReference, TypeInv, TypeOK, LocalType, tables, RowInv, ClaimedRow, Accepted
  <1>2. FindByExternal(c.prov, c.ref)' = refs
    BY <1>1 DEF FindByExternal, Persisted
  <1>3. refs # {} => j \in refs
    OBVIOUS
  <1>4. \/ v \in FailureCodes \cup {"RETRY"}
        \/ refs # {} /\ ValidReference(c, txns[j]) /\ v = DirectionOf(c.type, txns[j].cmd.type)
    BY <1>1 DEF PendingDecision, Advance, FailureCodes
  <1>5. v \in Directions \cup {"NONE"} =>
          refs # {} /\ ValidReference(c, txns[j]) /\ v = DirectionOf(c.type, txns[j].cmd.type)
    BY <1>4 DEF Directions, FailureCodes
  <1>6. c.type \notin Reversals => DirectionOf(c.type, txns[j].cmd.type) = DirectionOf(c.type, "")
    BY DEF DirectionOf, Reversals
  <1>7. v = "NONE" => c.type = "LOSS"
    BY <1>1, <1>5 DEF DirectionOf, ValidTransaction, ExternalTypes
  <1> QED
    BY <1>1, <1>2, <1>3, <1>5, <1>6, <1>7 DEF DecisionHolds

\* Decisions hold until the transaction ends.
LEMMA NextDecisions ==
    ASSUME TypeInv, RowInv, FinalInv, DecisionsHold, [Next]_vars
    PROVE  DecisionsHold'
  <1> SUFFICES ASSUME NEW t \in Sessions PROVE DecisionHolds(t)'
    BY DEF DecisionsHold
  <1>0. DecisionHolds(t)
    BY DEF DecisionsHold
  <1>1. CASE Stands(t)
    <2>1. Decided(t)' => Decided(t)
      BY <1>1 DEF Stands, Decided
    <2> QED
      BY <1>0, <1>1, <2>1, DecisionLasts DEF Stands
  <1>2. CASE Acts(t) /\ pc'[t] = "idle"
    <2>1. verdict'[t] = "NONE" /\ staged'[t] = None
      BY <1>2, NextType DEF TypeInv, SessionShape, Shape
    <2> QED
      BY <1>2, <2>1 DEF DecisionHolds, Decided, Directions
  <1>3. CASE Acts(t) /\ pc'[t] # "idle"
    <2>0. ~EndTx(t)
      BY <1>3 DEF EndTx, Goto, TypeInv, TypeOK, LocalType
    <2>1. CASE Decide(t)
      BY <2>0, <2>1, DecideHolds
    <2>2. CASE ReadReference(t)
      BY <2>2, ReadReferenceHolds
    <2>3. CASE Write(t) \/ LockWallet(t)
      <3>1. req'[t] = req[t] /\ verdict'[t] = verdict[t]
        BY <2>0, <2>3 DEF Write, LockWallet
      <3>2. Decided(t)' => Decided(t)
        BY <2>0, <2>3 DEF Write, LockWallet, Decided, Goto, TypeInv, TypeOK, LocalType
      <3> QED
        BY <1>0, <3>1, <3>2, DecisionLasts
    <2>4. CASE ~Decide(t) /\ ~ReadReference(t) /\ ~Write(t) /\ ~LockWallet(t)
      <3>1. /\ verdict'[t] = "NONE" \/ (verdict'[t] = verdict[t] /\ req'[t] = req[t])
            /\ staged'[t] = staged[t]
            /\ pc'[t] \in {"inbox", "identity", "lookup", "reference", "wallet", "decide",
                           "commit", "resolve"}
            /\ t \in WorkerSessions => pc'[t] # "wallet"
            /\ pc[t] # "commit"
        <4>1. CASE pc[t] = "idle"
          <5>1. verdict[t] = "NONE"
            BY <4>1 DEF TypeInv, SessionShape, Shape
          <5>2. ~Step(t) /\ ~Abort(t)
            BY <4>1, StepContinues
          <5>3. /\ UNCHANGED <<verdict, staged>>
                /\ pc'[t] \in {"inbox", "identity"}
            BY <1>3, <5>2
            DEF Acts, BeginProcess, BeginMessage, Begin, ClaimPending, Goto, TypeInv, TypeOK,
                LocalType
          <5> QED
            BY <4>1, <5>1, <5>3
        <4>2. CASE pc[t] # "idle"
          BY <1>3, <2>0, <2>4, <4>2
          DEF Acts, Step, Abort, InsertInbox, LockReferenceIdentity, Lookup, Relookup,
              IdentityRace, ConflictAtWrite, WriteFails, Resolve, Commit, AnswerExisting,
              BeginProcess, BeginMessage, Begin, ClaimPending, local, Goto, TypeInv, TypeOK,
              LocalType, SessionShape, Shape
        <4> QED
          BY <4>1, <4>2
      <3>2. ~Decided(t)'
        BY <3>1 DEF Decided, TypeInv, SessionShape, Shape
      <3>3. CASE verdict'[t] = "NONE"
        BY <3>2, <3>3 DEF DecisionHolds, Directions
      <3>4. CASE verdict'[t] = verdict[t] /\ req'[t] = req[t]
        BY <1>0, <3>2, <3>4, DecisionLasts
      <3> QED
        BY <3>1, <3>3, <3>4
    <2> QED
      BY <2>1, <2>2, <2>3, <2>4
  <1> QED
    BY <1>1, <1>2, <1>3, OneMoves, OthersStand, TableStepStands

-----------------------------------------------------------------------------
(* The ledger.                                                             *)

\* An undone movement stays undone: ledgers are only appended to and rows
\* keep their commands.
LEMMA UndoesLasts ==
    ASSUME TypeInv, NEW i \in Persisted, Undoes(i),
           \A j \in Persisted : j \in Persisted' /\ txns'[j].cmd = txns[j].cmd,
           \A w \in Wallets : \A k \in 1 .. Len(ledger[w]) :
              k \in 1 .. Len(ledger'[w]) /\ ledger'[w][k] = ledger[w][k]
    PROVE  Undoes(i)'
  <1> DEFINE c == txns[i].cmd
             l == ledger[c.wallet]
  <1>1. PICK j \in FindByExternal(c.prov, c.ref), k \in 1 .. Len(l), n \in 1 .. Len(l) :
          Reverses(i, n, j, k)
    BY DEF Undoes
  <1>2. /\ c.wallet \in Wallets /\ j \in Persisted /\ txns'[i].cmd = c
        /\ txns'[j].cmd = txns[j].cmd /\ txns[j].cmd.wallet \in Wallets
    BY <1>1 DEF FindByExternal, Persisted, TypeInv, TypeOK, TablesType, TxRows, CommandSet
  <1>3. j \in FindByExternal(c.prov, c.ref)'
    BY <1>1, <1>2 DEF FindByExternal
  <1>4. /\ k \in 1 .. Len(ledger'[c.wallet]) /\ ledger'[c.wallet][k] = l[k]
        /\ n \in 1 .. Len(ledger'[c.wallet]) /\ ledger'[c.wallet][n] = l[n]
    BY <1>2
  <1>5. EntryAt(j, k)' /\ EntryAt(i, n)'
    BY <1>1, <1>2 DEF EntryAt, Reverses
  <1>6. Reverses(i, n, j, k)'
    BY <1>1, <1>2, <1>4, <1>5 DEF Reverses
  <1> QED
    BY <1>2, <1>3, <1>4, <1>6 DEF Undoes

\* A step that books nothing and completes no movement.
LEMMA KeepsBook ==
    ASSUME TypeInv, BookInv, ledger' = ledger,
           \A i \in Persisted : i \in Persisted' /\ txns'[i].cmd = txns[i].cmd,
           \A i \in TxIDs : Counts(i) <=> Counts(i)'
    PROVE  BookInv'
  <1>0. \A w \in Wallets : \A k \in 1 .. Len(ledger[w]) : ledger[w][k].tx \in TxIDs
    BY DEF BookInv, EntriesBook, EntryBooks, Counts, Persisted
  <1>1. EntriesBook'
    BY <1>0 DEF BookInv, EntriesBook, EntryBooks, Counts
  <1>2. EntriesDistinct'
    BY DEF BookInv, EntriesDistinct
  <1>3. MovementsBooked'
    BY DEF BookInv, MovementsBooked, Counts
  <1>4. ReversalsUndo'
    <2> SUFFICES ASSUME NEW i \in TxIDs, Counts(i)', txns'[i].cmd.type \in Reversals
                 PROVE  Undoes(i)'
      BY DEF ReversalsUndo
    <2>1. Counts(i) /\ i \in Persisted /\ txns[i].cmd.type \in Reversals
      BY DEF Counts
    <2>2. Undoes(i)
      BY <2>1 DEF BookInv, ReversalsUndo
    <2>3. \A w \in Wallets : \A k \in 1 .. Len(ledger[w]) :
             k \in 1 .. Len(ledger'[w]) /\ ledger'[w][k] = ledger[w][k]
      OBVIOUS
    <2> QED
      BY <2>1, <2>2, <2>3, UndoesLasts
  <1> QED
    BY <1>1, <1>2, <1>3, <1>4 DEF BookInv

\* Appending to one ledger.
LEMMA AppendOne ==
    ASSUME TypeInv, NEW w \in Wallets, NEW e \in Entries,
           ledger' = [ledger EXCEPT ![w] = Append(@, e)]
    PROVE  /\ Len(ledger[w]) \in Nat /\ Len(ledger'[w]) = Len(ledger[w]) + 1
           /\ ledger'[w][Len(ledger[w]) + 1] = e
           /\ \A k \in 1 .. Len(ledger[w]) : ledger'[w][k] = ledger[w][k]
           /\ \A u \in Wallets : u # w => ledger'[u] = ledger[u]
  <1>1. ledger[w] \in Seq(Entries) /\ ledger'[w] = Append(ledger[w], e)
    BY DEF TypeInv, TypeOK, TablesType
  <1>2. \A u \in Wallets : u # w => ledger'[u] = ledger[u]
    BY DEF TypeInv, TypeOK, TablesType
  <1> QED
    BY <1>1, <1>2

\* A step that completes one movement and books it, for a reversal after the
\* movement of a reference it turns round.
LEMMA AppendBooks ==
    ASSUME TypeInv, BookInv, NEW w \in Wallets, NEW e \in Entries,
           ledger' = [ledger EXCEPT ![w] = Append(@, e)],
           ~Counts(e.tx), EntryBooks(w, e)',
           \A i \in Persisted : i \in Persisted' /\ txns'[i].cmd = txns[i].cmd,
           \A i \in TxIDs : i # e.tx => txns'[i] = txns[i],
           txns'[e.tx].cmd.type \in Reversals =>
              \E j \in FindByExternal(txns'[e.tx].cmd.prov, txns'[e.tx].cmd.ref) :
                 /\ Counts(j) /\ txns[j].cmd.wallet = w /\ txns[j].cmd.amount = e.value
                 /\ txns[j].cmd.type \in {"BET", "WIN", "REFUND"}
                 /\ e.dir = IF txns[j].cmd.type = "BET" THEN "CREDIT" ELSE "DEBIT"
    PROVE  BookInv'
  <1>0. PICK n : n = Len(ledger[w]) + 1
    OBVIOUS
  <1>1. /\ Len(ledger[w]) \in Nat /\ Len(ledger'[w]) = n /\ n \in Nat
        /\ ledger'[w][n] = e
        /\ \A k \in 1 .. Len(ledger[w]) : ledger'[w][k] = ledger[w][k]
        /\ \A u \in Wallets : u # w => ledger'[u] = ledger[u]
    <2>1. Len(ledger[w]) \in Nat /\ Len(ledger'[w]) = Len(ledger[w]) + 1
      BY AppendOne
    <2> QED
      BY <1>0, <2>1, AppendOne
  <1>2. \A k \in 1 .. n : k = n \/ k \in 1 .. Len(ledger[w])
    BY <1>0, <1>1
  <1>3. n \in 1 .. n /\ \A k \in 1 .. Len(ledger[w]) : k \in 1 .. n /\ k < n
    BY <1>0, <1>1
  <1>4. \A u \in Wallets : \A k \in 1 .. Len(ledger[u]) :
          k \in 1 .. Len(ledger'[u]) /\ ledger'[u][k] = ledger[u][k]
    BY <1>1, <1>3
  <1>5. ASSUME NEW u \in Wallets, NEW k \in 1 .. Len(ledger[u])
        PROVE  /\ EntryBooks(u, ledger[u][k])' /\ ledger[u][k].tx # e.tx
    <2>1. EntryBooks(u, ledger[u][k])
      BY DEF BookInv, EntriesBook
    <2>2. ledger[u][k].tx \in TxIDs /\ ledger[u][k].tx # e.tx
      BY <2>1 DEF EntryBooks, Counts, Persisted
    <2>3. txns'[ledger[u][k].tx] = txns[ledger[u][k].tx] /\ ledger'[u][k] = ledger[u][k]
      BY <1>4, <2>2
    <2> QED
      BY <2>1, <2>2, <2>3 DEF EntryBooks, Counts, Persisted
  <1>6. EntriesBook'
    <2> SUFFICES ASSUME NEW u \in Wallets, NEW k \in 1 .. Len(ledger'[u])
                 PROVE  EntryBooks(u, ledger[u][k])'
      BY DEF EntriesBook
    <2>1. CASE u = w /\ k = n
      BY <1>1, <2>1 DEF EntryBooks, Counts
    <2>2. CASE ~(u = w /\ k = n)
      <3>1. k \in 1 .. Len(ledger[u])
        BY <1>1, <1>2, <2>2
      <3> QED
        BY <1>5, <3>1
    <2> QED
      BY <2>1, <2>2
  <1>7. EntriesDistinct'
    <2> SUFFICES ASSUME NEW u \in Wallets, NEW j \in 1 .. Len(ledger'[u]),
                        NEW k \in 1 .. Len(ledger'[u]), ledger'[u][j].tx = ledger'[u][k].tx
                 PROVE  j = k
      BY DEF EntriesDistinct
    <2>1. CASE u = w
      BY <1>1, <1>2, <1>5, <2>1 DEF BookInv, EntriesDistinct
    <2>2. CASE u # w
      BY <1>1, <2>2 DEF BookInv, EntriesDistinct
    <2> QED
      BY <2>1, <2>2
  <1>8. e.tx \in TxIDs /\ txns'[e.tx].cmd.wallet = w
    BY DEF EntryBooks, Entries
  <1>9. ASSUME NEW i \in TxIDs, i # e.tx, Counts(i)'
        PROVE  Counts(i) /\ txns'[i] = txns[i] /\ txns[i].cmd.wallet \in Wallets
    <2>1. txns'[i] = txns[i]
      BY <1>9
    <2>2. i \in Persisted /\ Counts(i)
      BY <1>9, <2>1 DEF Counts, Persisted
    <2> QED
      BY <2>1, <2>2 DEF Persisted, TypeInv, TypeOK, TablesType, TxRows, CommandSet
  <1>10. MovementsBooked'
    <2> SUFFICES ASSUME NEW i \in TxIDs, Counts(i)'
                 PROVE  \E k \in 1 .. Len(ledger'[txns'[i].cmd.wallet]) :
                           ledger'[txns'[i].cmd.wallet][k].tx = i
      BY DEF MovementsBooked
    <2>1. CASE i = e.tx
      BY <1>1, <1>3, <1>8, <2>1
    <2>2. CASE i # e.tx
      <3>1. Counts(i) /\ txns'[i] = txns[i] /\ txns[i].cmd.wallet \in Wallets
        BY <1>9, <2>2
      <3>2. PICK k \in 1 .. Len(ledger[txns[i].cmd.wallet]) :
               ledger[txns[i].cmd.wallet][k].tx = i
        BY <3>1 DEF BookInv, MovementsBooked
      <3> QED
        BY <1>4, <3>1, <3>2
    <2> QED
      BY <2>1, <2>2
  <1>11. ReversalsUndo'
    <2> SUFFICES ASSUME NEW i \in TxIDs, Counts(i)', txns'[i].cmd.type \in Reversals
                 PROVE  Undoes(i)'
      BY DEF ReversalsUndo
    <2>1. CASE i = e.tx
      <3>1. PICK j \in FindByExternal(txns'[i].cmd.prov, txns'[i].cmd.ref) :
                 /\ Counts(j) /\ txns[j].cmd.wallet = w /\ txns[j].cmd.amount = e.value
                 /\ txns[j].cmd.type \in {"BET", "WIN", "REFUND"}
                 /\ e.dir = IF txns[j].cmd.type = "BET" THEN "CREDIT" ELSE "DEBIT"
        BY <2>1
      <3>2. j \in TxIDs /\ j \in Persisted /\ j # i
        BY <2>1, <3>1 DEF Counts, Persisted
      <3>3. PICK k \in 1 .. Len(ledger[w]) : ledger[w][k].tx = j
        BY <3>1, <3>2 DEF BookInv, MovementsBooked
      <3>4. EntryBooks(w, ledger[w][k])
        BY DEF BookInv, EntriesBook
      <3>5. ledger[w][k].value = e.value /\ ledger[w][k].dir # e.dir
        BY <3>1, <3>3, <3>4 DEF EntryBooks
      <3>6. k \in 1 .. Len(ledger'[w]) /\ n \in 1 .. Len(ledger'[w]) /\ k < n
            /\ ledger'[w][k] = ledger[w][k]
        BY <1>1, <1>3
      <3>7. txns'[j] = txns[j] /\ j \in FindByExternal(txns[i].cmd.prov, txns[i].cmd.ref)'
        BY <2>1, <3>1, <3>2 DEF FindByExternal
      <3>8. EntryAt(j, k)' /\ EntryAt(i, n)'
        BY <1>1, <1>8, <2>1, <3>1, <3>3, <3>6, <3>7 DEF EntryAt
      <3>9. Reverses(i, n, j, k)'
        BY <1>1, <1>8, <2>1, <3>5, <3>6, <3>8 DEF Reverses
      <3> QED
        BY <1>8, <2>1, <3>6, <3>7, <3>9 DEF Undoes
    <2>2. CASE i # e.tx
      <3>1. Counts(i) /\ txns'[i] = txns[i] /\ i \in Persisted
        BY <1>9, <2>2 DEF Counts
      <3>2. Undoes(i)
        BY <3>1 DEF BookInv, ReversalsUndo
      <3> QED
        BY <1>4, <3>1, <3>2, UndoesLasts
    <2> QED
      BY <2>1, <2>2
  <1> QED
    BY <1>6, <1>7, <1>10, <1>11 DEF BookInv

\* A row a transaction is about to commit has not moved money yet.
LEMMA UncommittedCountsNot ==
    ASSUME RowInv, HeldRow, NEW s \in Sessions, pc[s] # "idle"
    PROVE  ~Counts(uid[s])
  <1>1. CASE s \in WorkerSessions
    BY <1>1 DEF HeldRow, Counts
  <1>2. CASE s \notin WorkerSessions
    BY <1>2 DEF RowInv, OwnRow, Counts, Persisted
  <1> QED
    BY <1>1, <1>2

\* Commit books the movement of the row it completes, and nothing else.
LEMMA CommitBooks ==
    ASSUME TypeInv, RowInv, FinalInv, DecisionsHold, BookInv, [Next]_vars,
           NEW s \in Sessions, Commit(s), staged[s] # None
    PROVE  BookInv'
  <1>0. PICK i, c : i = uid[s] /\ c = req[s]
    OBVIOUS
  <1> DEFINE v == verdict[s]
             w == snap[s]
             row == staged[s].row
  <1>1. /\ pc[s] = "commit" /\ i \in TxIDs /\ c \in CommandSet /\ c.wallet \in Wallets
        /\ row \in TxRows /\ row # None /\ row.cmd = c /\ row = RowOf(s) /\ HasDecided(s)
    BY <1>0, NoneAssumption
    DEF Commit, TypeInv, TypeOK, LocalType, SessionShape, Shape, StagedWrites, RowInv,
        StagedFromSnapshot, FinalInv, StagedRow, CommandSet
  <1>2. /\ txns'[i] = row /\ \A j \in TxIDs : j # i => txns'[j] = txns[j]
        /\ i \in Persisted'
    BY <1>0, <1>1 DEF Commit, Persisted, TypeInv, TypeOK, TablesType
  <1>3. \A j \in Persisted : j \in Persisted' /\ txns'[j].cmd = txns[j].cmd
    BY RowsLast DEF FinalInv
  <1>4. ~Counts(i)
    BY <1>0, <1>1, UncommittedCountsNot DEF FinalInv
  <1>5. DecisionHolds(s) /\ Decided(s) /\ Accepted(c) /\ (v \in Directions => c.type # "LOSS")
    BY <1>0 DEF DecisionsHold, Decided, RowInv, DecidedAccepted
  <1>6. /\ staged[s].entry = EntryOf(i, c, v, w)
        /\ Moves(c, v, w) => w \in WalletRows
    BY <1>0 DEF RowInv, StagedFromSnapshot
  <1>7. CASE Moves(c, v, w)
    <2>0. PICK e : e = EntryOf(i, c, v, w)
      OBVIOUS
    <2>1. e = EntryOf(i, c, v, w) /\ e.tx = i /\ e.dir = v /\ e.value = c.amount
      BY <1>7, <2>0 DEF EntryOf
    <2>2. e \in Entries /\ e # None
      <3>1. e \in Entries
        BY <1>1, <1>6, <1>7, <2>1, BalanceAfterType
        DEF EntryOf, Entries, WalletRows, CommandSet, Moves
      <3> QED
        BY <3>1, NoneAssumption
    <2>3. ledger' = [ledger EXCEPT ![c.wallet] = Append(@, e)]
      BY <1>0, <1>6, <2>1, <2>2 DEF Commit
    <2>4. v \in Directions /\ Settles(c, v, w) /\ v # "RETRY" /\ v # "PENDING_REFERENCE"
      BY <1>7 DEF Moves, Directions
    <2>5. row.state = "PROCESSED"
      BY <1>0, <1>1, <2>4, RowOfStates DEF StateAfter, FinalInv
    <2>6. /\ c.type = "BET" => v = "DEBIT"
          /\ c.type \in {"WIN", "REFUND"} => v = "CREDIT"
      BY <1>0, <1>5, <2>4 DEF DecisionHolds, DirectionOf, Reversals
    <2>7. EntryBooks(c.wallet, e)'
      <3>1. Counts(i)'
        BY <1>1, <1>2, <1>5, <2>4, <2>5 DEF Counts
      <3> QED
        BY <1>1, <1>2, <2>1, <2>6, <3>1 DEF EntryBooks
    <2>8. ASSUME c.type \in Reversals
          PROVE  \E j \in FindByExternal(c.prov, c.ref) :
                   /\ Counts(j) /\ txns[j].cmd.wallet = c.wallet /\ txns[j].cmd.amount = e.value
                   /\ txns[j].cmd.type \in {"BET", "WIN", "REFUND"}
                   /\ e.dir = IF txns[j].cmd.type = "BET" THEN "CREDIT" ELSE "DEBIT"
      <3>1. PICK j \in FindByExternal(c.prov, c.ref) :
              ValidReference(c, txns[j]) /\ v = DirectionOf(c.type, txns[j].cmd.type)
        BY <1>0, <1>5, <2>4, <2>8 DEF DecisionHolds
      <3>2. /\ txns[j].cmd.wallet = c.wallet /\ txns[j].cmd.amount = c.amount
            /\ txns[j].state = "PROCESSED"
            /\ txns[j].cmd.type \in {"BET", "WIN", "REFUND"}
            /\ c.type = "REFUND" => txns[j].cmd.type = "BET"
        BY <3>1 DEF ValidReference
      <3>3. Counts(j)
        BY <3>2 DEF Counts, FindByExternal
      <3>4. v = IF txns[j].cmd.type = "BET" THEN "CREDIT" ELSE "DEBIT"
        BY <2>8, <3>1, <3>2 DEF DirectionOf, Reversals
      <3> QED
        BY <2>1, <3>2, <3>3, <3>4
    <2>9. txns'[e.tx].cmd = c /\ ~Counts(e.tx) /\ \A j \in TxIDs : j # e.tx => txns'[j] = txns[j]
      BY <1>1, <1>2, <1>4, <2>1
    <2> QED
      BY <1>1, <1>3, <2>2, <2>3, <2>7, <2>8, <2>9, AppendBooks
  <1>8. CASE ~Moves(c, v, w)
    <2>1. ledger' = ledger
      BY <1>6, <1>8 DEF Commit, EntryOf
    <2>2. row.state = "PROCESSED" => c.type = "LOSS"
      <3> SUFFICES ASSUME row.state = "PROCESSED" PROVE v = "NONE"
        BY <1>0, <1>5 DEF DecisionHolds
      <3>1. StateAfter(c, v, w) = "PROCESSED"
        BY <1>0, <1>1, RowOfStates DEF FinalInv
      <3> QED
        BY <1>8, <3>1 DEF StateAfter, Moves, Settles, Directions
    <2>3. ~Counts(i)'
      BY <1>1, <1>2, <2>2 DEF Counts
    <2>4. \A j \in TxIDs : Counts(j) <=> Counts(j)'
      BY <1>2, <1>4, <2>3 DEF Counts, Persisted
    <2> QED
      BY <1>3, <2>1, <2>4, KeepsBook
  <1> QED
    BY <1>7, <1>8

\* OpenWallet books the opening credit.
LEMMA OpenWalletBooks ==
    ASSUME TypeInv, RowInv, FinalInv, BookInv, [Next]_vars,
           NEW o \in OpenRequests, OpenWallet(o)
    PROVE  BookInv'
  <1>1. CASE o.amount = 0
    <2>1. txns' = txns /\ ledger' = ledger
      BY <1>1 DEF OpenWallet
    <2> QED
      BY <2>1, KeepsBook DEF Counts, Persisted
  <1>2. CASE o.amount # 0
    <2>0. PICK i : i = issued + 1
      OBVIOUS
    <2>1. /\ o.wallet \in Wallets /\ o.amount \in Money /\ i \in TxIDs
          /\ txns' = [txns EXCEPT ![i] = OpeningRow(o, i)]
      BY <1>2, <2>0, RequestsAssumption, BoundsAssumption
      DEF OpenWallet, OpeningRow, TypeInv, TypeOK, CountersType, TxIDs
    <2>2. PICK e : /\ e = [tx |-> i, dir |-> "CREDIT", value |-> o.amount,
                           before |-> 0, after |-> o.amount]
                   /\ ledger' = [ledger EXCEPT ![o.wallet] = Append(@, e)]
      BY <1>2, <2>0 DEF OpenWallet
    <2>3. e \in Entries /\ e.tx = i /\ e.value = o.amount
      BY <2>1, <2>2, MaxInt64Assumption DEF Entries, Directions, Money
    <2>4. txns'[i] = OpeningRow(o, i) /\ \A j \in TxIDs : j # i => txns'[j] = txns[j]
      BY <2>1 DEF TypeInv, TypeOK, TablesType
    <2>5. /\ txns'[i].cmd.wallet = o.wallet /\ txns'[i].cmd.amount = o.amount
          /\ txns'[i].cmd.type = "OPENING" /\ txns'[i].state = "PROCESSED"
      BY <2>4 DEF OpeningRow, OpeningCommand
    <2>6. ~Counts(i)
      BY <2>0, <2>1 DEF Counts, Persisted, RowInv, IDsFresh, TypeInv, TypeOK, CountersType
    <2>7. i \in Persisted'
      BY <2>1, <2>4, OpeningRowType, NoneAssumption DEF Persisted
    <2>8. EntryBooks(o.wallet, e)'
      BY <2>3, <2>5, <2>7 DEF EntryBooks, Counts
    <2>9. \A j \in Persisted : j \in Persisted' /\ txns'[j].cmd = txns[j].cmd
      BY RowsLast DEF FinalInv
    <2>10. txns'[e.tx].cmd.type \notin Reversals
      BY <2>3, <2>5 DEF Reversals
    <2> QED
      BY <2>1, <2>2, <2>3, <2>4, <2>6, <2>8, <2>9, <2>10, AppendBooks
  <1> QED
    BY <1>1, <1>2

\* The ledger books every movement, once, in every step.
LEMMA NextBook ==
    ASSUME TypeInv, RowInv, FinalInv, DecisionsHold, BookInv, [Next]_vars
    PROVE  BookInv'
  <1>1. ASSUME NEW s \in Sessions, Commit(s) PROVE BookInv'
    <2>1. CASE staged[s] # None
      BY <1>1, <2>1, CommitBooks
    <2>2. CASE staged[s] = None
      <3>1. txns' = txns /\ ledger' = ledger
        BY <1>1, <2>2 DEF Commit
      <3> QED
        BY <3>1, KeepsBook DEF Counts, Persisted
    <2> QED
      BY <2>1, <2>2
  <1>2. ASSUME NEW s \in Sessions, Acts(s), ~Commit(s) PROVE BookInv'
    <2>1. txns' = txns /\ ledger' = ledger
      BY <1>2, OnlyCommitWrites DEF tables
    <2> QED
      BY <2>1, KeepsBook DEF Counts, Persisted
  <1>3. ASSUME NEW o \in OpenRequests, OpenWallet(o) PROVE BookInv'
    BY <1>3, OpenWalletBooks
  <1>4. ASSUME NEW i \in TxIDs, BackoffElapses(i) PROVE BookInv'
    <2>1. ledger' = ledger /\ \A j \in Persisted : j \in Persisted' /\ txns'[j].cmd = txns[j].cmd
      BY <1>4, RowsLast DEF BackoffElapses, FinalInv
    <2>2. /\ txns'[i] = [txns[i] EXCEPT !.due = TRUE]
          /\ \A j \in TxIDs : j # i => txns'[j] = txns[j]
          /\ txns[i].state = "PENDING_REFERENCE" /\ txns[i] \in TxRows
      BY <1>4 DEF BackoffElapses, Persisted, TypeInv, TypeOK, TablesType
    <2>3. txns'[i].state = "PENDING_REFERENCE"
      BY <2>2 DEF TxRows
    <2>4. \A j \in TxIDs : Counts(j) <=> Counts(j)'
      BY <2>2, <2>3 DEF Counts, Persisted
    <2> QED
      BY <2>1, <2>4, KeepsBook
  <1>5. CASE UNCHANGED vars
    BY <1>5, KeepsBook DEF vars, tables, Counts, Persisted
  <1> QED
    BY <1>1, <1>2, <1>3, <1>4, <1>5, OneMoves

MoveInv == DecisionsHold /\ BookInv

\* Before any transaction nothing has moved.
LEMMA InitMove == Init => MoveInv
  <1> SUFFICES ASSUME Init PROVE MoveInv
    OBVIOUS
  <1>1. \A i \in TxIDs : ~Counts(i)
    BY DEF Init, Counts, Persisted
  <1>2. \A w \in Wallets : 1 .. Len(ledger[w]) = {}
    BY DEF Init
  <1>3. BookInv
    BY <1>1, <1>2
    DEF BookInv, EntriesBook, EntriesDistinct, MovementsBooked, ReversalsUndo
  <1>4. DecisionsHold
    BY DEF Init, DecisionsHold, DecisionHolds, Decided, Directions
  <1> QED
    BY <1>3, <1>4 DEF MoveInv

\* The invariant of movements is inductive.
LEMMA NextMove == TypeInv /\ RowInv /\ FinalInv /\ MoveInv /\ [Next]_vars => MoveInv'
  BY NextDecisions, NextBook DEF MoveInv

\* In every instance money moves exactly once per accepted transaction: each
\* PROCESSED row but a LOSS has one ledger entry, in its own wallet and for
\* its amount, and there is no other entry, whatever was retried, redelivered
\* or cut short.
THEOREM MovesExactlyOnce == Spec => []ExactlyOnceMovement
  <1>1. TypeInv /\ BookInv => ExactlyOnceMovement
    <2> SUFFICES ASSUME TypeInv, BookInv, NEW w \in Wallets
                 PROVE  LET l == ledger[w]
                        IN  /\ \A j, k \in 1 .. Len(l) : l[j].tx = l[k].tx => j = k
                            /\ {l[k].tx : k \in 1 .. Len(l)} =
                                 {i \in Persisted : /\ txns[i].cmd.wallet = w
                                                    /\ txns[i].state = "PROCESSED"
                                                    /\ txns[i].cmd.type # "LOSS"}
                            /\ \A k \in 1 .. Len(l) : l[k].value = txns[l[k].tx].cmd.amount
      BY DEF ExactlyOnceMovement
    <2> DEFINE l == ledger[w]
    <2>1. \A j, k \in 1 .. Len(l) : l[j].tx = l[k].tx => j = k
      BY DEF BookInv, EntriesDistinct
    <2>2. \A k \in 1 .. Len(l) : EntryBooks(w, l[k])
      BY DEF BookInv, EntriesBook
    <2>3. \A k \in 1 .. Len(l) : /\ l[k].tx \in Persisted /\ txns[l[k].tx].cmd.wallet = w
                                 /\ txns[l[k].tx].state = "PROCESSED"
                                 /\ txns[l[k].tx].cmd.type # "LOSS"
                                 /\ l[k].value = txns[l[k].tx].cmd.amount
      BY <2>2 DEF EntryBooks, Counts
    <2>4. ASSUME NEW i \in Persisted, txns[i].cmd.wallet = w, txns[i].state = "PROCESSED",
                 txns[i].cmd.type # "LOSS"
          PROVE  \E k \in 1 .. Len(l) : l[k].tx = i
      BY <2>4 DEF BookInv, MovementsBooked, Counts, Persisted
    <2> QED
      BY <2>1, <2>3, <2>4
  <1>2. MoveInv => BookInv
    BY DEF MoveInv
  <1> QED
    BY <1>1, <1>2, InitType, NextType, InitFinal, NextRows, NextFinal, InitMove, NextMove, PTL
    DEF Spec

\* In every instance a processed REFUND or ROLLBACK undoes exactly one earlier
\* movement of its wallet, the one it names, and no other reversal undoes that
\* one again: validReference saw a PROCESSED row, which never changes, and the
\* reversal index lets one row consume it.
THEOREM ReversalsAreSound == Spec => []ReversalSound
  <1>1. TypeInv /\ BookInv /\ UniqueRows => ReversalSound
    <2> SUFFICES ASSUME TypeInv, BookInv, UniqueRows, NEW i \in Persisted,
                        txns[i].state = "PROCESSED", txns[i].cmd.type \in Reversals
                 PROVE  /\ Undoes(i)
                        /\ \A j \in Persisted \ {i} :
                             ~(/\ txns[j].state = "PROCESSED"
                               /\ txns[j].cmd.type \in Reversals
                               /\ txns[j].cmd.prov = txns[i].cmd.prov
                               /\ txns[j].cmd.ref = txns[i].cmd.ref)
      BY DEF ReversalSound, Undoes, Reverses
    <2>1. Counts(i) /\ i \in TxIDs
      BY DEF Counts, Reversals, Persisted
    <2>2. Undoes(i)
      BY <2>1 DEF BookInv, ReversalsUndo
    <2>3. txns[i].cmd.ref # NoReference
      <3>1. PICK j \in FindByExternal(txns[i].cmd.prov, txns[i].cmd.ref) : TRUE
        BY <2>2 DEF Undoes
      <3>2. txns[j].cmd.ext = txns[i].cmd.ref /\ txns[j].cmd.ext \in Identifiers
        BY <3>1 DEF FindByExternal, Persisted, TypeInv, TypeOK, TablesType, TxRows, CommandSet
      <3> QED
        BY <3>2, RequestsAssumption
    <2>4. \A j \in Persisted \ {i} :
             ~(/\ txns[j].state = "PROCESSED"
               /\ txns[j].cmd.prov = txns[i].cmd.prov
               /\ txns[j].cmd.ref = txns[i].cmd.ref)
      BY <2>3 DEF UniqueRows, Clash, SameReversal
    <2> QED
      BY <2>2, <2>4
  <1>2. MoveInv => BookInv
    BY DEF MoveInv
  <1>3. IdentityInv => UniqueRows
    BY DEF IdentityInv
  <1> QED
    BY <1>1, <1>2, <1>3, InitType, NextType, InitFinal, NextRows, NextFinal, InitIdentity,
       NextIdentity, InitMove, NextMove, PTL
    DEF Spec

-----------------------------------------------------------------------------
(* The outbox.                                                             *)

(* Ordering ids are drawn from the sequence.                               *)
OrdersDrawn == \A e \in outbox : e.ord <= ordering

BalanceChanges(events) == {e \in events : e.kind = "WalletBalanceChanged"}

(* The events session s is about to commit are its own, one of them for    *)
(* its wallet when money moves.                                            *)
OwnEvents(s) ==
    LET c == req[s]  v == verdict[s]  w == snap[s]
    IN  /\ \A e \in staged[s].events :
              e.wallet = c.wallet /\ e.tx = uid[s] /\ e.ord <= ordering
        /\ Moves(c, v, w) =>
              \E e : BalanceChanges(staged[s].events) = {e} /\ e.version = w.version + 1
        /\ ~Moves(c, v, w) => BalanceChanges(staged[s].events) = {}

StagedEvents == \A s \in Sessions : staged[s] # None => OwnEvents(s)

(* They come after every committed event of their aggregate.               *)
StagedAfter ==
    \A s \in Sessions : staged[s] # None =>
        \A e \in staged[s].events, f \in outbox : SameAggregate(e, f) => f.ord < e.ord

OutboxInv == OrdersDrawn /\ StagedEvents /\ StagedAfter

\* The events of a movement: the transaction's, then the wallet's.
LEMMA TwoEvents ==
    ASSUME NEW first \in Nat, NEW w, NEW i, NEW version
    PROVE  LET es == EventsFrom(first, <<"WagerTransactionProcessed", "WalletBalanceChanged">>,
                                w, i, version)
               change == [kind |-> "WalletBalanceChanged", wallet |-> w, tx |-> i,
                          ord |-> first + 2, version |-> version]
           IN  /\ \A e \in es : e.wallet = w /\ e.tx = i /\ first < e.ord /\ e.ord <= first + 2
               /\ BalanceChanges(es) = {change}
  <1> DEFINE kinds == <<"WagerTransactionProcessed", "WalletBalanceChanged">>
             es == EventsFrom(first, kinds, w, i, version)
             change == [kind |-> "WalletBalanceChanged", wallet |-> w, tx |-> i,
                        ord |-> first + 2, version |-> version]
             settled == [kind |-> "WagerTransactionProcessed", wallet |-> w, tx |-> i,
                         ord |-> first + 1, version |-> version]
  <1>1. DOMAIN kinds = {1, 2} /\ kinds[1] = "WagerTransactionProcessed"
        /\ kinds[2] = "WalletBalanceChanged"
    OBVIOUS
  <1> HIDE DEF kinds
  <1>2. es = {settled, change}
    BY <1>1 DEF EventsFrom
  <1>3. /\ settled.wallet = w /\ settled.tx = i /\ settled.ord = first + 1
        /\ settled.kind = "WagerTransactionProcessed"
        /\ change.wallet = w /\ change.tx = i /\ change.ord = first + 2
        /\ change.kind = "WalletBalanceChanged"
    OBVIOUS
  <1> HIDE DEF es, change, settled
  <1>4. BalanceChanges(es) = {change}
    BY <1>2, <1>3 DEF BalanceChanges
  <1>5. \A e \in es : e.wallet = w /\ e.tx = i /\ first < e.ord /\ e.ord <= first + 2
    BY <1>2, <1>3
  <1> QED
    BY <1>4, <1>5 DEF es, change, kinds

QuietKinds ==
    {<<>>, <<"WagerTransactionPendingReference">>, <<"WagerTransactionProcessed">>,
     <<"WagerTransactionRejected">>}

\* The events of a decision that moves nothing: at most the transaction's.
LEMMA OneEvent ==
    ASSUME NEW first \in Nat, NEW w, NEW i, NEW version,
           NEW kinds \in QuietKinds
    PROVE  LET es == EventsFrom(first, kinds, w, i, version)
           IN  /\ \A e \in es : /\ e.wallet = w /\ e.tx = i
                                /\ first < e.ord /\ e.ord <= first + Len(kinds)
               /\ BalanceChanges(es) = {}
  <1> DEFINE es == EventsFrom(first, kinds, w, i, version)
  <1>1. ASSUME NEW e \in es
        PROVE  /\ e.wallet = w /\ e.tx = i /\ e.kind # "WalletBalanceChanged"
               /\ first < e.ord /\ e.ord <= first + Len(kinds)
    <2>1. PICK k \in DOMAIN kinds :
            e = [kind |-> kinds[k], wallet |-> w, tx |-> i, ord |-> first + k,
                 version |-> version]
      BY <1>1 DEF EventsFrom
    <2>2. k = 1 /\ Len(kinds) = 1 /\ kinds[k] # "WalletBalanceChanged"
      BY DEF QuietKinds
    <2> QED
      BY <2>1, <2>2
  <1> QED
    BY <1>1 DEF BalanceChanges

\* The events a session stages.
LEMMA EventsOfWrite ==
    ASSUME TypeInv, NEW s \in Sessions, pc[s] = "write"
    PROVE  LET c == req[s]  v == verdict[s]  w == snap[s]
               es == WritesOf(s).events
           IN  /\ \A e \in es : /\ e.wallet = c.wallet /\ e.tx = uid[s]
                                /\ ordering < e.ord
                                /\ e.ord <= ordering + Len(EventKindsOf(c, v, w))
               /\ Moves(c, v, w) =>
                    \E e : BalanceChanges(es) = {e} /\ e.version = w.version + 1
               /\ ~Moves(c, v, w) => BalanceChanges(es) = {}
  <1> DEFINE c == req[s]
             v == verdict[s]
             w == snap[s]
             es == WritesOf(s).events
  <1>1. es = EventsFrom(ordering, EventKindsOf(c, v, w), c.wallet, uid[s], EventVersion(c, v, w))
    BY DEF WritesOf
  <1>2. ordering \in Nat
    BY DEF TypeInv, TypeOK, CountersType
  <1>3. CASE Moves(c, v, w)
    <2>1. /\ EventKindsOf(c, v, w) = <<"WagerTransactionProcessed", "WalletBalanceChanged">>
          /\ EventVersion(c, v, w) = w.version + 1
      BY <1>3 DEF EventKindsOf, EventVersion, Moves, Directions
    <2>2. Len(<<"WagerTransactionProcessed", "WalletBalanceChanged">>) = 2
      OBVIOUS
    <2> DEFINE change == [kind |-> "WalletBalanceChanged", wallet |-> c.wallet, tx |-> uid[s],
                          ord |-> ordering + 2, version |-> w.version + 1]
    <2> HIDE DEF es
    <2>3. /\ \A e \in es : /\ e.wallet = c.wallet /\ e.tx = uid[s]
                           /\ ordering < e.ord /\ e.ord <= ordering + 2
          /\ BalanceChanges(es) = {change}
      BY <1>1, <1>2, <2>1, TwoEvents
    <2>4. change.version = w.version + 1
      OBVIOUS
    <2> HIDE DEF change
    <2>5. \A e \in es : e.ord <= ordering + Len(EventKindsOf(c, v, w))
      BY <2>1, <2>2, <2>3
    <2> QED
      BY <1>3, <2>3, <2>4, <2>5 DEF es
  <1>4. CASE ~Moves(c, v, w)
    <2>1. EventKindsOf(c, v, w) \in QuietKinds
      <3>1. CASE v = "RETRY"
        BY <1>4, <3>1 DEF EventKindsOf, QuietKinds
      <3>2. CASE v = "PENDING_REFERENCE"
        BY <1>4, <3>2 DEF EventKindsOf, QuietKinds
      <3>3. CASE v = "NONE"
        BY <1>4, <3>3 DEF EventKindsOf, QuietKinds
      <3>4. CASE v \notin {"RETRY", "PENDING_REFERENCE", "NONE"}
        BY <1>4, <3>4 DEF EventKindsOf, QuietKinds
      <3> QED
        BY <3>1, <3>2, <3>3, <3>4
    <2> HIDE DEF es
    <2>2. /\ \A e \in es : /\ e.wallet = c.wallet /\ e.tx = uid[s] /\ ordering < e.ord
                           /\ e.ord <= ordering + Len(EventKindsOf(c, v, w))
          /\ BalanceChanges(es) = {}
      BY <1>1, <1>2, <2>1, OneEvent
    <2> QED
      BY <1>4, <2>2 DEF es
  <1> QED
    BY <1>3, <1>4

\* Staged writes stay as they are until their transaction ends.
LEMMA StagedStands ==
    ASSUME TypeInv, [Next]_vars, NEW t \in Sessions, staged'[t] # None
    PROVE  Stands(t) \/ Write(t)
  <1>1. CASE Acts(t) /\ ~Write(t)
    <2>1. ~EndTx(t)
      BY DEF EndTx, TypeInv, TypeOK, LocalType
    <2>2. staged'[t] = staged[t] /\ pc[t] # "commit"
      BY <1>1, <2>1
      DEF Acts, Step, Abort, InsertInbox, LockReferenceIdentity, Lookup, LockWallet, Relookup,
          Decide, ReadReference, IdentityRace, ConflictAtWrite, WriteFails, Resolve, Commit,
          AnswerExisting, BeginProcess, BeginMessage, Begin, ClaimPending, local
    <2> QED
      BY <2>2 DEF TypeInv, SessionShape, Shape
  <1> QED
    BY <1>1, OneMoves, OthersStand, TableStepStands

(* Event e is committed by session s.                                      *)
CommitsEvent(s, e) == Commit(s) /\ staged[s] # None /\ e \in staged[s].events

(* Event e belongs to the opening o.                                       *)
OpensEvent(o, e) ==
    /\ OpenWallet(o) /\ o.amount # 0
    /\ e.wallet = o.wallet /\ e.tx = issued + 1
    /\ ordering < e.ord /\ e.ord <= ordering + 2 /\ ordering' = ordering + 2

\* Events become visible with the commit of their transaction or their wallet.
LEMMA NewEvents ==
    ASSUME TypeInv, [Next]_vars, NEW e \in outbox', e \notin outbox
    PROVE  \/ \E s \in Sessions : CommitsEvent(s, e)
           \/ \E o \in OpenRequests : OpensEvent(o, e)
  <1>0. ordering \in Nat
    BY DEF TypeInv, TypeOK, CountersType
  <1>1. ASSUME NEW s \in Sessions, Commit(s) PROVE CommitsEvent(s, e)
    BY <1>1 DEF Commit, CommitsEvent
  <1>2. ASSUME NEW s \in Sessions, Acts(s), ~Commit(s) PROVE FALSE
    BY <1>2, OnlyCommitWrites DEF tables
  <1>3. ASSUME NEW o \in OpenRequests, OpenWallet(o) PROVE OpensEvent(o, e)
    <2>1. /\ o.amount # 0 /\ ordering' = ordering + 2
          /\ e \in EventsFrom(ordering, <<"WagerTransactionProcessed", "WalletBalanceChanged">>,
                              o.wallet, issued + 1, 1)
      BY <1>3 DEF OpenWallet
    <2>2. /\ e.wallet = o.wallet /\ e.tx = issued + 1
          /\ ordering < e.ord /\ e.ord <= ordering + 2
      BY <1>0, <2>1, TwoEvents
    <2> QED
      BY <1>3, <2>1, <2>2 DEF OpensEvent
  <1>4. ASSUME NEW i \in TxIDs, BackoffElapses(i) PROVE FALSE
    BY <1>4 DEF BackoffElapses
  <1>5. CASE UNCHANGED vars
    BY <1>5 DEF vars, tables
  <1> QED
    BY <1>1, <1>2, <1>3, <1>4, <1>5, OneMoves

\* The sequence only advances.
LEMMA OrderingGrows ==
    ASSUME TypeInv, [Next]_vars
    PROVE  ordering \in Nat /\ ordering' \in Nat /\ ordering <= ordering'
  <1>1. ordering \in Nat /\ ordering' \in Nat
    BY NextType DEF TypeInv, TypeOK, CountersType
  <1>2. ASSUME NEW s \in Sessions, Write(s) PROVE ordering <= ordering'
    BY <1>1, <1>2, WritesType DEF Write
  <1>3. ASSUME NEW s \in Sessions, Acts(s), ~Write(s) PROVE ordering' = ordering
    BY <1>3
    DEF Acts, Step, Abort, InsertInbox, LockReferenceIdentity, Lookup, LockWallet, Relookup,
        Decide, ReadReference, IdentityRace, ConflictAtWrite, WriteFails, Resolve, Commit,
        AnswerExisting, BeginProcess, BeginMessage, Begin, ClaimPending, counters
  <1>4. ASSUME NEW o \in OpenRequests, OpenWallet(o) PROVE ordering <= ordering'
    BY <1>1, <1>4 DEF OpenWallet
  <1>5. CASE UNCHANGED vars \/ \E i \in TxIDs : BackoffElapses(i)
    BY <1>1, <1>5 DEF vars, BackoffElapses, counters
  <1> QED
    BY <1>1, <1>2, <1>3, <1>4, <1>5, OneMoves

\* Events of two open transactions belong to different aggregates: their rows
\* differ, and who changes a balance holds the wallet row.
LEMMA AggregatesDiffer ==
    ASSUME TypeInv, LockInv, RowInv, HeldRow, StagedEvents,
           NEW s \in Sessions, NEW t \in Sessions, s # t,
           staged[s] # None, staged[t] # None,
           NEW e \in staged[s].events, NEW f \in staged[t].events
    PROVE  ~SameAggregate(e, f)
  <1>1. /\ e.wallet = req[s].wallet /\ e.tx = uid[s]
        /\ f.wallet = req[t].wallet /\ f.tx = uid[t]
    BY DEF StagedEvents, OwnEvents
  <1>2. uid[s] # uid[t]
    BY DistinctRows DEF TypeInv, SessionShape, Shape
  <1>3. ASSUME e.kind = "WalletBalanceChanged", f.kind = "WalletBalanceChanged"
        PROVE  req[s].wallet # req[t].wallet
    <2>1. e \in BalanceChanges(staged[s].events) /\ f \in BalanceChanges(staged[t].events)
      BY <1>3 DEF BalanceChanges
    <2>2. Moves(req[s], verdict[s], snap[s]) /\ Moves(req[t], verdict[t], snap[t])
      BY <2>1 DEF StagedEvents, OwnEvents
    <2>3. snap[s] # None /\ snap[t] # None
      BY <2>2, NoneAssumption DEF RowInv, StagedFromSnapshot
    <2> QED
      BY <2>3 DEF LockInv, OneLockHolder
  <1> QED
    BY <1>1, <1>2, <1>3 DEF SameAggregate

\* A wallet that opens has no staged event.
LEMMA OpeningDiffers ==
    ASSUME TypeInv, LockInv, RowInv, StagedEvents, NEW s \in Sessions, staged[s] # None,
           NEW e \in staged[s].events, NEW o \in OpenRequests, NEW f, OpensEvent(o, f)
    PROVE  ~SameAggregate(e, f)
  <1>1. /\ e.wallet = req[s].wallet /\ e.tx = uid[s]
        /\ f.wallet = o.wallet /\ f.tx = issued + 1 /\ wallets[o.wallet] = None
    BY DEF StagedEvents, OwnEvents, OpensEvent, OpenWallet
  <1>2. uid[s] # issued + 1
    BY DEF TypeInv, TypeOK, CountersType, SessionShape, Shape, RowInv, IDsFresh, TxIDs
  <1>3. ASSUME e.kind = "WalletBalanceChanged" PROVE req[s].wallet # o.wallet
    <2>1. e \in BalanceChanges(staged[s].events)
      BY <1>3 DEF BalanceChanges
    <2>2. Moves(req[s], verdict[s], snap[s])
      BY <2>1 DEF StagedEvents, OwnEvents
    <2>3. snap[s] # None
      BY <2>2, NoneAssumption DEF RowInv, StagedFromSnapshot
    <2> QED
      BY <1>1, <2>3 DEF LockInv, SnapshotCurrent
  <1> QED
    BY <1>1, <1>2, <1>3 DEF SameAggregate

\* The outbox invariant is inductive relative to locks and rows.
LEMMA NextOutbox ==
    ASSUME TypeInv, LockInv, RowInv, HeldRow, OutboxInv, [Next]_vars
    PROVE  OutboxInv'
  <1>0. ordering \in Nat /\ ordering' \in Nat /\ ordering <= ordering'
    BY OrderingGrows
  <1>1. ASSUME NEW e \in Events PROVE e.ord \in Nat
    BY DEF Events
  <1>2. OrdersDrawn'
    <2> SUFFICES ASSUME NEW e \in outbox' PROVE e.ord <= ordering'
      BY DEF OrdersDrawn
    <2>0. e.ord \in Nat
      BY <1>1, NextType DEF TypeInv, TypeOK, TablesType
    <2>1. CASE e \in outbox
      BY <1>0, <2>0, <2>1 DEF OutboxInv, OrdersDrawn
    <2>2. ASSUME NEW s \in Sessions, CommitsEvent(s, e) PROVE e.ord <= ordering'
      BY <1>0, <2>0, <2>2 DEF CommitsEvent, OutboxInv, StagedEvents, OwnEvents
    <2>3. ASSUME NEW o \in OpenRequests, OpensEvent(o, e) PROVE e.ord <= ordering'
      BY <2>3 DEF OpensEvent
    <2> QED
      BY <2>1, <2>2, <2>3, NewEvents
  <1>3. ASSUME NEW t \in Sessions, Write(t)
        PROVE  /\ staged'[t] = WritesOf(t) /\ pc[t] = "write" /\ outbox' = outbox
               /\ ordering' = ordering + Len(EventKindsOf(req[t], verdict[t], snap[t]))
               /\ UNCHANGED <<req, uid, snap, verdict>>
    BY <1>3 DEF Write, tables, TypeInv, TypeOK, LocalType
  <1>4. ASSUME NEW t \in Sessions, staged'[t] # None, Stands(t)
        PROVE  staged'[t] = staged[t] /\ staged[t] # None
    BY <1>4 DEF Stands
  <1>5. StagedEvents'
    <2> SUFFICES ASSUME NEW t \in Sessions, staged'[t] # None PROVE OwnEvents(t)'
      BY DEF StagedEvents
    <2>1. CASE Stands(t)
      <3>1. OwnEvents(t) /\ staged[t].events \subseteq Events
        BY <1>4, <2>1 DEF OutboxInv, StagedEvents, TypeInv, TypeOK, LocalType, StagedWrites
      <3>2. /\ req'[t] = req[t] /\ uid'[t] = uid[t] /\ snap'[t] = snap[t]
            /\ verdict'[t] = verdict[t] /\ staged'[t] = staged[t]
        BY <2>1 DEF Stands
      <3>3. \A e \in staged[t].events : e.ord <= ordering'
        BY <1>0, <1>1, <3>1 DEF OwnEvents
      <3> QED
        BY <3>1, <3>2, <3>3 DEF OwnEvents, BalanceChanges, Moves, Settles
    <2>2. CASE Write(t)
      <3>1. \A e \in WritesOf(t).events : /\ e.wallet = req[t].wallet /\ e.tx = uid[t]
                                          /\ e.ord <= ordering'
        BY <1>3, <2>2, EventsOfWrite
      <3>2. /\ Moves(req[t], verdict[t], snap[t]) =>
                 \E e : /\ BalanceChanges(WritesOf(t).events) = {e}
                        /\ e.version = snap[t].version + 1
            /\ ~Moves(req[t], verdict[t], snap[t]) => BalanceChanges(WritesOf(t).events) = {}
        BY <1>3, <2>2, EventsOfWrite
      <3> QED
        BY <1>3, <2>2, <3>1, <3>2 DEF OwnEvents, BalanceChanges, Moves, Settles
    <2> QED
      BY <2>1, <2>2, StagedStands
  <1>6. StagedAfter'
    <2> SUFFICES ASSUME NEW t \in Sessions, staged'[t] # None,
                        NEW e \in staged'[t].events, NEW f \in outbox', SameAggregate(e, f)
                 PROVE  f.ord < e.ord
      BY DEF StagedAfter, SameAggregate
    <2>1. CASE Write(t)
      <3>1. f \in outbox /\ e \in WritesOf(t).events /\ pc[t] = "write"
        BY <1>3, <2>1
      <3>2. f.ord <= ordering /\ f.ord \in Nat
        BY <1>1, <3>1 DEF OutboxInv, OrdersDrawn, TypeInv, TypeOK, TablesType
      <3>3. ordering < e.ord
        BY <3>1, EventsOfWrite
      <3>4. e \in Events
        BY <3>1, WritesType DEF StagedWrites
      <3> QED
        BY <1>0, <1>1, <3>2, <3>3, <3>4
    <2>2. CASE Stands(t) /\ f \in outbox
      BY <1>4, <2>2 DEF OutboxInv, StagedAfter
    <2>3. ASSUME Stands(t), NEW s \in Sessions, CommitsEvent(s, f) PROVE FALSE
      <3>1. staged[s] # None /\ f \in staged[s].events /\ staged'[s] = None
        BY <2>3 DEF CommitsEvent, Commit, EndTx, TypeInv, TypeOK, LocalType
      <3>2. s # t /\ staged[t] # None /\ e \in staged[t].events
        BY <1>4, <2>3, <3>1
      <3> QED
        BY <3>1, <3>2, AggregatesDiffer DEF OutboxInv
    <2>4. ASSUME Stands(t), NEW o \in OpenRequests, OpensEvent(o, f) PROVE FALSE
      BY <1>4, <2>4, OpeningDiffers DEF OutboxInv
    <2> QED
      BY <2>1, <2>2, <2>3, <2>4, StagedStands, NewEvents
  <1> QED
    BY <1>2, <1>5, <1>6 DEF OutboxInv

\* In every instance a committed event never appears behind one of its
\* aggregate that the publisher may have sent already, although ordering ids
\* are drawn before the commit: whoever writes to an aggregate holds its
\* wallet row or its transaction row from before the draw to the commit.
THEOREM EventsAppearInOrder == Spec => OutboxOrder
  <1>1. Init => LockInv /\ OutboxInv
    <2> SUFFICES ASSUME Init PROVE LockInv /\ OutboxInv
      OBVIOUS
    <2>1. LockInv
      BY DEF Init, LockInv, SnapshotCurrent, OneLockHolder, WrittenUnderLock
    <2>2. OutboxInv
      BY DEF Init, OutboxInv, OrdersDrawn, StagedEvents, StagedAfter
    <2> QED
      BY <2>1, <2>2
  <1>2. TypeInv /\ LockInv /\ RowInv /\ FinalInv /\ OutboxInv /\ [Next]_vars => OutboxInv'
    BY NextOutbox DEF FinalInv
  <1>3. TypeInv /\ OutboxInv /\ [Next]_vars =>
          [\A e \in outbox' \ outbox : \A f \in outbox :
              SameAggregate(e, f) => f.ord < e.ord]_vars
    <2> SUFFICES ASSUME TypeInv, OutboxInv, [Next]_vars, NEW e \in outbox' \ outbox,
                        NEW f \in outbox, SameAggregate(e, f)
                 PROVE  f.ord < e.ord
      OBVIOUS
    <2>0. e.ord \in Nat /\ f.ord \in Nat /\ f.ord <= ordering /\ ordering \in Nat
      BY NextType
      DEF OutboxInv, OrdersDrawn, TypeInv, TypeOK, TablesType, CountersType, Events
    <2>1. ASSUME NEW s \in Sessions, CommitsEvent(s, e) PROVE f.ord < e.ord
      BY <2>1 DEF CommitsEvent, OutboxInv, StagedAfter
    <2>2. ASSUME NEW o \in OpenRequests, OpensEvent(o, e) PROVE f.ord < e.ord
      BY <2>0, <2>2 DEF OpensEvent
    <2> QED
      BY <2>1, <2>2, NewEvents
  <1> QED
    BY <1>1, <1>2, <1>3, InitType, NextType, NextLocks, InitFinal, NextRows, NextFinal, PTL
    DEF Spec, OutboxOrder

-----------------------------------------------------------------------------
(* The balance changes of a wallet and its ledger.                         *)

ChangesOf(w) == {e \in outbox : e.kind = "WalletBalanceChanged" /\ e.wallet = w}

(* What WalletEventsMirrorLedger says of wallet w, and that no event is    *)
(* ahead of the ledger.                                                    *)
Mirrors(w) ==
    /\ IsFiniteSet(ChangesOf(w)) /\ Cardinality(ChangesOf(w)) = Len(ledger[w])
    /\ \A k \in 1 .. Len(ledger[w]) :
         \E e \in ChangesOf(w) :
            e.tx = ledger[w][k].tx /\ e.version = k + VersionOffset(w)
    /\ \A e, f \in ChangesOf(w) : e.version < f.version => e.ord < f.ord
    /\ \A e \in ChangesOf(w) : e.version <= Len(ledger[w]) + VersionOffset(w)

MirrorInv == \A w \in Wallets : Mirrors(w)

\* Nothing of wallet w changes.
LEMMA KeepsMirror ==
    ASSUME NEW w \in Wallets, Mirrors(w), ChangesOf(w)' = ChangesOf(w),
           ledger'[w] = ledger[w], VersionOffset(w)' = VersionOffset(w)
    PROVE  Mirrors(w)'
  BY DEF Mirrors

\* An entry is booked and its event becomes visible, after all others.
LEMMA AppendsMirror ==
    ASSUME TypeInv, TypeInv', NEW w \in Wallets, Mirrors(w), NEW x \in Entries, NEW e,
           ledger' = [ledger EXCEPT ![w] = Append(@, x)],
           ChangesOf(w)' = ChangesOf(w) \cup {e}, e.tx = x.tx,
           e.version = Len(ledger[w]) + 1 + VersionOffset(w)',
           \A f \in ChangesOf(w) : f.ord < e.ord,
           Len(ledger[w]) = 0 \/ VersionOffset(w)' = VersionOffset(w)
    PROVE  Mirrors(w)'
  <1>0. PICK n, es, d : n = Len(ledger[w]) /\ es = ChangesOf(w) /\ d = VersionOffset(w)'
    OBVIOUS
  <1>1. /\ n \in Nat /\ Len(ledger'[w]) = n + 1 /\ ledger'[w][n + 1] = x
        /\ \A k \in 1 .. n : ledger'[w][k] = ledger[w][k]
    <2>1. /\ Len(ledger[w]) \in Nat /\ Len(ledger'[w]) = Len(ledger[w]) + 1
          /\ ledger'[w][Len(ledger[w]) + 1] = x
          /\ \A k \in 1 .. Len(ledger[w]) : ledger'[w][k] = ledger[w][k]
      BY AppendOne
    <2> QED
      BY <1>0, <2>1
  <1>2. d \in {0, 1} /\ VersionOffset(w) \in {0, 1}
    BY <1>0 DEF VersionOffset
  <1>3. \A f \in es \cup {e} : f.ord \in Nat /\ f.version \in Nat
    BY <1>0 DEF ChangesOf, TypeInv, TypeOK, TablesType, Events
  <1>4. e \notin es
    BY <1>0, <1>3
  <1>5. IsFiniteSet(es) /\ Cardinality(es) = n
    BY <1>0 DEF Mirrors
  <1>6. IsFiniteSet(es \cup {e}) /\ Cardinality(es \cup {e}) = n + 1
    BY <1>4, <1>5, FS_AddElement
  <1>7. n = 0 => es = {}
    BY <1>5, FS_EmptySet
  <1>8. /\ \A k \in 1 .. n : \E f \in es : f.tx = ledger[w][k].tx /\ f.version = k + d
        /\ \A f \in es : f.version <= n + d
    BY <1>0, <1>1, <1>7 DEF Mirrors
  <1>9. \A k \in 1 .. n + 1 : \E f \in es \cup {e} :
          f.tx = ledger'[w][k].tx /\ f.version = k + d
    <2> SUFFICES ASSUME NEW k \in 1 .. n + 1
                 PROVE  \E f \in es \cup {e} : f.tx = ledger'[w][k].tx /\ f.version = k + d
      OBVIOUS
    <2>1. CASE k = n + 1
      BY <1>0, <1>1, <2>1
    <2>2. CASE k \in 1 .. n
      BY <1>1, <1>8, <2>2
    <2> QED
      BY <1>1, <2>1, <2>2
  <1>10. \A f, g \in es \cup {e} : f.version < g.version => f.ord < g.ord
    <2> SUFFICES ASSUME NEW f \in es \cup {e}, NEW g \in es \cup {e}, f.version < g.version
                 PROVE  f.ord < g.ord
      OBVIOUS
    <2>1. CASE g = e
      BY <1>0, <1>3, <2>1
    <2>2. CASE g # e /\ f = e
      <3>1. g.version <= n + d /\ e.version = n + 1 + d
        BY <1>0, <1>8, <2>2
      <3> QED
        BY <1>1, <1>2, <1>3, <2>2, <3>1
    <2>3. CASE g # e /\ f # e
      BY <1>0, <2>3 DEF Mirrors
    <2> QED
      BY <2>1, <2>2, <2>3
  <1>11. \A f \in es \cup {e} : f.version <= (n + 1) + d
    BY <1>0, <1>1, <1>2, <1>3, <1>8
  <1>12. ChangesOf(w)' = es \cup {e} /\ VersionOffset(w)' = d
    BY <1>0
  <1> QED
    BY <1>1, <1>6, <1>9, <1>10, <1>11, <1>12 DEF Mirrors

\* A step that books nothing and shows no balance change.
LEMMA QuietMirror ==
    ASSUME TypeInv, ChainInv, MirrorInv, ledger' = ledger,
           BalanceChanges(outbox') = BalanceChanges(outbox),
           \A i \in Persisted : txns'[i] # None /\ txns'[i].cmd = txns[i].cmd
    PROVE  MirrorInv'
  <1> SUFFICES ASSUME NEW w \in Wallets PROVE Mirrors(w)'
    BY DEF MirrorInv
  <1>1. ChangesOf(w)' = ChangesOf(w)
    BY DEF ChangesOf, BalanceChanges
  <1>2. VersionOffset(w)' = VersionOffset(w)
    BY OffsetKept
  <1> QED
    BY <1>1, <1>2, KeepsMirror DEF MirrorInv

\* A wallet and its ledger agree on the version.
LEMMA VersionCounts ==
    ASSUME ChainInv, NEW w \in Wallets, wallets[w] # None
    PROVE  wallets[w].version = Len(ledger[w]) + VersionOffset(w)
  <1>1. Matches(w)
    BY MatchesEach DEF ChainInv
  <1> QED
    BY <1>1 DEF Matches

\* A movement shows one event, of the version it wrote.
LEMMA CommitMirror ==
    ASSUME TypeInv, TypeInv', LockInv, RowInv, FinalInv, ChainInv, ChainInv', OutboxInv,
           MirrorInv, [Next]_vars, NEW s \in Sessions, Commit(s), staged[s] # None
    PROVE  MirrorInv'
  <1>0. PICK w, i : w = req[s].wallet /\ i = uid[s]
    OBVIOUS
  <1> DEFINE c == req[s]
             v == verdict[s]
             r == snap[s]
  <1>1. /\ w \in Wallets /\ i \in TxIDs /\ pc[s] = "commit" /\ c \in CommandSet
        /\ outbox' = outbox \cup staged[s].events
    BY <1>0 DEF Commit, TypeInv, SessionShape, Shape, CommandSet
  <1>2. \A j \in Persisted : txns'[j] # None /\ txns'[j].cmd = txns[j].cmd
    BY RowsLast DEF FinalInv, Persisted
  <1>3. OwnEvents(s)
    BY DEF OutboxInv, StagedEvents
  <1>4. /\ staged[s].entry = EntryOf(i, c, v, r) /\ staged[s].wallet = WalletOf(c, v, r)
        /\ Moves(c, v, r) => r \in WalletRows
    BY <1>0 DEF RowInv, StagedFromSnapshot
  <1>5. CASE ~Moves(c, v, r)
    <2>1. ledger' = ledger
      BY <1>4, <1>5 DEF Commit, EntryOf
    <2>2. BalanceChanges(staged[s].events) = {}
      BY <1>3, <1>5 DEF OwnEvents
    <2>3. BalanceChanges(outbox') = BalanceChanges(outbox)
      BY <1>1, <2>2 DEF BalanceChanges
    <2> QED
      BY <1>2, <2>1, <2>3, QuietMirror
  <1>6. CASE Moves(c, v, r)
    <2>0. PICK x : x = EntryOf(i, c, v, r)
      OBVIOUS
    <2>1. x \in Entries /\ x # None /\ x.tx = i
      <3>1. x \in Entries
        BY <1>1, <1>4, <1>6, <2>0, BalanceAfterType
        DEF EntryOf, Entries, WalletRows, CommandSet, Moves
      <3> QED
        BY <1>6, <2>0, <3>1, NoneAssumption DEF EntryOf
    <2>2. PICK e : BalanceChanges(staged[s].events) = {e} /\ e.version = r.version + 1
      BY <1>3, <1>6 DEF OwnEvents
    <2>3. /\ e \in staged[s].events /\ e.kind = "WalletBalanceChanged"
          /\ e.wallet = w /\ e.tx = i
      BY <1>0, <1>3, <2>2 DEF BalanceChanges, OwnEvents
    <2>4. ledger' = [ledger EXCEPT ![w] = Append(@, x)]
      BY <1>0, <1>4, <2>0, <2>1 DEF Commit
    <2>5. ChangesOf(w)' = ChangesOf(w) \cup {e}
      <3>1. ChangesOf(w)' = {f \in outbox \cup staged[s].events :
                                f.kind = "WalletBalanceChanged" /\ f.wallet = w}
        BY <1>1 DEF ChangesOf
      <3>2. \A f \in staged[s].events : f.kind = "WalletBalanceChanged" <=> f = e
        BY <2>2, <2>3 DEF BalanceChanges
      <3> QED
        BY <2>3, <3>1, <3>2 DEF ChangesOf
    <2>6. \A f \in ChangesOf(w) : f.ord < e.ord
      <3> SUFFICES ASSUME NEW f \in ChangesOf(w) PROVE f.ord < e.ord
        OBVIOUS
      <3>1. f \in outbox /\ SameAggregate(e, f)
        BY <2>3 DEF ChangesOf, SameAggregate
      <3> QED
        BY <2>3, <3>1 DEF OutboxInv, StagedAfter
    <2>7. /\ r = wallets[w] /\ wallets[w] # None
          /\ wallets'[w] = WalletOf(c, v, r) /\ wallets'[w] # None
          /\ wallets'[w].version = r.version + 1
      <3>1. r \in WalletRows /\ r # None /\ r = wallets[w]
        BY <1>0, <1>4, <1>6, NoneAssumption DEF LockInv, SnapshotCurrent
      <3>2. BalanceAfter(c, v, r) \in Money
        BY <1>1, <3>1, BalanceAfterType
      <3>3. WalletOf(c, v, r) \in WalletRows /\ WalletOf(c, v, r).version = r.version + 1
        BY <1>6, <3>1, <3>2 DEF WalletOf, WalletRows
      <3>4. wallets'[w] = WalletOf(c, v, r)
        BY <1>0, <1>1, <1>4, <3>3, NoneAssumption DEF Commit, TypeInv, TypeOK, TablesType
      <3> QED
        BY <3>1, <3>3, <3>4, NoneAssumption
    <2>8. /\ r.version = Len(ledger[w]) + VersionOffset(w)
          /\ wallets'[w].version = Len(ledger'[w]) + VersionOffset(w)'
      <3>1. wallets[w].version = Len(ledger[w]) + VersionOffset(w)
        BY <1>1, <2>7, VersionCounts
      <3>2. (wallets[w].version = Len(ledger[w]) + VersionOffset(w))'
        <4>1. Matches(w)'
          BY <1>1 DEF ChainInv, WalletMatchesLedger, Matches, Chain
        <4> QED
          BY <2>7, <4>1 DEF Matches
      <3> QED
        BY <2>7, <3>1, <3>2
    <2>9. Len(ledger[w]) \in Nat /\ Len(ledger'[w]) = Len(ledger[w]) + 1
      BY <1>1, <2>1, <2>4, AppendOne
    <2>10. VersionOffset(w) \in Nat /\ VersionOffset(w)' \in Nat
      BY DEF VersionOffset
    <2>11. /\ VersionOffset(w)' = VersionOffset(w)
           /\ e.version = Len(ledger[w]) + 1 + VersionOffset(w)'
      BY <2>2, <2>7, <2>8, <2>9, <2>10
    <2>12. Mirrors(w)'
      BY <1>1, <2>1, <2>3, <2>4, <2>5, <2>6, <2>11, AppendsMirror DEF MirrorInv
    <2>13. ASSUME NEW u \in Wallets, u # w PROVE Mirrors(u)'
      <3>1. ledger'[u] = ledger[u]
        BY <1>1, <2>1, <2>4, <2>13, AppendOne
      <3>2. VersionOffset(u)' = VersionOffset(u)
        BY <1>2, <3>1, OffsetKept
      <3>3. ChangesOf(u)' = ChangesOf(u)
        <4>1. \A f \in staged[s].events : f.wallet # u
          BY <1>0, <1>3, <2>13 DEF OwnEvents
        <4> QED
          BY <1>1, <4>1 DEF ChangesOf
      <3> QED
        BY <3>1, <3>2, <3>3, KeepsMirror DEF MirrorInv
    <2> QED
      BY <2>12, <2>13 DEF MirrorInv
  <1> QED
    BY <1>5, <1>6

\* An opening credit shows one event, of version 1.
LEMMA OpenWalletMirror ==
    ASSUME TypeInv, TypeInv', RowInv, FinalInv, ChainInv, ChainInv', MirrorInv, [Next]_vars,
           NEW o \in OpenRequests, OpenWallet(o)
    PROVE  MirrorInv'
  <1>0. PICK w, i : w = o.wallet /\ i = issued + 1
    OBVIOUS
  <1>1. \A j \in Persisted : txns'[j] # None /\ txns'[j].cmd = txns[j].cmd
    BY RowsLast DEF FinalInv, Persisted
  <1>2. CASE o.amount = 0
    <2>1. ledger' = ledger /\ outbox' = outbox
      BY <1>2 DEF OpenWallet
    <2> QED
      BY <1>1, <2>1, QuietMirror
  <1>3. CASE o.amount # 0
    <2>1. /\ w \in Wallets /\ o.amount \in Money /\ i \in TxIDs /\ ordering \in Nat
      BY <1>0, <1>3, RequestsAssumption, BoundsAssumption
      DEF OpenWallet, TypeInv, TypeOK, CountersType, TxIDs
    <2>2. PICK x : /\ x = [tx |-> i, dir |-> "CREDIT", value |-> o.amount,
                           before |-> 0, after |-> o.amount]
                   /\ ledger' = [ledger EXCEPT ![w] = Append(@, x)]
      BY <1>0, <1>3 DEF OpenWallet
    <2>3. x \in Entries /\ x.tx = i /\ ledger' = [ledger EXCEPT ![w] = Append(@, x)]
      BY <2>1, <2>2, MaxInt64Assumption DEF Entries, Directions, Money
    <2>4. PICK es : /\ es = EventsFrom(ordering,
                                 <<"WagerTransactionProcessed", "WalletBalanceChanged">>, w, i, 1)
                    /\ outbox' = outbox \cup es
      BY <1>0, <1>3 DEF OpenWallet
    <2>5. PICK e : e = [kind |-> "WalletBalanceChanged", wallet |-> w, tx |-> i,
                        ord |-> ordering + 2, version |-> 1]
      OBVIOUS
    <2>6. /\ \A f \in es : f.wallet = w
          /\ BalanceChanges(es) = {e}
      BY <2>1, <2>4, <2>5, TwoEvents
    <2>7. /\ e \in es /\ e.kind = "WalletBalanceChanged" /\ e.wallet = w
          /\ e.tx = i /\ e.version = 1
      BY <2>5, <2>6 DEF BalanceChanges
    <2>8. ChangesOf(w)' = ChangesOf(w) \cup {e}
      <3>1. \A f \in es : f.kind = "WalletBalanceChanged" <=> f = e
        BY <2>6, <2>7 DEF BalanceChanges
      <3> QED
        BY <2>4, <2>7, <3>1 DEF ChangesOf
    <2>9. wallets[w] = None /\ wallets'[w] # None /\ wallets'[w].version = 1
      <3>1. wallets' = [wallets EXCEPT ![w] = [player |-> o.player, currency |-> o.currency,
                                               balance |-> o.amount, version |-> 1]]
        BY <1>0 DEF OpenWallet
      <3>2. wallets'[w] = [player |-> o.player, currency |-> o.currency,
                           balance |-> o.amount, version |-> 1]
        BY <2>1, <3>1 DEF TypeInv, TypeOK, TablesType
      <3>3. wallets'[w] \in WalletRows
        BY <3>2, RequestsAssumption DEF WalletRows
      <3> QED
        BY <1>0, <3>2, <3>3, NoneAssumption DEF OpenWallet
    <2>10. Len(ledger[w]) = 0 /\ ChangesOf(w) = {}
      <3>1. Matches(w)
        BY <2>1, MatchesEach DEF ChainInv
      <3>2. ledger[w] = <<>>
        BY <2>9, <3>1 DEF Matches
      <3>3. Mirrors(w)
        BY <2>1 DEF MirrorInv
      <3> QED
        BY <3>2, <3>3, FS_EmptySet DEF Mirrors
    <2>11. VersionOffset(w)' = 0
      <3>1. Matches(w)'
        BY <2>1 DEF ChainInv, WalletMatchesLedger, Matches, Chain
      <3>2. wallets'[w].version = Len(ledger'[w]) + VersionOffset(w)'
        BY <2>9, <3>1 DEF Matches
      <3>3. Len(ledger'[w]) = 1
        <4>1. Len(ledger'[w]) = Len(ledger[w]) + 1
          BY <2>1, <2>3, AppendOne
        <4> QED
          BY <2>10, <4>1
      <3>4. VersionOffset(w)' \in Nat
        BY DEF VersionOffset
      <3> QED
        BY <2>9, <3>2, <3>3, <3>4
    <2>12. Mirrors(w)'
      <3>1. Mirrors(w) /\ e.tx = x.tx
        BY <2>1, <2>3, <2>7 DEF MirrorInv
      <3>2. e.version = Len(ledger[w]) + 1 + VersionOffset(w)'
        BY <2>7, <2>10, <2>11
      <3>3. \A f \in ChangesOf(w) : f.ord < e.ord
        BY <2>10
      <3> QED
        BY <2>1, <2>3, <2>8, <2>10, <3>1, <3>2, <3>3, AppendsMirror
    <2>13. ASSUME NEW u \in Wallets, u # w PROVE Mirrors(u)'
      <3>1. ledger'[u] = ledger[u]
        BY <2>1, <2>3, <2>13, AppendOne
      <3>2. VersionOffset(u)' = VersionOffset(u)
        BY <1>1, <3>1, OffsetKept
      <3>3. ChangesOf(u)' = ChangesOf(u)
        BY <2>4, <2>6, <2>13 DEF ChangesOf
      <3> QED
        BY <3>1, <3>2, <3>3, KeepsMirror DEF MirrorInv
    <2> QED
      BY <2>12, <2>13 DEF MirrorInv
  <1> QED
    BY <1>2, <1>3

\* Events and ledger go together in every step.
LEMMA NextMirror ==
    /\ TypeInv /\ LockInv /\ RowInv /\ FinalInv /\ ChainInv /\ OutboxInv /\ MirrorInv
    /\ [Next]_vars
    => MirrorInv'
  <1> SUFFICES ASSUME TypeInv, LockInv, RowInv, FinalInv, ChainInv, OutboxInv, MirrorInv,
                      [Next]_vars
               PROVE  MirrorInv'
    OBVIOUS
  <1>0. TypeInv' /\ ChainInv'
    BY NextType, NextChain
  <1>1. \A j \in Persisted : txns'[j] # None /\ txns'[j].cmd = txns[j].cmd
    BY RowsLast DEF FinalInv, Persisted
  <1>2. ASSUME ledger' = ledger, outbox' = outbox PROVE MirrorInv'
    BY <1>1, <1>2, QuietMirror
  <1>3. ASSUME NEW s \in Sessions, Commit(s) PROVE MirrorInv'
    <2>1. CASE staged[s] # None
      BY <1>0, <1>3, <2>1, CommitMirror
    <2>2. CASE staged[s] = None
      BY <1>2, <1>3, <2>2 DEF Commit
    <2> QED
      BY <2>1, <2>2
  <1>4. ASSUME NEW s \in Sessions, Acts(s), ~Commit(s) PROVE MirrorInv'
    BY <1>2, <1>4, OnlyCommitWrites DEF tables
  <1>5. ASSUME NEW o \in OpenRequests, OpenWallet(o) PROVE MirrorInv'
    BY <1>0, <1>5, OpenWalletMirror
  <1>6. CASE UNCHANGED vars \/ \E i \in TxIDs : BackoffElapses(i)
    BY <1>2, <1>6 DEF vars, tables, BackoffElapses
  <1> QED
    BY <1>3, <1>4, <1>5, <1>6, OneMoves

\* In every instance the WalletBalanceChanged events of a wallet replay its
\* ledger: one event per entry, with the version the entry produced, and in
\* ordering-id order of those versions.
THEOREM EventsMirrorLedger == Spec => []WalletEventsMirrorLedger
  <1>1. Init => LockInv /\ ChainInv /\ OutboxInv /\ MirrorInv
    <2> SUFFICES ASSUME Init PROVE LockInv /\ ChainInv /\ OutboxInv /\ MirrorInv
      OBVIOUS
    <2>1. LockInv
      BY DEF Init, LockInv, SnapshotCurrent, OneLockHolder, WrittenUnderLock
    <2>2. ChainInv
      BY DEF Init, ChainInv, WalletMatchesLedger, EntriesPersisted
    <2>3. OutboxInv
      BY DEF Init, OutboxInv, OrdersDrawn, StagedEvents, StagedAfter
    <2>4. MirrorInv
      <3> SUFFICES ASSUME NEW w \in Wallets PROVE Mirrors(w)
        BY DEF MirrorInv
      <3>1. ChangesOf(w) = {} /\ ledger[w] = <<>>
        BY DEF Init, ChangesOf
      <3> QED
        BY <3>1, FS_EmptySet DEF Mirrors
    <2> QED
      BY <2>1, <2>2, <2>3, <2>4
  <1>2. TypeInv /\ LockInv /\ RowInv /\ FinalInv /\ OutboxInv /\ [Next]_vars => OutboxInv'
    BY NextOutbox DEF FinalInv
  <1>3. MirrorInv => WalletEventsMirrorLedger
    BY DEF MirrorInv, Mirrors, ChangesOf, WalletEventsMirrorLedger
  <1> QED
    BY <1>1, <1>2, <1>3, InitType, NextType, NextLocks, InitFinal, NextRows, NextFinal,
       NextChain, NextMirror, PTL
    DEF Spec
=============================================================================
