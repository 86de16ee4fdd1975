----------------------------- MODULE LedgerReads -----------------------------
(***************************************************************************)
(* The readers of one wallet's ledger: POST /wallets/{id}/reconciliation   *)
(* with Service.Reconcile and LedgerRepository.Reconstruct, and the keyset *)
(* pagination of query.Service.Ledger, against requests that keep          *)
(* committing movements.  Every read is a statement of its own.            *)
(*                                                                         *)
(* A movement is one step: that wallet and ledger change together, under   *)
(* the wallet lock, is FinancialService.  Its timestamp is not: the        *)
(* transports draw now before Process, hence before the lock.              *)
(***************************************************************************)
EXTENDS Integers, Sequences, FiniteSets

CONSTANTS
    Requests,       \* requests that may be under way together
    Auditors,       \* reconciliation requests
    Pagers,         \* clients that list the ledger page by page
    Openings,       \* opening balances to try
    Amounts,        \* amounts to move
    MaxBalance,     \* int64 limit of Money
    MaxEntries,     \* bound: ledger entries
    MaxClock,       \* bound: distinct timestamps
    Limits,         \* page sizes clients ask for
    None            \* no timestamp, cursor or report

(* What parseLimit accepts.                                                *)
MaxLedgerLimit == 100

ASSUME BoundsAssumption ==
    /\ MaxBalance \in Nat /\ MaxEntries \in Nat \ {0} /\ MaxClock \in Nat
    /\ Limits \subseteq 1 .. MaxLedgerLimit
    /\ Openings \subseteq 0 .. MaxBalance
    /\ Amounts \subseteq 1 .. MaxBalance

(* A request without a cursor is not one with a cursor.                    *)
ASSUME NoneAssumption == None \notin [ts : 0 .. MaxClock, id : 1 .. MaxEntries]

IDs == 1 .. MaxEntries
Times == 0 .. MaxClock
Balances == 0 .. MaxBalance

Entries ==
    [id : IDs, ts : Times, dir : {"CREDIT", "DEBIT"}, value : Balances,
     before : Balances, after : Balances]

VARIABLES
    wallet,     \* wallets.balance
    ledger,     \* wallet_ledger_entries, in commit order
    clock,      \* wall clock
    now,        \* per request: the time its transport drew
    step,       \* per auditor: the statement it executes next
    view,       \* per auditor: the balance of queries.Wallet
    stored,     \* per auditor: Reconciliation.WalletBalance
    calculated, \* per auditor: Reconciliation.LedgerBalance, None if inconsistent
    readAt,     \* history, per auditor: entries committed at its last two reads
    report,     \* per auditor: its last reconciliationResponse
    cursor,     \* per pager: NextCursor
    pages,      \* per pager: the pages it was given
    listing     \* per pager: idle, paging or complete

writing == <<wallet, ledger, clock, now>>
auditing == <<step, view, stored, calculated, readAt, report>>
paging == <<cursor, pages, listing>>
vars == <<writing, auditing, paging>>

Rows == {ledger[k] : k \in DOMAIN ledger}

(* ORDER BY timestamp, id.                                                 *)
Before(e, f) == e.ts < f.ts \/ (e.ts = f.ts /\ e.id < f.id)

-----------------------------------------------------------------------------
(* LedgerRepository.Reconstruct.                                           *)

ValidRow(e) ==
    /\ e.value > 0 /\ e.before >= 0 /\ e.after >= 0
    /\ CASE e.dir = "CREDIT" -> e.after - e.before = e.value
         [] e.dir = "DEBIT"  -> e.before - e.after = e.value

(* Seeded fault: the rows are taken in the order they were sorted.         *)
CandidatesByTimestamp(left, balance) ==
    {e \in left : \A f \in left : ~Before(f, e)}

(* Seeded fault: the rows are chained backwards.                           *)
CandidatesByAfter(left, balance) == {e \in left : e.after = balance}

(* The entries that may come next: sorting does not decide among them.     *)
Candidates(left, balance) == {e \in left : e.before = balance}

(* One round of the loop over the entries that are left.                   *)
Follow(walk) ==
    LET next == Candidates(walk.left, walk.balance) IN
    IF ~walk.ok \/ Cardinality(next) # 1
    THEN [ok |-> FALSE, balance |-> 0, left |-> {}]
    ELSE LET e == CHOOSE e \in next : TRUE
         IN  [ok |-> TRUE, balance |-> e.after, left |-> walk.left \ {e}]

(* The rounds, one per entry.                                              *)
Walk[k \in Nat] ==
    IF k = 0 THEN [ok |-> \A e \in Rows : ValidRow(e), balance |-> 0, left |-> Rows]
    ELSE Follow(Walk[k - 1])

(* Seeded fault: the last movement is left out.                            *)
ReconstructShort ==
    IF Rows = {} THEN Walk[0] ELSE Walk[Cardinality(Rows) - 1]

Reconstruct == Walk[Cardinality(Rows)]

-----------------------------------------------------------------------------
Tick ==
    /\ clock < MaxClock
    /\ clock' = clock + 1
    /\ UNCHANGED <<wallet, ledger, now, auditing, paging>>

(* A transport draws time.Now() for a request.                             *)
BeginRequest(r) ==
    /\ now[r] = None /\ Len(ledger) < MaxEntries
    /\ now' = [now EXCEPT ![r] = clock]
    /\ UNCHANGED <<wallet, ledger, clock, auditing, paging>>

(* applyOperationInTx commits a debit or a credit.                         *)
CommitMovement(r, dir, v, id) ==
    LET after == IF dir = "CREDIT" THEN wallet + v ELSE wallet - v IN
    /\ now[r] # None /\ Len(ledger) < MaxEntries
    /\ after \in Balances
    /\ \A e \in Rows : e.id # id
    /\ wallet' = after
    /\ ledger' = Append(ledger, [id |-> id, ts |-> now[r], dir |-> dir, value |-> v,
                                 before |-> wallet, after |-> after])
    /\ now' = [now EXCEPT ![r] = None]
    /\ UNCHANGED <<clock, auditing, paging>>

Goto(a, label) == step' = [step EXCEPT ![a] = label]

(* reconcileWallet: queries.Wallet.                                        *)
ReadView(a) ==
    /\ step[a] = "view"
    /\ view' = [view EXCEPT ![a] = wallet]
    /\ Goto(a, "wallet")
    /\ UNCHANGED <<writing, stored, calculated, readAt, report, paging>>

(* Reconcile: the wallet row.                                              *)
ReadWallet(a) ==
    /\ step[a] = "wallet"
    /\ stored' = [stored EXCEPT ![a] = wallet]
    /\ readAt' = [readAt EXCEPT ![a] = <<Len(ledger), Len(ledger)>>]
    /\ Goto(a, "ledger")
    /\ UNCHANGED <<writing, view, calculated, report, paging>>

(* Reconcile: Reconstruct.                                                 *)
ReadLedger(a) ==
    /\ step[a] = "ledger"
    /\ calculated' = [calculated EXCEPT ![a] =
         IF Reconstruct.ok THEN Reconstruct.balance ELSE None]
    /\ readAt' = [readAt EXCEPT ![a][2] = Len(ledger)]
    /\ Goto(a, "count")
    /\ UNCHANGED <<writing, view, stored, report, paging>>

LedgerEntryCount == Len(ledger)

(* LedgerEntryCount, and the answer: of an inconsistent ledger it has the  *)
(* balance of the view, neither calculated balance nor difference.         *)
Answer(a) ==
    /\ step[a] = "count"
    /\ report' = [report EXCEPT ![a] =
         [stored |-> IF calculated[a] = None THEN view[a] ELSE stored[a],
          calculated |-> calculated[a],
          difference |-> IF calculated[a] = None THEN None
                         ELSE stored[a] - calculated[a],
          consistent |-> calculated[a] = stored[a],
          checked |-> LedgerEntryCount,
          read |-> readAt[a]]]
    /\ view' = [view EXCEPT ![a] = 0]
    /\ stored' = [stored EXCEPT ![a] = 0]
    /\ calculated' = [calculated EXCEPT ![a] = None]
    /\ readAt' = [readAt EXCEPT ![a] = <<0, 0>>]
    /\ Goto(a, "done")
    /\ UNCHANGED <<writing, paging>>

(* Seeded fault: the position itself is listed again.                      *)
AfterInclusive(c) ==
    {e \in Rows : c = None \/ ~Before(e, c)}

(* WHERE (timestamp, id) > cursor.                                         *)
After(c) ==
    {e \in Rows : c = None \/ Before(c, e)}

(* ORDER BY timestamp, id LIMIT n.                                         *)
First(n, S) == {e \in S : Cardinality({f \in S : Before(f, e)}) < n}

Last(S) == CHOOSE e \in S : \A f \in S : ~Before(e, f)

(* Seeded fault: the cursor is the extra row.                              *)
CursorPastExtra(limit, records) == Last(records)

(* encodeCursor of the last row returned.                                  *)
NextCursor(limit, records) ==
    LET last == Last(First(limit, records)) IN [ts |-> last.ts, id |-> last.id]

(* One call of Ledger: one row more than the limit tells whether there is  *)
(* a next page.  A client may change the limit from page to page.          *)
ListPage(p, limit) ==
    LET records == First(limit + 1, After(cursor[p]))
        more == Cardinality(records) > limit
    IN  /\ listing[p] # "complete"
        /\ pages' = [pages EXCEPT ![p] =
             Append(@, [rows |-> First(limit, records), at |-> Len(ledger)])]
        /\ cursor' = [cursor EXCEPT ![p] =
             IF more THEN NextCursor(limit, records) ELSE None]
        /\ listing' = [listing EXCEPT ![p] = IF more THEN "paging" ELSE "complete"]
        /\ UNCHANGED <<writing, auditing>>

(* OpenWallet has committed.                                               *)
Init ==
    /\ wallet \in Openings
    /\ \E id \in IDs :
         ledger = IF wallet = 0 THEN <<>>
                  ELSE <<[id |-> id, ts |-> 0, dir |-> "CREDIT", value |-> wallet,
                          before |-> 0, after |-> wallet]>>
    /\ clock = 0
    /\ now = [r \in Requests |-> None]
    /\ step = [a \in Auditors |-> "view"]
    /\ view = [a \in Auditors |-> 0]
    /\ stored = [a \in Auditors |-> 0]
    /\ calculated = [a \in Auditors |-> None]
    /\ readAt = [a \in Auditors |-> <<0, 0>>]
    /\ report = [a \in Auditors |-> None]
    /\ cursor = [p \in Pagers |-> None]
    /\ pages = [p \in Pagers |-> <<>>]
    /\ listing = [p \in Pagers |-> "idle"]

Next ==
    \/ Tick
    \/ \E r \in Requests : BeginRequest(r)
    \/ \E r \in Requests, dir \in {"CREDIT", "DEBIT"}, v \in Amounts, id \in IDs :
         CommitMovement(r, dir, v, id)
    \/ \E a \in Auditors : ReadView(a) \/ ReadWallet(a) \/ ReadLedger(a) \/ Answer(a)
    \/ \E p \in Pagers, limit \in Limits : ListPage(p, limit)

Spec == Init /\ [][Next]_vars

-----------------------------------------------------------------------------
\* What Reconstruct answers is the wallet's balance, in whatever order the
\* entries' timestamps and ids sort.
ReconstructIsSound == Reconstruct.ok => Reconstruct.balance = wallet

\* The ledger of a wallet that never left the same balance twice is
\* reconstructed.
ReconstructsDistinctBalances ==
    (\A j, k \in DOMAIN ledger : ledger[j].before = ledger[k].before => j = k)
        => Reconstruct.ok

BalanceAt(k) == IF k = 0 THEN 0 ELSE ledger[k].after

\* The difference a reconciliation reports is exactly what was committed between
\* its read of the wallet and its read of the ledger, so a quiet wallet is never
\* reported as divergent.  (The model's wallets never drift.)  CheckedEntries,
\* counted last, covers every entry the calculated balance comes from.
DivergenceIsExplained ==
    \A a \in Auditors :
        LET r == report[a] IN
        r # None /\ r.calculated # None =>
            /\ r.difference = BalanceAt(r.read[1]) - BalanceAt(r.read[2])
            /\ r.consistent <=> r.difference = 0
            /\ r.checked >= r.read[2]

\* Pages never repeat or go back: each row of a page follows every row of the
\* pages before it, whatever is committed while the client pages.
PagesInOrder ==
    \A p \in Pagers : \A j, k \in DOMAIN pages[p] :
        j < k => \A e \in pages[p][j].rows, f \in pages[p][k].rows : Before(e, f)

Shown(p) == UNION {pages[p][k].rows : k \in DOMAIN pages[p]}

\* A complete listing holds every entry that was committed before its first page.
NothingSkipped ==
    \A p \in Pagers :
        listing[p] = "complete" =>
            \A k \in 1 .. pages[p][1].at : ledger[k] \in Shown(p)

\* Every ledger the service writes can be reconstructed.
ReconstructsEveryLedger == Reconstruct.ok
=============================================================================
