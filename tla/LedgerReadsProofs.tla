-------------------------- MODULE LedgerReadsProofs --------------------------
(***************************************************************************)
(* The readers of the ledger, for any number of requests, entries and      *)
(* pages: that Reconstruct finds the movements in commit order whatever    *)
(* their timestamps, and that keyset pages neither repeat nor skip.        *)
(***************************************************************************)
EXTENDS LedgerReads, FiniteSetTheorems, WellFoundedInduction, TLAPS

-----------------------------------------------------------------------------
(* Naturals.                                                               *)

(* A non-empty set of naturals has a least element.                        *)
LEMMA LeastNatural ==
    ASSUME NEW S \in SUBSET Nat, S # {}
    PROVE  \E x \in S : \A y \in S : x <= y
  <1> DEFINE Less == {p \in Nat \X Nat : p[1] < p[2]}
  <1>1. IsWellFoundedOn(Less, Nat)
    BY NatLessThanWellFounded DEF OpToRel
  <1> HIDE DEF Less
  <1>2. PICK x \in S : \A y \in S : ~(<<y, x>> \in Less)
    BY <1>1, WFMin
  <1>3. ASSUME NEW y \in S, ~(x <= y) PROVE FALSE
    <2>1. x \in Nat /\ y \in Nat /\ y < x
      BY <1>3
    <2>2. <<y, x>> \in Less
      BY <2>1 DEF Less
    <2>3. QED
      BY <1>2, <2>2
  <1>4. QED
    BY <1>3

(* Induction over a set of naturals: what holds of 0 and of the successor  *)
(* of every member is all of them.                                         *)
LEMMA InductiveSet ==
    ASSUME NEW S \in SUBSET Nat, 0 \in S, \A n \in S : n + 1 \in S
    PROVE  S = Nat
  <1>1. SUFFICES ASSUME Nat \ S # {} PROVE FALSE
    OBVIOUS
  <1>2. PICK n \in Nat \ S : \A k \in Nat \ S : n <= k
    BY <1>1, LeastNatural
  <1>3. n # 0 /\ n - 1 \in Nat
    BY <1>2
  <1>4. n - 1 \in S
    BY <1>2, <1>3
  <1>5. n = (n - 1) + 1
    BY <1>2
  <1>6. QED
    BY <1>2, <1>4, <1>5

-----------------------------------------------------------------------------
(* The order of the rows.                                                  *)

Positioned(e) == e.ts \in Times /\ e.id \in IDs

LEMMA BeforeIsTransitive ==
    ASSUME NEW e, NEW f, NEW g, Positioned(e), Positioned(f), Positioned(g)
    PROVE  /\ ~Before(e, e)
           /\ Before(e, f) /\ Before(f, g) => Before(e, g)
           /\ Before(e, f) => ~Before(f, e)
           /\ e.id # f.id => Before(e, f) \/ Before(f, e)
           /\ ~Before(f, e) /\ Before(f, g) => Before(e, g)
           /\ ~Before(e, f) /\ ~Before(f, e) => e.id = f.id
  BY BoundsAssumption DEF Positioned, Before, Times, IDs

(* A set of positioned rows has a first one.                               *)
LEMMA FirstExists ==
    ASSUME NEW S, S # {}, \A e \in S : Positioned(e)
    PROVE  \E e \in S : \A f \in S : ~Before(f, e)
  <1> DEFINE T == {e.ts : e \in S}
  <1>1. T \in SUBSET Nat /\ T # {}
    BY BoundsAssumption DEF Positioned, Times
  <1>2. PICK t \in T : \A u \in T : t <= u
    BY <1>1, LeastNatural
  <1> DEFINE U == {e.id : e \in {f \in S : f.ts = t}}
  <1>3. U \in SUBSET Nat /\ U # {}
    BY BoundsAssumption DEF Positioned, IDs
  <1>4. PICK i \in U : \A u \in U : i <= u
    BY <1>3, LeastNatural
  <1>5. PICK e \in S : e.ts = t /\ e.id = i
    BY <1>4
  <1>6. ASSUME NEW f \in S PROVE ~Before(f, e)
    <2>1. t <= f.ts /\ (f.ts = t => i <= f.id)
      BY <1>2, <1>4
    <2>2. t \in Nat /\ i \in Nat /\ f.ts \in Nat /\ f.id \in Nat
      BY <1>1, <1>3, BoundsAssumption DEF Positioned, Times, IDs
    <2>3. QED
      BY <1>5, <2>1, <2>2 DEF Before
  <1>7. QED
    BY <1>6

(* And a last one: the bounds of clock and ids are reflected.              *)
LEMMA LastExists ==
    ASSUME NEW S, S # {}, \A e \in S : Positioned(e)
    PROVE  \E e \in S : \A f \in S : ~Before(e, f)
  <1> DEFINE T == {MaxClock - e.ts : e \in S}
  <1>1. T \in SUBSET Nat /\ T # {}
    BY BoundsAssumption DEF Positioned, Times
  <1>2. PICK t \in T : \A u \in T : t <= u
    BY <1>1, LeastNatural
  <1> DEFINE U == {MaxEntries - e.id : e \in {f \in S : MaxClock - f.ts = t}}
  <1>3. U \in SUBSET Nat /\ U # {}
    BY BoundsAssumption DEF Positioned, IDs
  <1>4. PICK i \in U : \A u \in U : i <= u
    BY <1>3, LeastNatural
  <1>5. PICK e \in S : MaxClock - e.ts = t /\ MaxEntries - e.id = i
    BY <1>4
  <1>6. ASSUME NEW f \in S PROVE ~Before(e, f)
    <2>1. t <= MaxClock - f.ts /\ (MaxClock - f.ts = t => i <= MaxEntries - f.id)
      BY <1>2, <1>4
    <2>2. /\ e.ts \in Nat /\ e.id \in Nat /\ f.ts \in Nat /\ f.id \in Nat
          /\ MaxClock \in Nat /\ MaxEntries \in Nat
      BY BoundsAssumption DEF Positioned, Times, IDs
    <2>3. QED
      BY <1>5, <2>1, <2>2 DEF Before
  <1>7. QED
    BY <1>6

-----------------------------------------------------------------------------
(* A page.                                                                 *)

Earlier(e, S) == {f \in S : Before(f, e)}

(* Rows with positions of their own.                                       *)
Listable(S) ==
    /\ IsFiniteSet(S)
    /\ \A e \in S : Positioned(e)
    /\ \A e, f \in S : e.id = f.id => e = f

(* A subset has no more elements.                                          *)
LEMMA Counting ==
    ASSUME NEW S, IsFiniteSet(S), NEW T \in SUBSET S
    PROVE  /\ IsFiniteSet(T) /\ Cardinality(S) \in Nat /\ Cardinality(T) \in Nat
           /\ Cardinality(T) <= Cardinality(S)
           /\ T # S => Cardinality(T) < Cardinality(S)
  <1>1. /\ IsFiniteSet(T) /\ Cardinality(T) <= Cardinality(S)
        /\ Cardinality(S) = Cardinality(T) => S = T
    BY FS_Subset
  <1>2. Cardinality(S) \in Nat /\ Cardinality(T) \in Nat
    BY <1>1, FS_CardinalityType
  <1>3. QED
    BY <1>1, <1>2

(* The rows before an earlier row are fewer.                               *)
LEMMA EarlierHasFewer ==
    ASSUME NEW S, Listable(S), NEW e \in S, NEW f \in S, ~Before(f, e)
    PROVE  /\ Earlier(e, S) \subseteq Earlier(f, S)
           /\ Cardinality(Earlier(e, S)) <= Cardinality(Earlier(f, S))
           /\ Cardinality(Earlier(e, S)) \in Nat /\ Cardinality(Earlier(f, S)) \in Nat
  <1>1. ASSUME NEW g \in S, Before(g, e) PROVE Before(g, f)
    <2>1. Positioned(e) /\ Positioned(f) /\ Positioned(g)
      BY DEF Listable
    <2>2. CASE e = f
      BY <1>1, <2>2
    <2>3. CASE e # f
      <3>1. Before(e, f)
        BY <2>1, <2>3, BeforeIsTransitive DEF Listable
      <3>2. QED
        BY <1>1, <2>1, <3>1, BeforeIsTransitive
    <2>4. QED
      BY <2>2, <2>3
  <1>2. Earlier(e, S) \subseteq Earlier(f, S)
    BY <1>1 DEF Earlier
  <1>3. Earlier(f, S) \subseteq S /\ IsFiniteSet(S)
    BY DEF Earlier, Listable
  <1>4. IsFiniteSet(Earlier(f, S))
    BY <1>3, Counting
  <1>5. QED
    BY <1>2, <1>4, Counting

(* LIMIT n: a row that is not after a listed row is listed.                *)
LEMMA LimitKeepsPrefix ==
    ASSUME NEW S, Listable(S), NEW n \in Nat, NEW f \in First(n, S),
           NEW e \in S, ~Before(f, e)
    PROVE  e \in First(n, S)
  <1>1. f \in S /\ Cardinality(Earlier(f, S)) < n
    BY DEF First, Earlier
  <1>2. Cardinality(Earlier(e, S)) < n
    BY <1>1, EarlierHasFewer
  <1>3. QED
    BY <1>2 DEF First, Earlier

(* LIMIT n of n rows or fewer is all of them.                              *)
LEMMA LimitOfFew ==
    ASSUME NEW S, Listable(S), NEW n \in Nat, Cardinality(S) <= n
    PROVE  First(n, S) = S
  <1>1. ASSUME NEW e \in S PROVE Cardinality(Earlier(e, S)) < n
    <2>1. Earlier(e, S) \subseteq S /\ e \notin Earlier(e, S)
      BY BeforeIsTransitive DEF Earlier, Listable
    <2>2. /\ Cardinality(Earlier(e, S)) < Cardinality(S)
          /\ Cardinality(Earlier(e, S)) \in Nat /\ Cardinality(S) \in Nat
      BY <2>1, Counting DEF Listable
    <2>3. QED
      BY <2>2
  <1>2. QED
    BY <1>1 DEF First, Earlier

(* LIMIT n leaves rows out only when it returns n.                         *)
LEMMA LimitIsReached ==
    ASSUME NEW S, Listable(S), NEW n \in Nat, First(n, S) # S
    PROVE  Cardinality(First(n, S)) >= n
  <1> DEFINE Out == S \ First(n, S)
  <1>1. Out # {} /\ \A e \in Out : Positioned(e)
    BY DEF First, Listable
  <1>2. PICK e \in Out : \A f \in Out : ~Before(f, e)
    BY <1>1, FirstExists
  <1>3. Earlier(e, S) \subseteq First(n, S)
    BY <1>2 DEF Earlier
  <1>4. ~(Cardinality(Earlier(e, S)) < n)
    BY <1>2 DEF First, Earlier
  <1>5. First(n, S) \subseteq S
    BY DEF First
  <1>6. IsFiniteSet(First(n, S))
    BY <1>5, Counting DEF Listable
  <1>7. /\ Cardinality(Earlier(e, S)) <= Cardinality(First(n, S))
        /\ Cardinality(Earlier(e, S)) \in Nat /\ Cardinality(First(n, S)) \in Nat
    BY <1>3, <1>6, Counting
  <1>8. QED
    BY <1>4, <1>7

(* Ledger without a next page returns everything after the cursor.         *)
LEMMA LastPage ==
    ASSUME NEW S, Listable(S), NEW n \in Nat,
           ~(Cardinality(First(n + 1, S)) > n)
    PROVE  First(n, First(n + 1, S)) = S
  <1>1. Cardinality(First(n + 1, S)) \in Nat
    <2>1. First(n + 1, S) \subseteq S
      BY DEF First
    <2>2. QED
      BY <2>1, Counting DEF Listable
  <1>2. First(n + 1, S) = S
    BY <1>1, LimitIsReached
  <1>3. Cardinality(S) <= n
    BY <1>1, <1>2
  <1>4. QED
    BY <1>2, <1>3, LimitOfFew

(* Ledger with a next page returns what is not after its last row.         *)
LEMMA NextPage ==
    ASSUME NEW S, Listable(S), NEW n \in Nat \ {0},
           Cardinality(First(n + 1, S)) > n,
           NEW page, page = First(n, First(n + 1, S)), NEW last, last = Last(page)
    PROVE  /\ page \subseteq S /\ last \in page
           /\ \A e \in page : ~Before(last, e)
           /\ \A e \in S : ~Before(last, e) => e \in page
  <1> DEFINE R == First(n + 1, S)
  <1>1. R \subseteq S /\ page \subseteq R
    BY DEF First
  <1>2. Listable(R)
    <2>1. IsFiniteSet(R)
      BY <1>1, Counting DEF Listable
    <2>2. QED
      BY <1>1, <2>1 DEF Listable
  <1>3. page # {}
    <2>1. R # {}
      BY FS_EmptySet
    <2>2. PICK e \in R : \A f \in R : ~Before(f, e)
      BY <1>2, <2>1, FirstExists DEF Listable
    <2>3. Earlier(e, R) = {} /\ Cardinality(Earlier(e, R)) = 0
      BY <2>2, FS_EmptySet DEF Earlier
    <2>4. e \in First(n, R)
      BY <2>3 DEF First, Earlier
    <2>5. QED
      BY <2>4
  <1>4. last \in page /\ \A e \in page : ~Before(last, e)
    <2>1. \E e \in page : \A f \in page : ~Before(e, f)
      BY <1>1, <1>2, <1>3, LastExists DEF Listable
    <2>2. QED
      BY <2>1 DEF Last
  <1>5. ASSUME NEW e \in S, ~Before(last, e) PROVE e \in page
    <2>1. e \in R
      BY <1>1, <1>4, <1>5, LimitKeepsPrefix
    <2>2. QED
      BY <1>2, <1>4, <1>5, <2>1, LimitKeepsPrefix
  <1>6. QED
    BY <1>1, <1>4, <1>5

-----------------------------------------------------------------------------
(* The ledger.                                                             *)

(* The entries form a chain from 0 to the wallet's balance, under ids of   *)
(* their own.                                                              *)
Chained ==
    /\ \A j, k \in DOMAIN ledger : ledger[j].id = ledger[k].id => j = k
    /\ \A k \in DOMAIN ledger :
           ledger[k].before = BalanceAt(k - 1) /\ ValidRow(ledger[k])
    /\ wallet = BalanceAt(Len(ledger))

LedgerTyped ==
    /\ wallet \in Balances /\ clock \in Times
    /\ now \in [Requests -> Times \cup {None}]
    /\ ledger \in Seq(Entries)

LedgerInv == LedgerTyped /\ Chained

(* A step of the service appends one movement of the wallet, or leaves the *)
(* ledger alone.                                                           *)
Moves(e) ==
    /\ e \in Entries /\ ValidRow(e)
    /\ \A f \in Rows : f.id # e.id
    /\ e.before = wallet /\ wallet' = e.after
    /\ ledger' = Append(ledger, e)

LEMMA ServiceSteps ==
    ASSUME LedgerInv, [Next]_vars
    PROVE  (\E e : Moves(e)) \/ UNCHANGED <<wallet, ledger>>
  <1>1. ASSUME NEW r \in Requests, NEW dir \in {"CREDIT", "DEBIT"}, NEW v \in Amounts,
               NEW id \in IDs, CommitMovement(r, dir, v, id)
        PROVE  \E e : Moves(e)
    <2>1. PICK after : after = IF dir = "CREDIT" THEN wallet + v ELSE wallet - v
      OBVIOUS
    <2>2. PICK e : e = [id |-> id, ts |-> now[r], dir |-> dir, value |-> v,
                        before |-> wallet, after |-> after]
      OBVIOUS
    <2>3. /\ after \in Balances /\ wallet' = after /\ ledger' = Append(ledger, e)
          /\ \A f \in Rows : f.id # id
      BY <1>1, <2>1, <2>2 DEF CommitMovement
    <2>4. now[r] \in Times /\ wallet \in Balances /\ v \in Balances /\ v > 0
      BY <1>1, BoundsAssumption DEF CommitMovement, LedgerInv, LedgerTyped, Balances
    <2>5. e \in Entries
      BY <2>2, <2>3, <2>4 DEF Entries
    <2>6. wallet \in Int /\ v \in Int /\ after \in Int /\ wallet >= 0 /\ after >= 0
      BY <2>3, <2>4, BoundsAssumption DEF Balances
    <2>7. ValidRow(e)
      <3>1. CASE dir = "CREDIT"
        BY <2>1, <2>2, <2>4, <2>6, <3>1 DEF ValidRow
      <3>2. CASE dir = "DEBIT"
        BY <2>1, <2>2, <2>4, <2>6, <3>2 DEF ValidRow
      <3>3. QED
        BY <3>1, <3>2
    <2>8. e.id = id /\ e.before = wallet /\ e.after = after
      BY <2>2
    <2>9. QED
      BY <2>3, <2>5, <2>7, <2>8 DEF Moves
  <1>2. CASE UNCHANGED vars
    BY <1>2 DEF vars, writing
  <1>3. CASE \/ Tick
             \/ \E r \in Requests : BeginRequest(r)
             \/ \E a \in Auditors : ReadView(a) \/ ReadWallet(a) \/ ReadLedger(a) \/ Answer(a)
             \/ \E p \in Pagers, limit \in Limits : ListPage(p, limit)
    BY <1>3 DEF Tick, BeginRequest, ReadView, ReadWallet, ReadLedger, Answer, ListPage,
       writing
  <1>4. QED
    BY <1>1, <1>2, <1>3 DEF Next

(* What a movement leaves of the ledger, and what it adds.                 *)
LEMMA MoveAppends ==
    ASSUME LedgerTyped, NEW e, Moves(e)
    PROVE  /\ Len(ledger) \in Nat /\ DOMAIN ledger = 1 .. Len(ledger)
           /\ ledger' \in Seq(Entries)
           /\ Len(ledger') = Len(ledger) + 1 /\ DOMAIN ledger' = 1 .. Len(ledger) + 1
           /\ \A k \in 1 .. Len(ledger) : ledger'[k] = ledger[k]
           /\ ledger'[Len(ledger) + 1] = e
           /\ \A k \in 0 .. Len(ledger) : BalanceAt(k)' = BalanceAt(k)
           /\ Rows' = Rows \cup {e}
  <1>1. /\ ledger \in Seq(Entries) /\ e \in Entries /\ ledger' = Append(ledger, e)
    BY DEF LedgerTyped, Moves
  <1>2. /\ Len(ledger) \in Nat /\ DOMAIN ledger = 1 .. Len(ledger)
        /\ ledger' \in Seq(Entries)
        /\ Len(ledger') = Len(ledger) + 1 /\ DOMAIN ledger' = 1 .. Len(ledger) + 1
    BY <1>1
  <1>3. /\ \A k \in 1 .. Len(ledger) : ledger'[k] = ledger[k]
        /\ ledger'[Len(ledger) + 1] = e
    BY <1>1
  <1>4. \A k \in 0 .. Len(ledger) : BalanceAt(k)' = BalanceAt(k)
    BY <1>2, <1>3 DEF BalanceAt
  <1>5. Rows' = Rows \cup {e}
    BY <1>2, <1>3 DEF Rows
  <1>6. QED
    BY <1>2, <1>3, <1>4, <1>5

LEMMA LedgerInvariant == Spec => []LedgerInv
  <1>1. Init => LedgerInv
    <2>1. SUFFICES ASSUME Init PROVE LedgerInv
      OBVIOUS
    <2>2. wallet \in Balances /\ clock \in Times /\ now \in [Requests -> Times \cup {None}]
      BY <2>1, BoundsAssumption DEF Init, Balances, Times
    <2>3. CASE ledger = <<>>
      <3>1. wallet = 0
        BY <2>1, <2>3 DEF Init
      <3>2. Len(ledger) = 0 /\ DOMAIN ledger = {} /\ ledger \in Seq(Entries)
        BY <2>3
      <3>3. QED
        BY <2>2, <3>1, <3>2 DEF LedgerInv, LedgerTyped, Chained, BalanceAt
    <2>4. ASSUME NEW e, ledger = <<e>>, NEW id \in IDs, wallet # 0,
                 e = [id |-> id, ts |-> 0, dir |-> "CREDIT", value |-> wallet,
                      before |-> 0, after |-> wallet]
          PROVE  LedgerInv
      <3>1. wallet \in Nat /\ wallet > 0 /\ 0 \in Balances /\ 0 \in Times
        BY <2>2, <2>4, BoundsAssumption DEF Balances, Times
      <3>2. e \in Entries
        BY <2>2, <2>4, <3>1 DEF Entries
      <3>3. ValidRow(e)
        BY <2>4, <3>1 DEF ValidRow
      <3>4. /\ Len(ledger) = 1 /\ DOMAIN ledger = {1} /\ ledger[1] = e
            /\ ledger \in Seq(Entries)
        BY <2>4, <3>2
      <3>5. Chained
        BY <2>4, <3>3, <3>4 DEF Chained, BalanceAt
      <3>6. QED
        BY <2>2, <3>4, <3>5 DEF LedgerInv, LedgerTyped
    <2>5. QED
      BY <2>1, <2>3, <2>4 DEF Init
  <1>2. LedgerInv /\ [Next]_vars => LedgerInv'
    <2>1. SUFFICES ASSUME LedgerInv, [Next]_vars PROVE LedgerInv'
      OBVIOUS
    <2>2. clock' \in Times /\ now' \in [Requests -> Times \cup {None}]
      <3>1. \/ UNCHANGED <<clock, now>>
            \/ clock < MaxClock /\ clock' = clock + 1 /\ UNCHANGED now
            \/ UNCHANGED clock
               /\ \E r \in Requests, t \in {None, clock} : now' = [now EXCEPT ![r] = t]
        BY <2>1 DEF Next, Tick, BeginRequest, CommitMovement, ReadView, ReadWallet,
           ReadLedger, Answer, ListPage, writing, vars
      <3>2. QED
        BY <2>1, <3>1, BoundsAssumption DEF LedgerInv, LedgerTyped, Times
    <2>3. CASE UNCHANGED <<wallet, ledger>>
      BY <2>1, <2>2, <2>3 DEF LedgerInv, LedgerTyped, Chained, BalanceAt
    <2>4. ASSUME NEW e, Moves(e) PROVE LedgerInv'
      <3>1. LedgerTyped /\ Chained
        BY <2>1 DEF LedgerInv
      <3>2. /\ e.after \in Balances /\ wallet' = e.after /\ e.before = wallet
            /\ ValidRow(e) /\ \A f \in Rows : f.id # e.id
        BY <2>4 DEF Moves, Entries
      <3>3. PICK n : n = Len(ledger)
        OBVIOUS
      <3>4. /\ n \in Nat /\ DOMAIN ledger = 1 .. n /\ DOMAIN ledger' = 1 .. n + 1
            /\ Len(ledger') = n + 1
            /\ \A k \in 1 .. n : ledger'[k] = ledger[k]
            /\ ledger'[n + 1] = e
            /\ \A k \in 0 .. n : BalanceAt(k)' = BalanceAt(k)
            /\ ledger' \in Seq(Entries)
        BY <2>4, <3>1, <3>3, MoveAppends
      <3>5. \A j, k \in DOMAIN ledger' : ledger'[j].id = ledger'[k].id => j = k
        <4>1. \A j \in 1 .. n : ledger[j].id # e.id
          BY <3>2, <3>4 DEF Rows
        <4>2. \A j \in 1 .. n + 1 : j \in 1 .. n \/ j = n + 1
          BY <3>4
        <4>3. QED
          BY <3>1, <3>4, <4>1, <4>2 DEF Chained
      <3>6. ASSUME NEW k \in DOMAIN ledger'
            PROVE  ledger'[k].before = BalanceAt(k - 1)' /\ ValidRow(ledger'[k])
        <4>1. CASE k \in 1 .. n
          <5>1. k - 1 \in 0 .. n
            BY <3>4, <4>1
          <5>2. QED
            BY <3>1, <3>4, <4>1, <5>1 DEF Chained
        <4>2. CASE k = n + 1
          <5>1. BalanceAt(n)' = wallet /\ k - 1 = n
            BY <3>1, <3>3, <3>4, <4>2 DEF Chained
          <5>2. QED
            BY <3>2, <3>4, <4>2, <5>1
        <4>3. QED
          BY <3>4, <3>6, <4>1, <4>2
      <3>7. wallet' = BalanceAt(Len(ledger))'
        BY <3>2, <3>4 DEF BalanceAt
      <3>8. QED
        BY <2>2, <3>2, <3>4, <3>5, <3>6, <3>7 DEF LedgerInv, LedgerTyped, Chained, ValidRow
    <2>5. QED
      BY <2>1, <2>3, <2>4, ServiceSteps
  <1>3. QED
    BY <1>1, <1>2, PTL DEF Spec

-----------------------------------------------------------------------------
(* The pages.                                                              *)

Positions == [ts : Times, id : IDs]

PageRecords == [rows : SUBSET Entries, at : Nat]

PagesTyped ==
    /\ pages \in [Pagers -> Seq(PageRecords)]
    /\ cursor \in [Pagers -> Positions \cup {None}]
    /\ listing \in [Pagers -> {"idle", "paging", "complete"}]

(* Where a client is between two pages: it was shown nothing after its     *)
(* cursor, and what it was not shown of the entries its first page could   *)
(* have seen lies after its cursor.                                        *)
Between(p) ==
    /\ listing[p] = "idle" => cursor[p] = None /\ pages[p] = <<>>
    /\ listing[p] # "idle" => Len(pages[p]) >= 1
    /\ listing[p] = "paging" =>
         cursor[p] \in Positions /\ \A e \in Shown(p) : ~Before(cursor[p], e)
    /\ Len(pages[p]) >= 1 =>
         /\ pages[p][1].at <= Len(ledger)
         /\ \A k \in 1 .. pages[p][1].at :
                \/ ledger[k] \in Shown(p)
                \/ listing[p] = "paging" /\ Before(cursor[p], ledger[k])

PagesInv == PagesTyped /\ PagesInOrder /\ \A p \in Pagers : Between(p)

(* The committed rows can be listed.                                       *)
LEMMA RowsAreListable ==
    ASSUME LedgerInv
    PROVE  /\ Listable(Rows) /\ Rows \subseteq Entries
           /\ Len(ledger) \in Nat /\ DOMAIN ledger = 1 .. Len(ledger)
           /\ \A k \in 1 .. Len(ledger) : ledger[k] \in Rows
  <1>1. /\ Len(ledger) \in Nat /\ DOMAIN ledger = 1 .. Len(ledger)
        /\ \A k \in 1 .. Len(ledger) : ledger[k] \in Entries
        /\ ledger \in [1 .. Len(ledger) -> Entries]
    BY DEF LedgerInv, LedgerTyped
  <1>2. Rows \subseteq Entries /\ \A k \in 1 .. Len(ledger) : ledger[k] \in Rows
    BY <1>1 DEF Rows
  <1>3. IsFiniteSet(Rows)
    <2>1. ledger \in Surjection(1 .. Len(ledger), Rows)
      BY <1>1, <1>2 DEF Surjection, Rows
    <2>2. IsFiniteSet(1 .. Len(ledger))
      BY <1>1, FS_Interval
    <2>3. QED
      BY <2>1, <2>2, FS_Surjection DEF ExistsSurjection
  <1>4. \A e \in Rows : Positioned(e)
    BY <1>2 DEF Entries, Positioned
  <1>5. \A e, f \in Rows : e.id = f.id => e = f
    BY DEF Rows, LedgerInv, Chained
  <1>6. QED
    BY <1>1, <1>2, <1>3, <1>4, <1>5 DEF Listable

LEMMA AfterIsListable ==
    ASSUME LedgerInv, NEW c
    PROVE  Listable(After(c)) /\ After(c) \subseteq Rows
  <1>1. After(c) \subseteq Rows /\ Listable(Rows)
    BY RowsAreListable DEF After
  <1>2. IsFiniteSet(After(c))
    BY <1>1, Counting DEF Listable
  <1>3. QED
    BY <1>1, <1>2 DEF Listable

(* What a page may hold and where it leaves the client, in terms of the    *)
(* rows after the cursor it was asked with.                                *)
LEMMA PageIsPrefix ==
    ASSUME LedgerInv, PagesInv, NEW p \in Pagers, NEW limit \in Limits, ListPage(p, limit)
    PROVE  \E page \in SUBSET After(cursor[p]) :
             /\ pages' = [pages EXCEPT ![p] = Append(@, [rows |-> page, at |-> Len(ledger)])]
             /\ \/ /\ listing' = [listing EXCEPT ![p] = "complete"]
                   /\ cursor' = [cursor EXCEPT ![p] = None]
                   /\ page = After(cursor[p])
                \/ \E last \in page :
                     /\ listing' = [listing EXCEPT ![p] = "paging"]
                     /\ cursor' = [cursor EXCEPT ![p] = [ts |-> last.ts, id |-> last.id]]
                     /\ \A e \in page : ~Before(last, e)
                     /\ \A e \in After(cursor[p]) : ~Before(last, e) => e \in page
  <1> DEFINE S == After(cursor[p])
             records == First(limit + 1, S)
  <1>1. PICK page : page = First(limit, records)
    OBVIOUS
  <1>2. PICK more : more = (Cardinality(records) > limit)
    OBVIOUS
  <1>3. /\ pages' = [pages EXCEPT ![p] = Append(@, [rows |-> page, at |-> Len(ledger)])]
        /\ cursor' = [cursor EXCEPT ![p] =
             IF more THEN NextCursor(limit, records) ELSE None]
        /\ listing' = [listing EXCEPT ![p] = IF more THEN "paging" ELSE "complete"]
    BY <1>1, <1>2 DEF ListPage
  <1>4. Listable(S) /\ limit \in Nat \ {0}
    BY AfterIsListable, BoundsAssumption DEF MaxLedgerLimit
  <1>5. page \subseteq S
    BY <1>1 DEF First
  <1>6. CASE more
    <2>1. PICK last : last = Last(page)
      OBVIOUS
    <2>2. NextCursor(limit, records) = [ts |-> last.ts, id |-> last.id]
      BY <1>1, <2>1 DEF NextCursor
    <2>3. Cardinality(First(limit + 1, S)) > limit
      BY <1>2, <1>6
    <2> HIDE DEF S
    <2>4. /\ last \in page /\ \A e \in page : ~Before(last, e)
          /\ \A e \in S : ~Before(last, e) => e \in page
      BY <1>1, <1>4, <2>1, <2>3, NextPage
    <2>5. QED
      BY <1>3, <1>5, <1>6, <2>2, <2>4 DEF S
  <1>7. CASE ~more
    <2>1. ~(Cardinality(First(limit + 1, S)) > limit)
      BY <1>2, <1>7
    <2>2. page = S
      BY <1>1, <1>4, <2>1, LastPage
    <2>3. QED
      BY <1>3, <1>5, <1>7, <2>2
  <1>8. more \in BOOLEAN
    BY <1>2
  <1>9. QED
    BY <1>6, <1>7, <1>8

(* A page is shown in addition to the pages before it.                     *)
LEMMA PageIsAppended ==
    ASSUME PagesTyped, NEW p \in Pagers, NEW page \in SUBSET Entries, NEW n \in Nat,
           NEW x, x = [rows |-> page, at |-> n],
           pages' = [pages EXCEPT ![p] = Append(@, x)]
    PROVE  /\ pages' \in [Pagers -> Seq(PageRecords)]
           /\ \A q \in Pagers \ {p} : pages'[q] = pages[q]
           /\ Len(pages[p]) \in Nat /\ DOMAIN pages[p] = 1 .. Len(pages[p])
           /\ Len(pages'[p]) = Len(pages[p]) + 1
           /\ DOMAIN pages'[p] = 1 .. Len(pages[p]) + 1
           /\ \A k \in 1 .. Len(pages[p]) : pages'[p][k] = pages[p][k]
           /\ pages'[p][Len(pages[p]) + 1].rows = page
           /\ pages'[p][Len(pages[p]) + 1].at = n
           /\ Shown(p)' = Shown(p) \cup page
  <1>2. PICK s : s = pages[p]
    OBVIOUS
  <1>3. /\ x \in PageRecords /\ x.rows = page /\ x.at = n
        /\ s \in Seq(PageRecords)
    BY <1>2 DEF PagesTyped, PageRecords
  <1>4. pages' = [pages EXCEPT ![p] = Append(s, x)]
    BY <1>2
  <1>5. /\ Append(s, x) \in Seq(PageRecords)
        /\ Len(s) \in Nat /\ DOMAIN s = 1 .. Len(s)
        /\ Len(Append(s, x)) = Len(s) + 1
        /\ DOMAIN Append(s, x) = 1 .. Len(s) + 1
        /\ \A k \in 1 .. Len(s) : Append(s, x)[k] = s[k]
        /\ Append(s, x)[Len(s) + 1] = x
    BY <1>3
  <1>6. /\ pages' \in [Pagers -> Seq(PageRecords)]
        /\ \A q \in Pagers \ {p} : pages'[q] = pages[q]
        /\ pages'[p] = Append(s, x)
    BY <1>4, <1>5 DEF PagesTyped
  <1>7. Shown(p)' = Shown(p) \cup page
    <2>1. \A e : e \in Shown(p) <=> \E k \in 1 .. Len(s) : e \in s[k].rows
      BY <1>2, <1>5 DEF Shown
    <2>2. \A e : e \in Shown(p)' <=> \E k \in DOMAIN pages'[p] : e \in pages'[p][k].rows
      BY DEF Shown
    <2>3. \A k \in 1 .. Len(s) + 1 : k \in 1 .. Len(s) \/ k = Len(s) + 1
      BY <1>5
    <2>4. ASSUME NEW e, e \in Shown(p)' PROVE e \in Shown(p) \cup page
      <3>1. PICK k \in 1 .. Len(s) + 1 : e \in Append(s, x)[k].rows
        BY <1>5, <1>6, <2>2, <2>4
      <3>2. QED
        BY <1>3, <1>5, <2>1, <2>3, <3>1
    <2>5. ASSUME NEW e, e \in Shown(p) PROVE e \in Shown(p)'
      <3>1. PICK k \in 1 .. Len(s) : e \in s[k].rows
        BY <2>1, <2>5
      <3>2. k \in 1 .. Len(s) + 1 /\ e \in Append(s, x)[k].rows
        BY <1>5, <3>1
      <3>3. QED
        BY <1>5, <1>6, <2>2, <3>2
    <2>6. ASSUME NEW e, e \in page PROVE e \in Shown(p)'
      <3>1. Len(s) + 1 \in 1 .. Len(s) + 1 /\ e \in Append(s, x)[Len(s) + 1].rows
        BY <1>3, <1>5, <2>6
      <3>2. QED
        BY <1>5, <1>6, <2>2, <3>1
    <2>7. QED
      BY <2>4, <2>5, <2>6
  <1>8. QED
    BY <1>2, <1>3, <1>5, <1>6, <1>7

(* One call of Ledger.                                                     *)
LEMMA ListPageKeeps ==
    ASSUME LedgerInv, PagesInv, NEW p \in Pagers, NEW limit \in Limits, ListPage(p, limit)
    PROVE  PagesInv'
  <1>1. PICK page \in SUBSET After(cursor[p]) :
             /\ pages' = [pages EXCEPT ![p] = Append(@, [rows |-> page, at |-> Len(ledger)])]
             /\ \/ /\ listing' = [listing EXCEPT ![p] = "complete"]
                   /\ cursor' = [cursor EXCEPT ![p] = None]
                   /\ page = After(cursor[p])
                \/ \E last \in page :
                     /\ listing' = [listing EXCEPT ![p] = "paging"]
                     /\ cursor' = [cursor EXCEPT ![p] = [ts |-> last.ts, id |-> last.id]]
                     /\ \A e \in page : ~Before(last, e)
                     /\ \A e \in After(cursor[p]) : ~Before(last, e) => e \in page
    BY PageIsPrefix
  <1>2. /\ page \in SUBSET Entries /\ Len(ledger) \in Nat /\ PagesTyped
        /\ UNCHANGED ledger /\ listing[p] # "complete"
    BY <1>1, AfterIsListable, RowsAreListable DEF PagesInv, ListPage, writing
  <1>3. PICK n : n = Len(pages[p])
    OBVIOUS
  <1>l. PICK l : l = Len(ledger)
    OBVIOUS
  <1>c. PICK c : c = cursor[p]
    OBVIOUS
  <1>4. /\ pages' \in [Pagers -> Seq(PageRecords)]
        /\ \A q \in Pagers \ {p} : pages'[q] = pages[q]
        /\ n \in Nat /\ DOMAIN pages[p] = 1 .. n /\ DOMAIN pages'[p] = 1 .. n + 1
        /\ Len(pages'[p]) = n + 1
        /\ \A k \in 1 .. n : pages'[p][k] = pages[p][k]
        /\ pages'[p][n + 1].rows = page /\ pages'[p][n + 1].at = l
        /\ Shown(p)' = Shown(p) \cup page
    <2>1. PICK x : x = [rows |-> page, at |-> l]
      OBVIOUS
    <2>2. l \in Nat /\ pages' = [pages EXCEPT ![p] = Append(@, x)] /\ page \in SUBSET Entries
      BY <1>1, <1>2, <1>l, <2>1
    <2>3. PagesTyped
      BY DEF PagesInv
    <2>4. /\ pages' \in [Pagers -> Seq(PageRecords)]
          /\ \A q \in Pagers \ {p} : pages'[q] = pages[q]
          /\ Len(pages[p]) \in Nat /\ DOMAIN pages[p] = 1 .. Len(pages[p])
          /\ Len(pages'[p]) = Len(pages[p]) + 1
          /\ DOMAIN pages'[p] = 1 .. Len(pages[p]) + 1
          /\ \A k \in 1 .. Len(pages[p]) : pages'[p][k] = pages[p][k]
          /\ pages'[p][Len(pages[p]) + 1].rows = page
          /\ pages'[p][Len(pages[p]) + 1].at = l
          /\ Shown(p)' = Shown(p) \cup page
      BY <2>1, <2>2, <2>3, PageIsAppended
    <2>5. QED
      BY <1>3, <2>4
  <1>5. \A e : e \in Entries => Positioned(e)
    BY DEF Entries, Positioned
  <1>s. \A e : e \in Shown(p) <=> \E k \in 1 .. n : e \in pages[p][k].rows
    BY <1>4 DEF Shown
  <1>t. \A k \in 1 .. n : pages[p][k].rows \in SUBSET Entries /\ pages[p][k].at \in Nat
    <2>1. pages[p] \in Seq(PageRecords)
      BY <1>2 DEF PagesTyped
    <2>2. \A k \in 1 .. n : pages[p][k] \in PageRecords
      BY <1>3, <2>1
    <2>3. QED
      BY <2>2 DEF PageRecords
  <1>6. Shown(p) \subseteq Entries
    BY <1>s, <1>t
  <1>7. \A e \in Positions : Positioned(e)
    BY DEF Positions, Positioned
  <1>b. Between(p)
    BY DEF PagesInv
  <1>8. ASSUME NEW e \in Shown(p), NEW f \in page PROVE Before(e, f)
    <2>1. n # 0
      BY <1>4, <1>8, <1>s
    <2>2. listing[p] = "paging"
      BY <1>2, <1>3, <1>b, <2>1 DEF PagesTyped, Between
    <2>3. cursor[p] \in Positions /\ ~Before(cursor[p], e)
      BY <1>8, <2>2 DEF PagesInv, Between
    <2>4. Before(cursor[p], f)
      BY <1>1, <1>8, <2>3, NoneAssumption DEF After, Positions, Times, IDs
    <2>5. QED
      BY <1>2, <1>5, <1>6, <1>7, <1>8, <2>3, <2>4, BeforeIsTransitive
  <1>9. PagesInOrder'
    <2>1. SUFFICES ASSUME NEW q \in Pagers, NEW j \in DOMAIN pages'[q],
                          NEW k \in DOMAIN pages'[q], j < k,
                          NEW e \in pages'[q][j].rows, NEW f \in pages'[q][k].rows
                   PROVE  Before(e, f)
      BY DEF PagesInOrder
    <2>2. CASE q # p
      BY <1>4, <2>1, <2>2 DEF PagesInv, PagesInOrder
    <2>3. CASE q = p /\ k \in 1 .. n
      BY <1>4, <2>1, <2>3 DEF PagesInv, PagesInOrder
    <2>4. CASE q = p /\ k = n + 1
      <3>1. j \in 1 .. n
        BY <1>4, <2>1, <2>4
      <3>2. e \in Shown(p) /\ f \in page
        BY <1>4, <2>1, <2>4, <3>1 DEF Shown
      <3>3. QED
        BY <1>8, <3>2
    <2>5. QED
      BY <1>4, <2>1, <2>2, <2>3, <2>4
  <1>10. ASSUME NEW k \in 1 .. pages'[p][1].at
         PROVE  /\ k \in 1 .. Len(ledger)
                /\ ledger[k] \in Shown(p) \/ ledger[k] \in After(cursor[p])
    <2>1. CASE n = 0
      <3>1. cursor[p] = None /\ pages'[p][1].at = l
        BY <1>2, <1>3, <1>4, <1>b, <2>1 DEF Between, PagesTyped
      <3>2. QED
        BY <1>10, <1>l, <3>1, RowsAreListable DEF After
    <2>2. CASE n # 0
      <3>1. pages'[p][1] = pages[p][1] /\ n >= 1
        BY <1>4, <2>2
      <3>2. /\ pages[p][1].at <= Len(ledger) /\ pages[p][1].at \in Nat
            /\ \A i \in 1 .. pages[p][1].at :
                   \/ ledger[i] \in Shown(p)
                   \/ listing[p] = "paging" /\ Before(cursor[p], ledger[i])
        BY <1>3, <1>4, <1>b, <1>t, <3>1 DEF Between
      <3>3. k \in 1 .. Len(ledger) /\ ledger[k] \in Rows
        BY <1>2, <1>10, <3>1, <3>2, RowsAreListable
      <3>4. QED
        BY <1>10, <3>1, <3>2, <3>3 DEF After
    <2>3. QED
      BY <2>1, <2>2
  <1>11. pages'[p][1].at <= Len(ledger) /\ pages'[p][1].at \in Nat
    <2>1. CASE n = 0
      BY <1>2, <1>4, <1>l, <2>1
    <2>2. CASE n # 0
      BY <1>3, <1>4, <1>b, <1>t, <2>2 DEF Between
    <2>3. QED
      BY <2>1, <2>2
  <1>12. UNCHANGED ledger /\ Len(pages'[p]) >= 1
    BY <1>2, <1>4
  <1>13. ASSUME NEW q \in Pagers, q # p, cursor'[q] = cursor[q], listing'[q] = listing[q]
         PROVE  Between(q)'
    <2>1. Between(q) /\ pages'[q] = pages[q] /\ Shown(q)' = Shown(q)
      BY <1>4, <1>13 DEF PagesInv, Shown
    <2>2. QED
      BY <1>12, <1>13, <2>1 DEF Between
  <1>14. CASE /\ listing' = [listing EXCEPT ![p] = "complete"]
              /\ cursor' = [cursor EXCEPT ![p] = None]
              /\ page = After(cursor[p])
    <2>1. /\ cursor' \in [Pagers -> Positions \cup {None}]
          /\ listing' \in [Pagers -> {"idle", "paging", "complete"}]
          /\ listing'[p] = "complete"
          /\ \A q \in Pagers \ {p} : cursor'[q] = cursor[q] /\ listing'[q] = listing[q]
      BY <1>2, <1>14 DEF PagesTyped
    <2>2. PagesTyped'
      BY <1>4, <2>1 DEF PagesTyped
    <2>3. \A k \in 1 .. pages'[p][1].at : ledger[k] \in Shown(p)'
      BY <1>4, <1>10, <1>14
    <2>4. Between(p)'
      BY <1>11, <1>12, <2>1, <2>3 DEF Between
    <2>5. QED
      BY <1>9, <1>13, <2>1, <2>2, <2>4 DEF PagesInv
  <1>15. ASSUME NEW last \in page,
                listing' = [listing EXCEPT ![p] = "paging"],
                cursor' = [cursor EXCEPT ![p] = [ts |-> last.ts, id |-> last.id]],
                \A e \in page : ~Before(last, e),
                \A e \in After(cursor[p]) : ~Before(last, e) => e \in page
         PROVE  PagesInv'
    <2>1. last \in Entries
      BY <1>2
    <2>2. PICK d : d = [ts |-> last.ts, id |-> last.id]
      OBVIOUS
    <2>3. d \in Positions /\ d.ts = last.ts /\ d.id = last.id
      BY <2>1, <2>2 DEF Positions, Entries
    <2>4. \A e : Before(d, e) <=> Before(last, e)
      BY <2>3 DEF Before
    <2>5. /\ cursor' \in [Pagers -> Positions \cup {None}]
          /\ listing' \in [Pagers -> {"idle", "paging", "complete"}]
          /\ listing'[p] = "paging" /\ cursor'[p] = d
          /\ \A q \in Pagers \ {p} : cursor'[q] = cursor[q] /\ listing'[q] = listing[q]
      BY <1>2, <1>15, <2>2, <2>3 DEF PagesTyped
    <2>6. PagesTyped'
      BY <1>4, <2>5 DEF PagesTyped
    <2>7. \A e \in Shown(p)' : ~Before(d, e)
      <3>1. SUFFICES ASSUME NEW e \in Shown(p)' PROVE ~Before(last, e)
        BY <2>4
      <3>2. CASE e \in page
        BY <1>15, <3>2
      <3>3. CASE e \in Shown(p)
        <4>1. Before(e, last)
          BY <1>8, <3>3
        <4>2. Positioned(e) /\ Positioned(last)
          BY <1>5, <1>6, <2>1, <3>3
        <4>3. QED
          BY <4>1, <4>2, BeforeIsTransitive
      <3>4. QED
        BY <1>4, <3>2, <3>3
    <2>8. \A k \in 1 .. pages'[p][1].at : ledger[k] \in Shown(p)' \/ Before(d, ledger[k])
      BY <1>4, <1>10, <1>15, <2>4
    <2>9. Between(p)'
      <3>1. ledger' = ledger
        BY <1>12
      <3>2. \A k \in 1 .. pages'[p][1].at :
               ledger'[k] \in Shown(p)' \/ (listing'[p] = "paging" /\ Before(cursor'[p], ledger'[k]))
        BY <2>5, <2>8, <3>1
      <3>3. cursor'[p] \in Positions /\ \A e \in Shown(p)' : ~Before(cursor'[p], e)
        BY <2>3, <2>5, <2>7
      <3>4. QED
        BY <1>11, <1>12, <2>5, <3>1, <3>2, <3>3 DEF Between, Before
    <2>10. QED
      BY <1>9, <1>13, <2>5, <2>6, <2>9 DEF PagesInv
  <1>16. QED
    BY <1>1, <1>14, <1>15

(* Every other step leaves the clients alone and only adds to the ledger.  *)
LEMMA OtherStepsKeepPages ==
    ASSUME LedgerInv, PagesInv, UNCHANGED paging, UNCHANGED ledger \/ \E e : Moves(e)
    PROVE  PagesInv'
  <1>1. PICK n : n = Len(ledger)
    OBVIOUS
  <1>2. /\ n \in Nat /\ Len(ledger') >= n /\ Len(ledger') \in Nat
        /\ \A k \in 1 .. n : ledger'[k] = ledger[k]
    <2>1. CASE UNCHANGED ledger
      BY <1>1, <2>1, RowsAreListable
    <2>2. ASSUME NEW e, Moves(e)
          PROVE  /\ n \in Nat /\ Len(ledger') >= n /\ Len(ledger') \in Nat
                 /\ \A k \in 1 .. n : ledger'[k] = ledger[k]
      <3>1. LedgerTyped
        BY DEF LedgerInv
      <3>2. /\ Len(ledger) \in Nat /\ Len(ledger') = Len(ledger) + 1
            /\ \A k \in 1 .. Len(ledger) : ledger'[k] = ledger[k]
        BY <2>2, <3>1, MoveAppends
      <3>3. QED
        BY <1>1, <3>2
    <2>3. QED
      BY <2>1, <2>2
  <1>3. cursor' = cursor /\ pages' = pages /\ listing' = listing
    BY DEF paging
  <1>4. PagesTyped' /\ PagesInOrder'
    BY <1>3 DEF PagesInv, PagesTyped, PagesInOrder
  <1>5. ASSUME NEW p \in Pagers PROVE Between(p)'
    <2>1. Between(p) /\ Shown(p)' = Shown(p)
      BY <1>3 DEF PagesInv, Shown
    <2>2. ASSUME Len(pages[p]) >= 1
          PROVE  /\ pages[p][1].at \in Nat /\ pages[p][1].at <= n
                 /\ \A k \in 1 .. pages[p][1].at :
                      /\ ledger'[k] = ledger[k]
                      /\ \/ ledger[k] \in Shown(p)
                         \/ listing[p] = "paging" /\ Before(cursor[p], ledger[k])
      <3>1. pages[p] \in Seq(PageRecords)
        BY DEF PagesInv, PagesTyped
      <3>2. pages[p][1] \in PageRecords
        BY <2>2, <3>1
      <3>3. pages[p][1].at \in Nat
        BY <3>2 DEF PageRecords
      <3>4. QED
        BY <1>1, <1>2, <2>1, <2>2, <3>3 DEF Between
    <2>3. Len(pages'[p]) >= 1 =>
            /\ pages'[p][1].at <= Len(ledger')
            /\ \A k \in 1 .. pages'[p][1].at :
                 \/ ledger'[k] \in Shown(p)'
                 \/ listing'[p] = "paging" /\ Before(cursor'[p], ledger'[k])
      BY <1>2, <1>3, <2>1, <2>2
    <2>4. QED
      BY <1>3, <2>1, <2>3 DEF Between, Before
  <1>6. QED
    BY <1>4, <1>5 DEF PagesInv

LEMMA PagesInvariant == Spec => []PagesInv
  <1>1. Init => PagesInv
    <2>1. SUFFICES ASSUME Init PROVE PagesInv
      OBVIOUS
    <2>2. /\ cursor = [p \in Pagers |-> None] /\ listing = [p \in Pagers |-> "idle"]
          /\ \A p \in Pagers : pages[p] = <<>> /\ Len(pages[p]) = 0 /\ DOMAIN pages[p] = {}
          /\ pages = [p \in Pagers |-> <<>>] /\ <<>> \in Seq(PageRecords)
      BY <2>1 DEF Init
    <2>3. PagesTyped
      BY <2>2 DEF PagesTyped
    <2>4. PagesInOrder
      BY <2>2 DEF PagesInOrder
    <2>5. QED
      BY <2>2, <2>3, <2>4 DEF PagesInv, Between
  <1>2. LedgerInv /\ PagesInv /\ [Next]_vars => PagesInv'
    <2>1. SUFFICES ASSUME LedgerInv, PagesInv, [Next]_vars PROVE PagesInv'
      OBVIOUS
    <2>2. ASSUME NEW p \in Pagers, NEW limit \in Limits, ListPage(p, limit)
          PROVE  PagesInv'
      BY <2>1, <2>2, ListPageKeeps
    <2>3. CASE UNCHANGED paging
      <3>1. UNCHANGED ledger \/ \E e : Moves(e)
        BY <2>1, ServiceSteps DEF LedgerInv
      <3>2. QED
        BY <2>1, <2>3, <3>1, OtherStepsKeepPages
    <2>4. QED
      BY <2>1, <2>2, <2>3 DEF Next, Tick, BeginRequest, CommitMovement, ReadView, ReadWallet,
         ReadLedger, Answer, vars
  <1>3. QED
    BY <1>1, <1>2, LedgerInvariant, PTL DEF Spec

(* Whatever is committed between two calls of query.Service.Ledger, and    *)
(* whatever limit the client asks for, the rows of a page come after every *)
(* row it was shown before: the keyset cursor never repeats a row.         *)
THEOREM PagesNeverGoBack == Spec => []PagesInOrder
  <1>1. PagesInv => PagesInOrder
    BY DEF PagesInv
  <1>2. QED
    BY <1>1, PagesInvariant, PTL

(* A client that follows NextCursor until there is none has been shown     *)
(* every entry that was committed before its first call.                   *)
THEOREM ListingsAreComplete == Spec => []NothingSkipped
  <1>1. PagesInv => NothingSkipped
    BY DEF PagesInv, NothingSkipped, Between
  <1>2. QED
    BY <1>1, PagesInvariant, PTL

-----------------------------------------------------------------------------
(* What Reconstruct computes.                                              *)

(* An iteration from a is a function on the numbers.                       *)
LEMMA Iteration ==
    ASSUME NEW T, NEW a \in T, NEW G \in [T -> T]
    PROVE  \E f \in [Nat -> T] : f[0] = a /\ \A n \in Nat : f[n + 1] = G[f[n]]
  <1> DEFINE Approx(n, f) == /\ f \in [0 .. n -> T] /\ f[0] = a
                             /\ \A i \in 0 .. n - 1 : f[i + 1] = G[f[i]]
  <1>1. \E f : Approx(0, f)
    <2>1. [i \in 0 .. 0 |-> a] \in [0 .. 0 -> T] /\ 0 \in 0 .. 0 /\ 0 .. 0 - 1 = {}
      OBVIOUS
    <2>2. Approx(0, [i \in 0 .. 0 |-> a])
      BY <2>1
    <2>3. QED
      BY <2>2
  <1>2. ASSUME NEW n \in Nat, NEW f, Approx(n, f) PROVE \E g : Approx(n + 1, g)
    <2>1. PICK g : g = [i \in 0 .. n + 1 |-> IF i = n + 1 THEN G[f[n]] ELSE f[i]]
      OBVIOUS
    <2>2. f[n] \in T /\ G[f[n]] \in T /\ \A i \in 0 .. n : f[i] \in T
      BY <1>2
    <2>3. \A i \in 0 .. n + 1 : i = n + 1 \/ i \in 0 .. n
      OBVIOUS
    <2>4. g \in [0 .. n + 1 -> T] /\ g[n + 1] = G[f[n]] /\ \A i \in 0 .. n : g[i] = f[i]
      BY <2>1, <2>2, <2>3
    <2>5. ASSUME NEW i \in 0 .. (n + 1) - 1 PROVE g[i + 1] = G[g[i]]
      <3>1. CASE i = n
        BY <2>4, <3>1
      <3>2. CASE i # n
        BY <1>2, <2>4, <2>5, <3>2
      <3>3. QED
        BY <3>1, <3>2
    <2>6. Approx(n + 1, g)
      BY <1>2, <2>4, <2>5
    <2>7. QED
      BY <2>6
  <1> HIDE DEF Approx
  <1>3. \A n \in Nat : \E f : Approx(n, f)
    <2> DEFINE S == {n \in Nat : \E f : Approx(n, f)}
    <2>1. S \subseteq Nat /\ 0 \in S /\ \A n \in S : n + 1 \in S
      BY <1>1, <1>2
    <2> HIDE DEF S
    <2>2. S = Nat
      BY <2>1, InductiveSet
    <2>3. QED
      BY <2>2 DEF S
  <1>4. ASSUME NEW i \in Nat
        PROVE  \A n, m \in Nat : \A f, g :
                 Approx(n, f) /\ Approx(m, g) /\ i <= n /\ i <= m => f[i] = g[i]
    <2> DEFINE Agree(j) == \A n, m \in Nat : \A f, g :
                 Approx(n, f) /\ Approx(m, g) /\ j <= n /\ j <= m => f[j] = g[j]
               S == {j \in Nat : Agree(j)}
    <2>1. Agree(0)
      BY DEF Approx
    <2>2. ASSUME NEW j \in Nat, Agree(j) PROVE Agree(j + 1)
      <3>1. SUFFICES ASSUME NEW n \in Nat, NEW m \in Nat, NEW f, NEW g,
                            Approx(n, f), Approx(m, g), j + 1 <= n, j + 1 <= m
                     PROVE  f[j + 1] = g[j + 1]
        OBVIOUS
      <3>2. f[j] = g[j]
        BY <2>2, <3>1
      <3>3. f[j + 1] = G[f[j]] /\ g[j + 1] = G[g[j]]
        BY <3>1 DEF Approx
      <3>4. QED
        BY <3>2, <3>3
    <2> HIDE DEF Agree
    <2>3. S \subseteq Nat /\ 0 \in S /\ \A j \in S : j + 1 \in S
      BY <2>1, <2>2
    <2> HIDE DEF S
    <2>4. S = Nat
      BY <2>3, InductiveSet
    <2>5. Agree(i)
      BY <2>4 DEF S
    <2>6. QED
      BY <2>5 DEF Agree
  <1> DEFINE h(n) == CHOOSE f : Approx(n, f)
  <1>5. \A n \in Nat : Approx(n, h(n))
    BY <1>3
  <1> HIDE DEF h
  <1>6. PICK F : F = [n \in Nat |-> h(n)[n]]
    OBVIOUS
  <1>7. \A n \in Nat : F[n] = h(n)[n] /\ h(n)[n] \in T
    BY <1>5, <1>6 DEF Approx
  <1>8. F \in [Nat -> T] /\ F[0] = a
    BY <1>5, <1>6, <1>7 DEF Approx
  <1>9. ASSUME NEW n \in Nat PROVE F[n + 1] = G[F[n]]
    <2>1. Approx(n, h(n)) /\ Approx(n + 1, h(n + 1)) /\ n <= n /\ n <= n + 1 /\ n + 1 \in Nat
      BY <1>5
    <2>2. h(n)[n] = h(n + 1)[n]
      BY <1>4, <2>1
    <2>3. h(n + 1)[n + 1] = G[h(n + 1)[n]]
      BY <2>1 DEF Approx
    <2>4. QED
      BY <1>7, <2>1, <2>2, <2>3
  <1>10. QED
    BY <1>8, <1>9

(* What the loop keeps from round to round.                                *)
Walks == [ok : BOOLEAN, balance : Balances, left : SUBSET Rows]

Start == [ok |-> \A e \in Rows : ValidRow(e), balance |-> 0, left |-> Rows]

LEMMA FollowKeepsType ==
    ASSUME LedgerInv
    PROVE  Start \in Walks /\ \A w \in Walks : Follow(w) \in Walks
  <1>1. 0 \in Balances /\ Rows \subseteq Entries
    BY BoundsAssumption, RowsAreListable DEF Balances
  <1>2. Start \in Walks
    BY <1>1 DEF Start, Walks
  <1>3. ASSUME NEW w \in Walks PROVE Follow(w) \in Walks
    <2>1. PICK next : next = Candidates(w.left, w.balance)
      OBVIOUS
    <2>2. next \subseteq w.left /\ w.left \subseteq Rows
      BY <2>1 DEF Candidates, Walks
    <2>3. CASE ~w.ok \/ Cardinality(next) # 1
      <3>1. Follow(w) = [ok |-> FALSE, balance |-> 0, left |-> {}]
        BY <2>1, <2>3 DEF Follow
      <3>2. QED
        BY <1>1, <3>1 DEF Walks
    <2>4. CASE ~(~w.ok \/ Cardinality(next) # 1)
      <3>1. PICK e : e = CHOOSE x \in next : TRUE
        OBVIOUS
      <3>2. Follow(w) = [ok |-> TRUE, balance |-> e.after, left |-> w.left \ {e}]
        BY <2>1, <2>4, <3>1 DEF Follow
      <3>3. next # {}
        BY <2>4, FS_EmptySet
      <3>4. e \in Entries
        BY <1>1, <2>2, <3>1, <3>3
      <3>5. e.after \in Balances /\ w.left \ {e} \in SUBSET Rows
        BY <2>2, <3>4 DEF Entries
      <3>6. QED
        BY <3>2, <3>5 DEF Walks
    <2>5. QED
      BY <2>3, <2>4
  <1>4. QED
    BY <1>2, <1>3

(* The rounds of Reconstruct.                                              *)
LEMMA WalkRounds ==
    ASSUME LedgerInv
    PROVE  /\ Walk \in [Nat -> Walks] /\ Walk[0] = Start
           /\ \A n \in Nat : Walk[n + 1] = Follow(Walk[n])
  <1>1. PICK G : G = [w \in Walks |-> Follow(w)]
    OBVIOUS
  <1>2. Start \in Walks /\ G \in [Walks -> Walks] /\ \A w \in Walks : G[w] = Follow(w)
    BY <1>1, FollowKeepsType
  <1>3. PICK f \in [Nat -> Walks] : f[0] = Start /\ \A n \in Nat : f[n + 1] = G[f[n]]
    <2>1. PICK T, a : T = Walks /\ a = Start
      OBVIOUS
    <2>2. a \in T /\ G \in [T -> T]
      BY <1>2, <2>1
    <2>3. \E f \in [Nat -> T] : f[0] = a /\ \A n \in Nat : f[n + 1] = G[f[n]]
      BY <2>2, Iteration
    <2>4. QED
      BY <2>1, <2>3
  <1>4. \A k \in Nat : f[k] = IF k = 0 THEN Start ELSE Follow(f[k - 1])
    <2>1. SUFFICES ASSUME NEW k \in Nat, k # 0 PROVE f[k] = Follow(f[k - 1])
      BY <1>3
    <2>2. k - 1 \in Nat /\ k = (k - 1) + 1
      BY <2>1
    <2>3. f[k - 1] \in Walks /\ f[k] = G[f[k - 1]]
      BY <1>3, <2>2
    <2>4. QED
      BY <1>2, <2>3
  <1>5. f = [k \in Nat |-> IF k = 0 THEN Start ELSE Follow(f[k - 1])]
    BY <1>3, <1>4
  <1>6. Walk = [k \in Nat |-> IF k = 0 THEN Start ELSE Follow(Walk[k - 1])]
    BY <1>5 DEF Walk, Start
  <1>7. Walk[0] = Start /\ \A n \in Nat : Walk[n + 1] = Follow(Walk[n])
    BY <1>6
  <1>8. \A n \in Nat : Walk[n] \in Walks
    <2> DEFINE S == {n \in Nat : Walk[n] \in Walks}
    <2>1. S \subseteq Nat /\ 0 \in S /\ \A n \in S : n + 1 \in S
      BY <1>2, <1>7, FollowKeepsType
    <2> HIDE DEF S
    <2>2. S = Nat
      BY <2>1, InductiveSet
    <2>3. QED
      BY <2>2 DEF S
  <1>9. QED
    BY <1>6, <1>7, <1>8

(* Reconstruct makes a round per entry.                                    *)
LEMMA RoundsAreEntries ==
    ASSUME LedgerInv
    PROVE  /\ Cardinality(Rows) = Len(ledger)
           /\ \A e \in Rows : ValidRow(e)
           /\ \A j, k \in 1 .. Len(ledger) : ledger[j] = ledger[k] => j = k
           /\ \A k \in 1 .. Len(ledger) : ledger[k].before = BalanceAt(k - 1)
           /\ wallet = BalanceAt(Len(ledger))
  <1>1. /\ Len(ledger) \in Nat /\ DOMAIN ledger = 1 .. Len(ledger)
        /\ \A k \in 1 .. Len(ledger) : ledger[k] \in Rows
        /\ ledger \in Seq(Entries)
    BY RowsAreListable DEF LedgerInv, LedgerTyped
  <1>2. \A j, k \in 1 .. Len(ledger) : ledger[j] = ledger[k] => j = k
    BY <1>1 DEF LedgerInv, Chained
  <1>3. \A e \in Rows : \E k \in 1 .. Len(ledger) : ledger[k] = e
    BY <1>1 DEF Rows
  <1>4. Cardinality(Rows) = Len(ledger)
    <2>1. ledger \in [1 .. Len(ledger) -> Rows]
      BY <1>1
    <2>2. ledger \in Bijection(1 .. Len(ledger), Rows)
      <3>1. ledger \in Injection(1 .. Len(ledger), Rows)
        BY <1>2, <2>1 DEF Injection, IsInjective
      <3>2. ledger \in Surjection(1 .. Len(ledger), Rows)
        BY <1>3, <2>1 DEF Surjection
      <3>3. QED
        BY <3>1, <3>2 DEF Bijection
    <2>3. /\ IsFiniteSet(1 .. Len(ledger)) /\ Cardinality(1 .. Len(ledger)) = Len(ledger)
      BY <1>1, FS_Interval
    <2>4. ExistsBijection(1 .. Len(ledger), Rows)
      BY <2>2 DEF ExistsBijection
    <2>5. QED
      BY <2>3, <2>4, FS_Bijection
  <1>5. QED
    BY <1>1, <1>2, <1>3, <1>4 DEF LedgerInv, Chained

(* The rows a walk that has followed the first k movements has left.       *)
Rest(k) == {ledger[j] : j \in k + 1 .. Len(ledger)}

LEMMA RestShrinks ==
    ASSUME LedgerInv, NEW k \in Nat, k + 1 <= Len(ledger)
    PROVE  /\ ledger[k + 1] \in Candidates(Rest(k), BalanceAt(k))
           /\ Rest(k) \ {ledger[k + 1]} = Rest(k + 1)
           /\ BalanceAt(k + 1) = ledger[k + 1].after
           /\ IsFiniteSet(Candidates(Rest(k), BalanceAt(k)))
  <1>1. /\ Len(ledger) \in Nat /\ k + 1 \in 1 .. Len(ledger) /\ k + 1 \in k + 1 .. Len(ledger)
        /\ (k + 1) - 1 = k /\ k + 1 # 0
    BY RowsAreListable
  <1>2. ledger[k + 1] \in Candidates(Rest(k), BalanceAt(k))
    <2>1. ledger[k + 1].before = BalanceAt((k + 1) - 1)
      BY <1>1, RoundsAreEntries
    <2>2. QED
      BY <1>1, <2>1 DEF Candidates, Rest
  <1>3. \A j : j \in k + 1 .. Len(ledger) <=> j = k + 1 \/ j \in (k + 1) + 1 .. Len(ledger)
    BY <1>1
  <1>4. \A j \in (k + 1) + 1 .. Len(ledger) : ledger[j] # ledger[k + 1]
    <2>1. SUFFICES ASSUME NEW j \in (k + 1) + 1 .. Len(ledger) PROVE ledger[j] # ledger[k + 1]
      OBVIOUS
    <2>2. j \in 1 .. Len(ledger) /\ j # k + 1
      BY <1>1, <2>1
    <2>3. QED
      BY <1>1, <2>2, RoundsAreEntries
  <1>5. Rest(k) \ {ledger[k + 1]} = Rest(k + 1)
    BY <1>3, <1>4 DEF Rest
  <1>6. BalanceAt(k + 1) = ledger[k + 1].after
    BY <1>1 DEF BalanceAt
  <1>7. IsFiniteSet(Candidates(Rest(k), BalanceAt(k)))
    <2>1. \A j \in k + 1 .. Len(ledger) : j \in 1 .. Len(ledger)
      BY <1>1
    <2>2. Candidates(Rest(k), BalanceAt(k)) \subseteq Rows /\ IsFiniteSet(Rows)
      BY <2>1, RowsAreListable DEF Candidates, Rest, Listable
    <2>3. QED
      BY <2>2, FS_Subset
  <1>8. QED
    BY <1>2, <1>5, <1>6, <1>7

(* A round with one candidate follows the next movement.                   *)
LEMMA RoundFollowsChain ==
    ASSUME LedgerInv, NEW k \in Nat, k + 1 <= Len(ledger), NEW w,
           w.left = Rest(k), w.balance = BalanceAt(k)
    PROVE  /\ Follow(w).ok => w.ok /\ Cardinality(Candidates(Rest(k), BalanceAt(k))) = 1
           /\ Follow(w).ok =>
                Follow(w).left = Rest(k + 1) /\ Follow(w).balance = BalanceAt(k + 1)
           /\ w.ok /\ Cardinality(Candidates(Rest(k), BalanceAt(k))) = 1 => Follow(w).ok
  <1>1. PICK next : next = Candidates(w.left, w.balance)
    OBVIOUS
  <1>2. next = Candidates(Rest(k), BalanceAt(k))
    BY <1>1
  <1>3. CASE ~w.ok \/ Cardinality(next) # 1
    <2>1. Follow(w) = [ok |-> FALSE, balance |-> 0, left |-> {}]
      BY <1>1, <1>3 DEF Follow
    <2>2. ~Follow(w).ok
      BY <2>1
    <2>3. QED
      BY <1>2, <1>3, <2>2
  <1>4. CASE w.ok /\ Cardinality(next) = 1
    <2>1. PICK e : e = CHOOSE x \in next : TRUE
      OBVIOUS
    <2>2. Follow(w) = [ok |-> TRUE, balance |-> e.after, left |-> w.left \ {e}]
      BY <1>1, <1>4, <2>1 DEF Follow
    <2>3. ledger[k + 1] \in next /\ IsFiniteSet(next)
      BY <1>2, RestShrinks
    <2>4. PICK x : next = {x}
      BY <1>4, <2>3, FS_Singleton
    <2>5. e = ledger[k + 1]
      BY <2>1, <2>3, <2>4
    <2>6. /\ Follow(w).ok /\ Follow(w).balance = e.after /\ Follow(w).left = w.left \ {e}
      BY <2>2
    <2>7. QED
      BY <1>2, <1>4, <2>5, <2>6, RestShrinks
  <1>5. QED
    BY <1>3, <1>4

(* As long as a walk has not failed it has followed the movements in the   *)
(* order in which they were committed.                                     *)
LEMMA WalkFollowsCommits ==
    ASSUME LedgerInv
    PROVE  \A k \in Nat : k <= Len(ledger) /\ Walk[k].ok =>
             Walk[k].left = Rest(k) /\ Walk[k].balance = BalanceAt(k)
  <1> DEFINE Along(k) == k <= Len(ledger) /\ Walk[k].ok =>
               Walk[k].left = Rest(k) /\ Walk[k].balance = BalanceAt(k)
             S == {k \in Nat : Along(k)}
  <1>1. Len(ledger) \in Nat /\ DOMAIN ledger = 1 .. Len(ledger)
    BY RowsAreListable
  <1>2. Along(0)
    <2>1. Walk[0].left = Rows /\ Walk[0].balance = 0
      BY WalkRounds DEF Start
    <2>2. Rest(0) = Rows /\ BalanceAt(0) = 0
      BY <1>1 DEF Rest, Rows, BalanceAt
    <2>3. QED
      BY <2>1, <2>2
  <1>3. ASSUME NEW k \in Nat, Along(k) PROVE Along(k + 1)
    <2>1. SUFFICES ASSUME k + 1 <= Len(ledger), Walk[k + 1].ok
                   PROVE  Walk[k + 1].left = Rest(k + 1) /\ Walk[k + 1].balance = BalanceAt(k + 1)
      OBVIOUS
    <2>2. PICK w : w = Walk[k]
      OBVIOUS
    <2>3. Walk[k + 1] = Follow(w)
      BY <2>2, WalkRounds
    <2>4. w.ok
      <3>1. Follow(w).ok
        BY <2>1, <2>3
      <3>2. CASE ~w.ok
        <4>1. Follow(w) = [ok |-> FALSE, balance |-> 0, left |-> {}]
          BY <3>2 DEF Follow
        <4>2. QED
          BY <3>1, <4>1
      <3>3. QED
        BY <3>2
    <2>5. w.left = Rest(k) /\ w.balance = BalanceAt(k)
      BY <1>1, <1>3, <2>1, <2>2, <2>4
    <2>6. QED
      BY <2>1, <2>3, <2>5, RoundFollowsChain
  <1> HIDE DEF Along
  <1>4. S \subseteq Nat /\ 0 \in S /\ \A k \in S : k + 1 \in S
    BY <1>2, <1>3
  <1> HIDE DEF S
  <1>5. S = Nat
    BY <1>4, InductiveSet
  <1>6. QED
    BY <1>5 DEF S, Along

LEMMA ReconstructAnswersWallet ==
    ASSUME LedgerInv
    PROVE  ReconstructIsSound
  <1>1. Len(ledger) \in Nat /\ Len(ledger) <= Len(ledger)
    BY RowsAreListable
  <1>2. Reconstruct = Walk[Len(ledger)] /\ wallet = BalanceAt(Len(ledger))
    BY RoundsAreEntries DEF Reconstruct
  <1>3. QED
    BY <1>1, <1>2, WalkFollowsCommits DEF ReconstructIsSound

(* However the timestamps and ids of the movements sort, a balance that    *)
(* Reconstruct answers is the balance of the wallet.                       *)
THEOREM ReconstructionIsSound == Spec => []ReconstructIsSound
  <1>1. LedgerInv => ReconstructIsSound
    BY ReconstructAnswersWallet
  <1>2. QED
    BY <1>1, LedgerInvariant, PTL

(* A wallet that never left the same balance twice is always               *)
(* reconstructed: each round of Reconstruct then has one candidate.        *)
THEOREM DistinctBalancesReconstruct == Spec => []ReconstructsDistinctBalances
  <1>1. ASSUME LedgerInv PROVE ReconstructsDistinctBalances
    <2>1. SUFFICES ASSUME \A j, k \in DOMAIN ledger :
                            ledger[j].before = ledger[k].before => j = k
                   PROVE  Reconstruct.ok
      BY DEF ReconstructsDistinctBalances
    <2>2. Len(ledger) \in Nat /\ DOMAIN ledger = 1 .. Len(ledger)
      BY <1>1, RowsAreListable
    <2> DEFINE S == {k \in Nat : k <= Len(ledger) => Walk[k].ok}
    <2>3. 0 \in S
      BY <1>1, WalkRounds, RoundsAreEntries DEF Start
    <2>4. ASSUME NEW k \in S PROVE k + 1 \in S
      <3>1. SUFFICES ASSUME k + 1 <= Len(ledger) PROVE Walk[k + 1].ok
        OBVIOUS
      <3>2. PICK w : w = Walk[k]
        OBVIOUS
      <3>3. w.ok /\ k <= Len(ledger) /\ k \in Nat
        BY <2>2, <2>4, <3>1, <3>2
      <3>4. w.left = Rest(k) /\ w.balance = BalanceAt(k)
        BY <1>1, <3>2, <3>3, WalkFollowsCommits
      <3>5. Candidates(Rest(k), BalanceAt(k)) = {ledger[k + 1]}
        <4>1. ledger[k + 1] \in Candidates(Rest(k), BalanceAt(k))
          BY <1>1, <3>1, <3>3, RestShrinks
        <4>2. ASSUME NEW e \in Candidates(Rest(k), BalanceAt(k)) PROVE e = ledger[k + 1]
          <5>1. PICK j \in k + 1 .. Len(ledger) : e = ledger[j]
            BY <4>2 DEF Candidates, Rest
          <5>2. e.before = ledger[k + 1].before
            BY <4>1, <4>2 DEF Candidates
          <5>3. j \in DOMAIN ledger /\ k + 1 \in DOMAIN ledger
            BY <2>2, <3>1, <3>3, <5>1
          <5>4. QED
            BY <2>1, <5>1, <5>2, <5>3
        <4>3. QED
          BY <4>1, <4>2
      <3>6. Cardinality(Candidates(Rest(k), BalanceAt(k))) = 1
        BY <3>5, FS_Singleton
      <3>7. Follow(w).ok
        BY <1>1, <3>1, <3>3, <3>4, <3>6, RoundFollowsChain
      <3>8. QED
        BY <1>1, <3>2, <3>3, <3>7, WalkRounds
    <2> HIDE DEF S
    <2>5. S \subseteq Nat
      BY DEF S
    <2>6. S = Nat
      BY <2>3, <2>4, <2>5, InductiveSet
    <2>7. Walk[Len(ledger)].ok
      BY <2>2, <2>6 DEF S
    <2>8. QED
      BY <1>1, <2>7, RoundsAreEntries DEF Reconstruct
  <1>2. QED
    BY <1>1, LedgerInvariant, PTL

-----------------------------------------------------------------------------
(* Reconciliation.                                                         *)

Reports ==
    [stored : Balances, calculated : Balances \cup {None}, difference : Int \cup {None},
     consistent : BOOLEAN, checked : Nat, read : Nat \X Nat]

AuditTyped ==
    /\ step \in [Auditors -> {"view", "wallet", "ledger", "count", "done"}]
    /\ view \in [Auditors -> Balances] /\ stored \in [Auditors -> Balances]
    /\ calculated \in [Auditors -> Balances \cup {None}]
    /\ readAt \in [Auditors -> Nat \X Nat]
    /\ report \in [Auditors -> Reports \cup {None}]

(* A report without error gives the balances of the two reads.             *)
Explained(r) ==
    /\ r.read[1] \in 0 .. Len(ledger) /\ r.read[2] \in 0 .. Len(ledger)
    /\ r.difference = BalanceAt(r.read[1]) - BalanceAt(r.read[2])
    /\ r.consistent <=> r.difference = 0
    /\ r.checked >= r.read[2]

(* What an auditor holds between two of its statements: the balances that  *)
(* the ledger had when it read them, however far the ledger has gone.      *)
Holds(a) ==
    /\ step[a] \in {"ledger", "count"} =>
         /\ readAt[a][1] \in 0 .. Len(ledger) /\ readAt[a][2] \in 0 .. Len(ledger)
         /\ stored[a] = BalanceAt(readAt[a][1])
    /\ step[a] = "count" /\ calculated[a] # None => calculated[a] = BalanceAt(readAt[a][2])
    /\ report[a] # None /\ report[a].calculated # None => Explained(report[a])

AuditInv == AuditTyped /\ \A a \in Auditors : Holds(a)

(* The balances of the past do not change.                                 *)
LEMMA PastIsKept ==
    ASSUME LedgerInv, UNCHANGED ledger \/ \E e : Moves(e)
    PROVE  /\ Len(ledger) \in Nat /\ Len(ledger') \in Nat /\ Len(ledger) <= Len(ledger')
           /\ \A k \in 0 .. Len(ledger) : k \in 0 .. Len(ledger') /\ BalanceAt(k)' = BalanceAt(k)
  <1>1. CASE UNCHANGED ledger
    BY <1>1, RowsAreListable DEF BalanceAt
  <1>2. ASSUME NEW e, Moves(e)
        PROVE  /\ Len(ledger) \in Nat /\ Len(ledger') \in Nat /\ Len(ledger) <= Len(ledger')
               /\ \A k \in 0 .. Len(ledger) : k \in 0 .. Len(ledger') /\ BalanceAt(k)' = BalanceAt(k)
    <2>1. LedgerTyped
      BY DEF LedgerInv
    <2>2. /\ Len(ledger) \in Nat /\ Len(ledger') = Len(ledger) + 1
          /\ \A k \in 0 .. Len(ledger) : BalanceAt(k)' = BalanceAt(k)
      BY <1>2, <2>1, MoveAppends
    <2>3. QED
      BY <2>2
  <1>3. QED
    BY <1>1, <1>2

(* Neither a movement nor the step of another request disturbs an auditor. *)
LEMMA OtherStepsKeepAudit ==
    ASSUME LedgerInv, UNCHANGED ledger \/ \E e : Moves(e), NEW a, Holds(a), AuditTyped,
           a \in Auditors,
           step'[a] = step[a], stored'[a] = stored[a], calculated'[a] = calculated[a],
           readAt'[a] = readAt[a], report'[a] = report[a]
    PROVE  Holds(a)'
  <1>1. /\ Len(ledger) \in Nat /\ Len(ledger') \in Nat /\ Len(ledger) <= Len(ledger')
        /\ \A k \in 0 .. Len(ledger) : k \in 0 .. Len(ledger') /\ BalanceAt(k)' = BalanceAt(k)
    BY PastIsKept
  <1>2. ASSUME NEW r, Explained(r) PROVE Explained(r)'
    BY <1>1, <1>2 DEF Explained
  <1>3. QED
    BY <1>1, <1>2 DEF Holds

LEMMA AuditInvariant == Spec => []AuditInv
  <1>1. Init => AuditInv
    <2>1. SUFFICES ASSUME Init PROVE AuditInv
      OBVIOUS
    <2>2. 0 \in Balances /\ <<0, 0>> \in Nat \X Nat
      BY BoundsAssumption DEF Balances
    <2>3. AuditTyped
      BY <2>1, <2>2 DEF Init, AuditTyped
    <2>4. \A a \in Auditors : step[a] = "view" /\ report[a] = None
      BY <2>1 DEF Init
    <2>5. QED
      BY <2>3, <2>4 DEF AuditInv, Holds
  <1>2. LedgerInv /\ AuditInv /\ [Next]_vars => AuditInv'
    <2>1. SUFFICES ASSUME LedgerInv, AuditInv, [Next]_vars PROVE AuditInv'
      OBVIOUS
    <2>2. AuditTyped /\ wallet \in Balances /\ wallet = BalanceAt(Len(ledger))
      BY <2>1 DEF AuditInv, LedgerInv, LedgerTyped, Chained
    <2>3. UNCHANGED ledger \/ \E e : Moves(e)
      BY <2>1, ServiceSteps DEF LedgerInv
    <2>4. Len(ledger) \in Nat /\ Len(ledger) \in 0 .. Len(ledger)
      BY <2>1, RowsAreListable
    <2>5. ASSUME NEW a \in Auditors,
                 step'[a] = step[a], stored'[a] = stored[a], calculated'[a] = calculated[a],
                 readAt'[a] = readAt[a], report'[a] = report[a]
          PROVE  Holds(a)'
      <3>1. Holds(a)
        BY <2>1 DEF AuditInv
      <3>2. QED
        BY <2>1, <2>2, <2>3, <2>5, <3>1, OtherStepsKeepAudit
    <2>6. CASE UNCHANGED auditing
      <3>1. /\ step' = step /\ view' = view /\ stored' = stored /\ calculated' = calculated
            /\ readAt' = readAt /\ report' = report
        BY <2>6 DEF auditing
      <3>2. AuditTyped'
        BY <2>2, <3>1 DEF AuditTyped
      <3>3. QED
        BY <2>5, <3>1, <3>2 DEF AuditInv
    <2>7. ASSUME NEW b \in Auditors, ReadView(b) PROVE AuditInv'
      <3>1. /\ view' = [view EXCEPT ![b] = wallet] /\ step' = [step EXCEPT ![b] = "wallet"]
            /\ step[b] = "view"
            /\ UNCHANGED <<wallet, ledger, stored, calculated, readAt, report>>
        BY <2>7 DEF ReadView, Goto, writing
      <3>2. AuditTyped'
        BY <2>2, <3>1 DEF AuditTyped
      <3>3. ASSUME NEW a \in Auditors PROVE Holds(a)'
        <4>1. CASE a # b
          BY <2>2, <2>5, <3>1, <4>1 DEF AuditTyped
        <4>2. CASE a = b
          <5>1. step'[a] = "wallet" /\ Holds(a)
            BY <2>1, <2>2, <3>1, <4>2 DEF AuditTyped, AuditInv
          <5>2. QED
            BY <3>1, <5>1 DEF Holds, Explained, BalanceAt
        <4>3. QED
          BY <4>1, <4>2
      <3>4. QED
        BY <3>2, <3>3 DEF AuditInv
    <2>8. ASSUME NEW b \in Auditors, ReadWallet(b) PROVE AuditInv'
      <3>1. PICK n : n = Len(ledger)
        OBVIOUS
      <3>2. /\ stored' = [stored EXCEPT ![b] = wallet] /\ step' = [step EXCEPT ![b] = "ledger"]
            /\ readAt' = [readAt EXCEPT ![b] = <<n, n>>]
            /\ UNCHANGED <<wallet, ledger, view, calculated, report>>
        BY <2>8, <3>1 DEF ReadWallet, Goto, writing
      <3>3. n \in Nat /\ n \in 0 .. Len(ledger) /\ <<n, n>> \in Nat \X Nat /\ wallet = BalanceAt(n)
        BY <2>2, <2>4, <3>1
      <3>4. AuditTyped'
        BY <2>2, <3>2, <3>3 DEF AuditTyped
      <3>5. ASSUME NEW a \in Auditors PROVE Holds(a)'
        <4>1. CASE a # b
          BY <2>2, <2>5, <3>2, <4>1 DEF AuditTyped
        <4>2. CASE a = b
          <5>1. /\ step'[a] = "ledger" /\ stored'[a] = wallet /\ Holds(a)
                /\ readAt'[a] = <<n, n>>
            BY <2>1, <2>2, <3>2, <4>2 DEF AuditTyped, AuditInv
          <5>2. readAt'[a][1] = n /\ readAt'[a][2] = n
            BY <5>1
          <5>3. QED
            BY <3>2, <3>3, <5>1, <5>2 DEF Holds, Explained, BalanceAt
        <4>3. QED
          BY <4>1, <4>2
      <3>6. QED
        BY <3>4, <3>5 DEF AuditInv
    <2>9. ASSUME NEW b \in Auditors, ReadLedger(b) PROVE AuditInv'
      <3>1. PICK n, c : n = Len(ledger) /\ c = IF Reconstruct.ok THEN Reconstruct.balance ELSE None
        OBVIOUS
      <3>2. /\ calculated' = [calculated EXCEPT ![b] = c] /\ step' = [step EXCEPT ![b] = "count"]
            /\ readAt' = [readAt EXCEPT ![b][2] = n]
            /\ step[b] = "ledger"
            /\ UNCHANGED <<wallet, ledger, view, stored, report>>
        BY <2>9, <3>1 DEF ReadLedger, Goto, writing
      <3>3. n \in Nat /\ n \in 0 .. Len(ledger) /\ wallet = BalanceAt(n)
        BY <2>2, <2>4, <3>1
      <3>4. c = None \/ c = wallet
        BY <2>1, <3>1, ReconstructAnswersWallet DEF ReconstructIsSound
      <3>5. PICK m : m = readAt[b][1]
        OBVIOUS
      <3>6. m \in Nat /\ readAt' = [readAt EXCEPT ![b] = <<m, n>>] /\ <<m, n>> \in Nat \X Nat
        <4>1. readAt[b] \in Nat \X Nat
          BY <2>2 DEF AuditTyped
        <4>2. [readAt[b] EXCEPT ![2] = n] = <<m, n>> /\ m \in Nat
          BY <3>3, <3>5, <4>1
        <4>3. QED
          BY <3>2, <3>3, <4>2
      <3>7. AuditTyped'
        <4>1. c \in Balances \cup {None}
          BY <2>2, <3>4
        <4>2. calculated' \in [Auditors -> Balances \cup {None}]
          BY <2>2, <3>2, <4>1 DEF AuditTyped
        <4>3. readAt' \in [Auditors -> Nat \X Nat]
          BY <2>2, <3>6 DEF AuditTyped
        <4>4. QED
          BY <2>2, <3>2, <4>2, <4>3 DEF AuditTyped
      <3>8. ASSUME NEW a \in Auditors PROVE Holds(a)'
        <4>1. CASE a # b
          BY <2>2, <2>5, <3>2, <3>6, <4>1 DEF AuditTyped
        <4>2. CASE a = b
          <5>1. /\ step'[a] = "count" /\ calculated'[a] = c /\ Holds(a)
                /\ readAt'[a] = <<m, n>> /\ step[a] = "ledger"
            BY <2>1, <2>2, <3>2, <3>6, <4>2 DEF AuditTyped, AuditInv
          <5>2. readAt'[a][1] = m /\ readAt'[a][2] = n
            BY <5>1
          <5>3. m \in 0 .. Len(ledger) /\ stored[a] = BalanceAt(m)
            BY <3>5, <4>2, <5>1 DEF Holds
          <5>4. QED
            BY <3>2, <3>3, <3>4, <5>1, <5>2, <5>3 DEF Holds, Explained, BalanceAt
        <4>3. QED
          BY <4>1, <4>2
      <3>9. QED
        BY <3>7, <3>8 DEF AuditInv
    <2>10. ASSUME NEW b \in Auditors, Answer(b) PROVE AuditInv'
      <3>1. PICK r : r = [stored |-> IF calculated[b] = None THEN view[b] ELSE stored[b],
                          calculated |-> calculated[b],
                          difference |-> IF calculated[b] = None THEN None
                                         ELSE stored[b] - calculated[b],
                          consistent |-> calculated[b] = stored[b],
                          checked |-> Len(ledger),
                          read |-> readAt[b]]
        OBVIOUS
      <3>2. /\ report' = [report EXCEPT ![b] = r] /\ step' = [step EXCEPT ![b] = "done"]
            /\ view' = [view EXCEPT ![b] = 0] /\ stored' = [stored EXCEPT ![b] = 0]
            /\ calculated' = [calculated EXCEPT ![b] = None]
            /\ readAt' = [readAt EXCEPT ![b] = <<0, 0>>]
            /\ step[b] = "count" /\ UNCHANGED <<wallet, ledger>>
        BY <2>10, <3>1 DEF Answer, Goto, LedgerEntryCount, writing
      <3>3. /\ view[b] \in Balances /\ stored[b] \in Balances /\ readAt[b] \in Nat \X Nat
            /\ calculated[b] \in Balances \cup {None} /\ 0 \in Balances
            /\ Balances \subseteq Int /\ <<0, 0>> \in Nat \X Nat
        BY <2>2, BoundsAssumption DEF AuditTyped, Balances
      <3>4. r \in Reports
        <4>1. (IF calculated[b] = None THEN view[b] ELSE stored[b]) \in Balances
          BY <3>3
        <4>2. (IF calculated[b] = None THEN None ELSE stored[b] - calculated[b]) \in Int \cup {None}
          <5>1. CASE calculated[b] = None
            BY <5>1
          <5>2. CASE calculated[b] # None
            <6>1. stored[b] \in Int /\ calculated[b] \in Int
              BY <3>3, <5>2
            <6>2. stored[b] - calculated[b] \in Int
              BY <6>1
            <6>3. QED
              BY <5>2, <6>2
          <5>3. QED
            BY <5>1, <5>2
        <4>3. QED
          BY <2>4, <3>1, <3>3, <4>1, <4>2 DEF Reports
      <3>5. AuditTyped'
        BY <2>2, <3>2, <3>3, <3>4 DEF AuditTyped
      <3>6. ASSUME r.calculated # None PROVE Explained(r)
        <4>1. /\ calculated[b] # None /\ r.difference = stored[b] - calculated[b]
              /\ (r.consistent <=> calculated[b] = stored[b]) /\ r.checked = Len(ledger)
              /\ r.read = readAt[b]
          BY <3>1, <3>6
        <4>2. /\ readAt[b][1] \in 0 .. Len(ledger) /\ readAt[b][2] \in 0 .. Len(ledger)
              /\ stored[b] = BalanceAt(readAt[b][1]) /\ calculated[b] = BalanceAt(readAt[b][2])
          BY <2>1, <3>2, <4>1 DEF AuditInv, Holds
        <4>3. stored[b] \in Int /\ calculated[b] \in Int
          BY <3>3, <4>1
        <4>4. r.consistent <=> r.difference = 0
          <5>1. calculated[b] = stored[b] <=> stored[b] - calculated[b] = 0
            BY <4>3
          <5>2. QED
            BY <4>1, <5>1
        <4>5. r.checked >= r.read[2]
          BY <2>4, <4>1, <4>2
        <4>6. QED
          BY <4>1, <4>2, <4>4, <4>5 DEF Explained
      <3>7. ASSUME NEW a \in Auditors PROVE Holds(a)'
        <4>1. CASE a # b
          BY <2>2, <2>5, <3>2, <4>1 DEF AuditTyped
        <4>2. CASE a = b
          <5>1. step'[a] = "done" /\ report'[a] = r /\ ledger' = ledger
            BY <2>2, <3>2, <4>2 DEF AuditTyped
          <5>2. QED
            BY <3>6, <5>1 DEF Holds, Explained, BalanceAt
        <4>3. QED
          BY <4>1, <4>2
      <3>8. QED
        BY <3>5, <3>7 DEF AuditInv
    <2>11. QED
      BY <2>1, <2>6, <2>7, <2>8, <2>9, <2>10 DEF Next, Tick, BeginRequest, CommitMovement,
         ListPage, vars
  <1>3. QED
    BY <1>1, <1>2, LedgerInvariant, PTL DEF Spec

(* A reconciliation that answers with a calculated balance reports exactly *)
(* what was committed between its read of the wallet and its read of the   *)
(* ledger: a quiet wallet is never reported as divergent, and a drift of   *)
(* the stored balance would not be hidden.                                 *)
THEOREM DivergenceHasACause == Spec => []DivergenceIsExplained
  <1>1. AuditInv => DivergenceIsExplained
    BY DEF AuditInv, Holds, Explained, DivergenceIsExplained
  <1>2. QED
    BY <1>1, AuditInvariant, PTL
=============================================================================
