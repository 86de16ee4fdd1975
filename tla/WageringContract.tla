-------------------------- MODULE WageringContract --------------------------
(***************************************************************************)
(* What the financial service promises its clients, as a sequential        *)
(* ledger: every request takes effect at once, on the balance and the      *)
(* transactions of that moment.  There are no sessions, locks, retries,    *)
(* messages or crashes here; FinancialService implements this module       *)
(* (ImplementsContract), so none of them can be seen from outside.         *)
(***************************************************************************)
EXTENDS WagerDomain

CONSTANTS
    Wallets,
    Transactions,   \* transaction UUIDs
    Commands,       \* requests clients may send
    OpenRequests,   \* [wallet, player, currency, amount]
    OpeningOf,      \* per open request: the command of its opening transaction
    None

VARIABLES
    accounts,   \* per wallet: owner, currency and balance
    book,       \* per transaction: its command, state and result
    answers,    \* results given to clients
    refusals    \* commands refused as conflicting

vars == <<accounts, book, answers, refusals>>

Entered == {i \in Transactions : book[i] # None}

(* The transaction a provider calls ext, if any.                           *)
Named(prov, ext) ==
    {i \in Entered : book[i].cmd.prov = prov /\ book[i].cmd.ext = ext}

(* A provider uses a key and an external id once.                          *)
Used(c) ==
    \E i \in Entered :
        /\ book[i].cmd.prov = c.prov
        /\ book[i].cmd.key = c.key \/ book[i].cmd.ext = c.ext

(* A transaction is the reference of one successful transaction.           *)
Spent(c) ==
    /\ c.ref # NoReference
    /\ \E i \in Entered : /\ book[i].state = "PROCESSED"
                          /\ book[i].cmd.prov = c.prov /\ book[i].cmd.ref = c.ref

Owner(c) == c.player = accounts[c.wallet].player

Reversible(c) == \E i \in Named(c.prov, c.ref) : ValidReference(c, book[i])

(* What the command would do to the balance.                               *)
Direction(c) ==
    IF c.type \in Reversals
    THEN DirectionOf(c.type, book[CHOOSE i \in Named(c.prov, c.ref) : TRUE].cmd.type)
    ELSE DirectionOf(c.type, "")

Covered(c) ==
    CASE Direction(c) = "DEBIT"  -> CanDebit(accounts[c.wallet].balance, c.amount)
      [] Direction(c) = "CREDIT" -> CanCredit(accounts[c.wallet].balance, c.amount)
      [] OTHER -> TRUE

Allowed(c) == Owner(c) /\ (c.type \in Reversals => Reversible(c))

(* Why a command cannot take effect now.                                   *)
Reasons(c) ==
    {code \in FailureCodes :
        \/ code = "PLAYER_WALLET_MISMATCH" /\ ~Owner(c)
        \/ /\ code = "REFERENCE_REQUIRED"
           /\ c.type \in Reversals /\ c.ref = NoReference
        \/ /\ code = "REFERENCE_INVALID"
           /\ c.type \in Reversals /\ Named(c.prov, c.ref) # {} /\ ~Reversible(c)
        \/ /\ code = IF c.type = "BET" THEN "INSUFFICIENT_BALANCE"
                                       ELSE "REVERSAL_INSUFFICIENT_BALANCE"
           /\ Allowed(c) /\ ~Covered(c)}

(* Why the service may give up on a reversal that waits for its reference. *)
GivesUp(c) ==
    {code \in FailureCodes :
        \/ code = "REFERENCE_NOT_FOUND" /\ Named(c.prov, c.ref) = {}
        \/ code = "REFERENCE_NOT_RESOLVED" /\ Named(c.prov, c.ref) # {}
        \/ /\ code = "REFERENCE_NOT_SUCCESSFUL"
           /\ \E i \in Named(c.prov, c.ref) : book[i].state = "REJECTED"}

-----------------------------------------------------------------------------
(* Transaction i of command c is in this state, and the client may be told *)
(* so at once.                                                             *)
Enter(i, c, state, balance, code) ==
    LET result == [tx |-> i, state |-> state, balance |-> balance, code |-> code] IN
    /\ book' = [book EXCEPT ![i] = [cmd |-> c, state |-> state, result |-> result]]
    /\ answers' \in {answers, answers \cup {[cmd |-> c, result |-> result]}}
    /\ UNCHANGED refusals

(* The command takes effect on the current balance.                        *)
Process(i, c) ==
    LET account == accounts[c.wallet]
        balance == IF Direction(c) \in Directions
                   THEN Moved(account.balance, Direction(c), c.amount)
                   ELSE account.balance
    IN  /\ Allowed(c) /\ Covered(c) /\ ~Spent(c)
        /\ accounts' = [accounts EXCEPT ![c.wallet].balance = balance]
        /\ Enter(i, c, "PROCESSED", balance, NoCode)

(* The command is recorded and leaves the balance alone.                   *)
Record(i, c, state, code) ==
    /\ Enter(i, c, state, accounts[c.wallet].balance, code)
    /\ UNCHANGED accounts

-----------------------------------------------------------------------------
Init ==
    /\ accounts = [w \in Wallets |-> None]
    /\ book = [i \in Transactions |-> None]
    /\ answers = {} /\ refusals = {}

(* A wallet opens, with a transaction for its opening balance.             *)
Open(o, i) ==
    /\ accounts[o.wallet] = None
    /\ accounts' = [accounts EXCEPT ![o.wallet] =
         [player |-> o.player, currency |-> o.currency, balance |-> o.amount]]
    /\ \/ o.amount = 0 /\ UNCHANGED book
       \/ /\ o.amount > 0 /\ book[i] = None
          /\ book' = [book EXCEPT ![i] =
               [cmd |-> OpeningOf[o], state |-> "PROCESSED",
                result |-> [tx |-> i, state |-> "PROCESSED",
                            balance |-> o.amount, code |-> NoCode]]]
    /\ UNCHANGED <<answers, refusals>>

(* A request is accepted: it takes effect, is rejected for a reason, or    *)
(* waits for a reference its wallet does not have yet.                     *)
Accept(i, c) ==
    /\ book[i] = None /\ ~Used(c)
    /\ accounts[c.wallet] # None /\ accounts[c.wallet].currency = c.currency
    /\ ValidTransaction(c.type, c.amount)
    /\ \/ Process(i, c)
       \/ \E code \in Reasons(c) : Record(i, c, "REJECTED", code)
       \/ /\ c.type \in Reversals /\ c.ref # NoReference /\ Owner(c)
          /\ \A j \in Named(c.prov, c.ref) : book[j].cmd.wallet # c.wallet
          /\ Record(i, c, "PENDING_REFERENCE", NoCode)

(* A pending reversal takes effect or is rejected.                         *)
Settle(i) ==
    /\ i \in Entered /\ book[i].state = "PENDING_REFERENCE"
    /\ LET c == book[i].cmd
       IN  \/ Process(i, c)
           \/ \E code \in Reasons(c) \cup GivesUp(c) : Record(i, c, "REJECTED", code)

(* A client repeats a request and is given the recorded result.            *)
Answer(i) ==
    /\ i \in Entered
    /\ answers' = answers \cup {[cmd |-> book[i].cmd, result |-> book[i].result]}
    /\ UNCHANGED <<accounts, book, refusals>>

(* A request is refused only when another one has used its key, its        *)
(* external id or its reference.                                           *)
Refuse(c) ==
    /\ \A i \in Entered : book[i].cmd # c
    /\ Used(c) \/ Spent(c)
    /\ refusals' = refusals \cup {c}
    /\ UNCHANGED <<accounts, book, answers>>

(* A step is visible; the service works between two of them.               *)
Next ==
    /\ vars' # vars
    /\ \/ \E o \in OpenRequests, i \in Transactions : Open(o, i)
       \/ \E i \in Transactions, c \in Commands : Accept(i, c)
       \/ \E i \in Transactions : Settle(i) \/ Answer(i)
       \/ \E c \in Commands : Refuse(c)

Spec == Init /\ [][Next]_vars
=============================================================================
