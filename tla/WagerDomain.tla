----------------------------- MODULE WagerDomain -----------------------------
(***************************************************************************)
(* The rules of the domain packages internal/domain/{money,wallet,wager,   *)
(* ledger} and of the pure helpers of application/financial/service.go:    *)
(* exact money in minor units held in an int64, the wagering operations    *)
(* and which way each of them moves the wallet, the transaction state      *)
(* machine, and which transaction a reversal may refer to.                 *)
(*                                                                         *)
(* A transaction request is a record with the fields of financial.Command; *)
(* "round" stands for the pair (GameID, RoundID), which the code always    *)
(* compares together.                                                      *)
(***************************************************************************)
EXTENDS Integers

CONSTANT MaxInt64     \* math.MaxInt64, a small number in the models

ASSUME MaxInt64Assumption == MaxInt64 \in Nat \ {0}

Money == 0 .. MaxInt64

ExternalTypes == {"BET", "WIN", "LOSS", "REFUND", "ROLLBACK"}

Types == ExternalTypes \cup {"OPENING"}

Reversals == {"REFUND", "ROLLBACK"}

States == {"PENDING", "PROCESSED", "REJECTED", "FAILED", "PENDING_REFERENCE"}

Directions == {"CREDIT", "DEBIT"}

FailureCodes ==
    {"INSUFFICIENT_BALANCE", "REVERSAL_INSUFFICIENT_BALANCE",
     "PLAYER_WALLET_MISMATCH", "REFERENCE_REQUIRED", "REFERENCE_INVALID",
     "REFERENCE_NOT_FOUND", "REFERENCE_NOT_RESOLVED",
     "REFERENCE_NOT_SUCCESSFUL"}

\* The empty ReferenceExternalID and the empty FailureCode.
NoReference == ""
NoCode == ""

\* The identity migrations give to rows that predate the column.
LegacyIdentity == "legacy"

-----------------------------------------------------------------------------
(* wager.New: only an external type, and LOSS is the only zero movement.   *)
ValidTransaction(type, amount) ==
    /\ type \in ExternalTypes
    /\ amount \in Money
    /\ (type = "LOSS") <=> (amount = 0)

(* Transaction.Transition.                                                 *)
Transition(from, to) ==
    \/ from = "PENDING" /\ to \in States \ {"PENDING"}
    \/ from = "PENDING_REFERENCE" /\ to \in {"PROCESSED", "REJECTED"}

(* Seeded fault: LOSS falls through to the default direction.              *)
DirectionOfLossDebits(type, refType) ==
    CASE type \in {"BET", "LOSS"} -> "DEBIT"
      [] type \in {"WIN", "REFUND"} -> "CREDIT"
      [] OTHER -> IF refType = "BET" THEN "CREDIT" ELSE "DEBIT"

(* The direction applyOperationInTx picks; LOSS moves nothing.             *)
DirectionOf(type, refType) ==
    CASE type = "BET" -> "DEBIT"
      [] type \in {"WIN", "REFUND"} -> "CREDIT"
      [] type = "ROLLBACK" -> (IF refType = "BET" THEN "CREDIT" ELSE "DEBIT")
      [] OTHER -> "NONE"

(* Seeded faults: no balance check, no overflow check.                     *)
CanDebitUnchecked(balance, amount) == TRUE

CanCreditUnchecked(balance, amount) == TRUE

(* Wallet.Debit and Wallet.Credit succeed: same currency, enough balance,  *)
(* and no int64 overflow in Money.Add.                                     *)
CanDebit(balance, amount) == amount <= balance

CanCredit(balance, amount) == balance <= MaxInt64 - amount

Moved(balance, direction, amount) ==
    IF direction = "DEBIT" THEN balance - amount ELSE balance + amount

(* validReference, on the command of the reversal and the referenced row.  *)
ValidReference(c, reference) ==
    LET r == reference.cmd
    IN  /\ reference.state = "PROCESSED"
        /\ LegacyIdentity \notin {r.player, r.round}
        /\ <<r.wallet, r.player, r.round>> = <<c.wallet, c.player, c.round>>
        /\ <<r.currency, r.amount>> = <<c.currency, c.amount>>
        /\ r.type \in (IF c.type = "REFUND" THEN {"BET"} ELSE {"BET", "WIN", "REFUND"})

(* validateCommand: the transports already reject empty fields.            *)
ValidateCommand(c) == LegacyIdentity \notin {c.player, c.round}

(* ledger.New: a positive value whose direction links the two balances.    *)
ValidEntry(e) ==
    /\ e.value > 0
    /\ e.dir \in Directions
    /\ e.before \in Money /\ e.after \in Money
    /\ e.after = Moved(e.before, e.dir, e.value)
=============================================================================
