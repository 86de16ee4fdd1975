------------------------- MODULE MCFinancialService -------------------------
(* Small instances of FinancialService.                                    *)
EXTENDS FinancialService, TLC

Request(ext, key, w, type, amount, ref) ==
    [prov |-> "p", ext |-> ext, key |-> key, wallet |-> w, player |-> "ana",
     round |-> "r", type |-> type, amount |-> amount, currency |-> "BRL",
     ref |-> ref]

MCIdentifiers ==
    {"p", "ana", "bia", "r", "BRL", "USD", "b1", "b2", "l1", "f1", "f2", "k1", "k2",
     "k3", "k4", "internal", "opening", "o-w1", "o-w2"}

MCWallets == {"w1", "w2"}

MCOpeningExternalID == [w \in MCWallets |-> IF w = "w1" THEN "o-w1" ELSE "o-w2"]

Opened(w, player, amount) ==
    [wallet |-> w, player |-> player, currency |-> "BRL", amount |-> amount]

(* One funded wallet; the second opens empty.                              *)
OneWallet == {Opened("w1", "ana", 3)}
TwoWallets == {Opened("w1", "ana", 3), Opened("w2", "bia", 0)}

Bet1 == Request("b1", "k1", "w1", "BET", 2, NoReference)
Bet2 == Request("b2", "k2", "w1", "BET", 2, NoReference)

(* Contention: two bets the wallet cannot both pay, requests that share    *)
(* the key or the external id of the first on a wallet with other locks,   *)
(* and a message id sent with two payloads.                                *)
KeyTwin == [Request("b2", "k1", "w2", "WIN", 1, NoReference) EXCEPT !.player = "bia"]
ExternalTwin == [Request("b1", "k2", "w2", "WIN", 1, NoReference) EXCEPT !.player = "bia"]
ContentionCommands == {Bet1, Bet2, KeyTwin, ExternalTwin}
ContentionMessages == {[id |-> "m1", cmd |-> Bet1], [id |-> "m1", cmd |-> KeyTwin]}

(* References: a bet and two reversals of it, in any order of arrival.     *)
Refund1 == Request("f1", "k3", "w1", "REFUND", 2, "b1")
Rollback1 == Request("f2", "k4", "w1", "ROLLBACK", 2, "b1")
ReferenceCommands == {Bet1, Refund1, Rollback1}

(* Rules: requests for the ways processInTx can end.  The second bet finds *)
(* too little balance, which also leaves a reference that was rejected.    *)
Loss1 == Request("l1", "k2", "w1", "LOSS", 0, NoReference)
WinTooMuch == Request("f2", "k4", "w1", "WIN", 4, NoReference)
ZeroBet == Request("b2", "k2", "w1", "BET", 0, NoReference)
WrongPlayer == [Bet2 EXCEPT !.player = "bia"]
WrongCurrency == [Bet2 EXCEPT !.currency = "USD"]
NoRef == Request("f1", "k3", "w1", "REFUND", 2, NoReference)
OtherAmount == Request("f1", "k3", "w1", "REFUND", 1, "b1")
RuleCommands ==
    {Bet1, Bet2, Loss1, WinTooMuch, ZeroBet, WrongPlayer, WrongCurrency, NoRef,
     OtherAmount, Refund1, Rollback1}

(* Chain: a bet, its refund and the rollback of that refund; every         *)
(* reference is named once.                                                *)
RollbackRefund == Request("f2", "k4", "w1", "ROLLBACK", 2, "f1")
ChainCommands == {Bet1, Refund1, RollbackRefund}

(* A win that names the bet it pays, and the refund of that bet.           *)
WinOnBet == Request("b2", "k2", "w1", "WIN", 1, "b1")
WinCommands == {Bet1, WinOnBet, Refund1}

Symmetry == Permutations(HTTPSessions) \cup Permutations(ConsumerSessions)
=============================================================================
