------------------------------- MODULE MCLedger -------------------------------
(* Constants of Ledger for TLC: the four accounts that prisma/seed.ts makes   *)
(* for one buyer and one seller, and each entry list the services pass.       *)
EXTENDS LedgerProperties, TLC

CONSTANT tx

Escrow == 1
PlatformFee == 2
Buyer == 3
Seller == 4

MCAccounts == {Buyer, Escrow, PlatformFee, Seller}
MCAllowNegative == {Buyer, Seller}
MCTransactions == {tx}

(* webhook.service.ts:68, ledger.service.ts:253 and 334, dispute.service.ts:186 *)
SettlePayment == [debit |-> Buyer :> 2, credit |-> Escrow :> 2]
ReleasePayout == [debit |-> Escrow :> 2,
                  credit |-> PlatformFee :> 1 @@ Seller :> 1]
ReversePayout == [debit |-> Seller :> 1 @@ PlatformFee :> 1,
                  credit |-> Escrow :> 2]
RefundBuyer   == [debit |-> Escrow :> 2, credit |-> Buyer :> 2]

(* Calls the code has to refuse. *)
Unbalanced     == [debit |-> Buyer :> 1, credit |-> Escrow :> 2]
UnknownSeller  == [debit |-> Escrow :> 1, credit |-> 9 :> 1]
UnknownEscrow  == [debit |-> 9 :> 1, credit |-> Buyer :> 1]

Payments  == {SettlePayment, ReleasePayout, ReversePayout, RefundBuyer}
MCPostings == Payments \cup {Unbalanced, UnknownSeller, UnknownEscrow}
MCSettlement == tx :> SettlePayment


===============================================================================
