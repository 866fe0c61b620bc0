-------------------------- MODULE DisputeProperties --------------------------
(***************************************************************************)
(* What holds between disputes, payouts, the ledger and Stripe, and what   *)
(* the documents promise of a dispute and the handlers do not keep.        *)
(***************************************************************************)
EXTENDS Dispute, PayoutProperties

Desk == [at : {"free", "create", "freeze", "look", "thaw", "find", "reverse",
               "reversing", "balance", "block", "refund", "write"},
         dispute : Disputes \cup {0}, txn : Transactions, payout : Payouts \cup {0},
         status : Statuses, verdict : DisputeStatuses]

DisputeTypeOK ==
    /\ TypeOK
    /\ dispute \in [Disputes -> [status : DisputeStatuses, txn : Transactions,
                                 payout : Payouts \cup {0}]]
    /\ refunds \in [Disputes -> Nat]
    /\ desk \in [Agents -> Desk]

(* dispute.service.ts:130-133 and 164-168: once a handler has found a payout  *)
(* PAID, it refunds the buyer, and writes its verdict, only after the seller's *)
(* money has come back at Stripe and in the books: a reversal that throws      *)
(* stops it, whatever other handlers do to the payout meanwhile.               *)
VerdictNeedsReversal ==
    \A a \in Agents :
        /\ desk[a].at \in {"refund", "write"}
        /\ desk[a].verdict \in {"LOST", "REFUNDED"} /\ desk[a].payout # 0
        => desk[a].payout \in pulled /\ undone[desk[a].payout] > 0

(* payout.service.ts:411-439: the books give back only what Stripe has pulled *)
(* back, and a payout shown REVERSED is given back in the books, whoever asks *)
(* for reversals and how often.                                               *)
ReversalBacked ==
    \A p \in Payouts :
        /\ undone[p] > 0 => p \in pulled
        /\ row[p].status = "REVERSED" => undone[p] > 0

(* A dispute handler reaches its last statement, throws or dies: none waits   *)
(* for another one, nor for a payout handler.                                 *)
HandlersEnd == \A a \in Agents : ~On(a, "free") ~> On(a, "free")

-------------------------------------------------------------------------------
(* payout-state-machine.spec.ts:35, "PAID -> PENDING" is invalid, and          *)
(* README.md:91, "every status update goes through the validator": a payout   *)
(* that is PAID leaves this status only to be REVERSED.                       *)
PaidOnlyReversed ==
    [][\A p \in Payouts : row[p].status = "PAID" =>
          row'[p].status \in {"PAID", "REVERSED"}]_vars
===============================================================================
