--------------------------- MODULE PayoutProperties ---------------------------
(***************************************************************************)
(* What the payout handlers guarantee to each other, to the ledger and to  *)
(* Stripe, and what the documents promise and they do not.                 *)
(***************************************************************************)
EXTENDS Payout

Statements == {"idle", "insert", "gate", "grant", "reset", "read", "claim", "funds",
               "transfer", "persist", "post", "paid", "pull", "unpost", "reversed"}

Job == [at : Statements, payout : Payouts \cup {0}, txn : Transactions,
        status : Statuses, attempt : Nat, transfer : Nat, review : BOOLEAN]

TypeOK ==
    /\ row \in [Payouts -> Row]
    /\ blocked \in BOOLEAN
    /\ balance \in [Accounts -> Int]
    /\ released \in [Payouts -> Nat] /\ undone \in [Payouts -> Nat]
    /\ stripe \subseteq (Payouts \X Nat) \X {"moved", "refused"}
    /\ pulled \subseteq Payouts
    /\ job \in [Workers -> Job]
    /\ calls \in 0 .. MaxCalls

-------------------------------------------------------------------------------
(* w has claimed p and has not yet written its outcome. *)
Owns(w, p) ==
    /\ job[w].payout = p
    /\ job[w].at \in {"funds", "transfer", "persist", "post", "paid"}

(* payout.service.ts:232-247: the claim admits one handler at a time, and no  *)
(* other handler takes a claimed payout out of PROCESSING behind its back.    *)
ClaimIsExclusive ==
    \A w \in Workers, p \in Payouts : Owns(w, p) =>
        row[p].status = "PROCESSING" /\ \A v \in Workers \ {w} : ~Owns(v, p)

(* The ledger holds the release of a payout exactly if its status says that   *)
(* it was paid; while it is being processed, at most one.  No retry after a   *)
(* failure, concurrent call or crash ever releases the money twice.           *)
BooksMatchStatus ==
    \A p \in Payouts :
        released[p] \in CASE row[p].status \in {"PAID", "REVERSED"} -> {1}
                          [] row[p].status = "PROCESSING"           -> {0, 1}
                          [] OTHER                                  -> {0}

(* The books never show a payment that Stripe was not told to make: money is  *)
(* released, and a payout reported PAID, only after the transfer it names.    *)
TransferBeforeBooks ==
    \A p \in Payouts : released[p] > 0 =>
        row[p].transfer > 0 /\ <<<<p, row[p].transfer>>, "moved">> \in stripe

(* payout-state-machine.ts:4: whatever runs concurrently, the status of a row *)
(* moves along VALID_TRANSITIONS only.                                        *)
LegalTransitions ==
    [][\A p \in Payouts : row'[p].status # row[p].status =>
         \/ <<row[p].status, row'[p].status>> \in ValidTransitions
         \/ row[p].status = "NONE" /\ row'[p].status = "PENDING"]_payoutVars

(* A transaction has one payout under way at most: also when the checks of    *)
(* two createPayout calls overlap, or a FAILED payout is retried next to its  *)
(* successor.                                                                 *)
OneActivePayout ==
    \A t \in Transactions :
        Cardinality({p \in Payouts : row[p].txn = t /\ row[p].status \in Active}) <= 1

(* A payout stays in PROCESSING only if the handler that claimed it died.     *)
ClaimsResolve ==
    \A p \in Payouts :
        row[p].status = "PROCESSING" ~>
            row[p].status # "PROCESSING" \/ \A w \in Workers : ~Owns(w, p)

-------------------------------------------------------------------------------
Moved(p) == {seen \in stripe : seen[1][1] = p /\ seen[2] = "moved"}
AtRest(p) == \A w \in Workers : job[w].payout # p

(* payout.service.ts:250, "Idempotency key = payout ID + attempt so retries   *)
(* hit the same Stripe transfer": a payout is sent to the seller once.        *)
TransferredOnce == \A p \in Payouts : Cardinality(Moved(p)) <= 1

(* reconciliation.service.ts:167-255: what reconcilePayouts reports. *)
Reported(p) ==
    \/ row[p].status = "PAID" /\ (row[p].transfer = 0 \/ p \in pulled)
    \/ row[p].status = "FAILED" /\ row[p].transfer > 0

(* payout.service.ts:290-292, "reconciliation can detect the orphaned         *)
(* transfer via the stripeTransferId on a FAILED payout record".              *)
OrphansDetectable ==
    \A p \in Payouts :
        AtRest(p) /\ Moved(p) # {} /\ released[p] = 0 => Reported(p)
===============================================================================
