-------------------------------- MODULE Payout --------------------------------
(***************************************************************************)
(* The payout lifecycle (src/src/payout/payout.service.ts): the handlers   *)
(* behind POST /payouts, /payouts/:id/eligible, /process, /retry and the   *)
(* admin's force-retry and reverse.  A worker runs one handler at a time;  *)
(* every awaited database statement or Stripe request that another handler *)
(* could observe is one step of it.  Nothing joins these statements in a   *)
(* database transaction, so a crash may fall between any two of them.      *)
(*                                                                         *)
(* The ledger is the abstract one: Ledger implements it, so a posting is   *)
(* one step here.  Stripe is external: it remembers the outcome of each    *)
(* idempotency key and answers a repeated key with it.                     *)
(*                                                                         *)
(* As in Ledger, an operator right before another one with the same        *)
(* parameters, named for what is wrong with it, is a mutant of it.         *)
(***************************************************************************)
EXTENDS Money, FiniteSets

CONSTANTS
    Workers,       \* handlers running concurrently
    Payouts,       \* ids of Payout rows, in the order they are handed out
    Transactions,  \* COMPLETED transactions with money in escrow
    MaxAttempts,   \* the column Payout.maxAttempts
    Amount,        \* of every payout, in minor units
    PlatformFeePercent,  \* asked of createPayout, in hundredths; 0 if not given
    Funds,         \* what settled payments have put into escrow
    Fees,          \* what the platform has earned on earlier payouts
    MaxCalls       \* bound: how many handlers are called in all

ASSUME PayoutAssumption ==
    /\ Payouts \subseteq Nat /\ Transactions # {}
    /\ MaxAttempts \in Nat /\ MaxCalls \in Nat /\ Funds \in Nat /\ Fees \in Nat
    /\ Amount \in Nat /\ PlatformFeePercent \in Int

VARIABLES
    row,       \* the Payout rows
    blocked,   \* Seller.payoutsBlocked
    balance,   \* the ledger's accounts
    released,  \* ledger postings made by releasePayout for a payout
    undone,    \* ledger postings made by reversePayout for a payout
    stripe,    \* the transfer keys Stripe has seen, each with its outcome
    pulled,    \* payouts whose transfer Stripe has reversed
    job,       \* what each worker is doing
    calls      \* handlers called so far

books == <<balance, released, undone>>
payoutVars == <<row, blocked, books, stripe, pulled, job, calls>>

-------------------------------------------------------------------------------
Statuses == {"NONE", "PENDING", "ELIGIBLE", "PROCESSING", "PAID", "FAILED", "REVERSED"}
Active   == {"PENDING", "ELIGIBLE", "PROCESSING"}

(* VALID_TRANSITIONS; "NONE" stands for a row that is not created yet. *)
ValidTransitionsFromStuck ==
    {<<"PENDING", "ELIGIBLE">>, <<"ELIGIBLE", "PROCESSING">>,
     <<"PROCESSING", "PAID">>, <<"PROCESSING", "FAILED">>, <<"PROCESSING", "PROCESSING">>,
     <<"PAID", "REVERSED">>, <<"FAILED", "PROCESSING">>}
ValidTransitions ==
    {<<"PENDING", "ELIGIBLE">>, <<"ELIGIBLE", "PROCESSING">>,
     <<"PROCESSING", "PAID">>, <<"PROCESSING", "FAILED">>,
     <<"PAID", "REVERSED">>, <<"FAILED", "PROCESSING">>}

Row == [status : Statuses, txn : Transactions, attempts : Nat,
        transfer : Nat,        \* stripeTransferId, named by its key; 0 is null
        review : BOOLEAN]      \* fraudDecision is REVIEW

NoRow == [status |-> "NONE", txn |-> CHOOSE t \in Transactions : TRUE,
          attempts |-> 0, transfer |-> 0, review |-> FALSE]

(* Where a handler is, what it works on and what it has read: the payout's   *)
(* status and transfer, and the attempt that its idempotency key names.      *)
Idle == [at |-> "idle", payout |-> 0, txn |-> NoRow.txn, status |-> "NONE",
         attempt |-> 0, transfer |-> 0, review |-> FALSE]

(* Payout_active_per_transaction, the partial unique index. *)
IndexHoldsUnchecked(rows) == TRUE
IndexHolds(rows) ==
    \A p, q \in Payouts :
        /\ p # q /\ rows[p].txn = rows[q].txn
        /\ rows[p].status \in Active
        => rows[q].status \notin Active

-------------------------------------------------------------------------------
(* What createPayout computes, and the amounts of a row that stores it. *)
Split        == CalculateFee(Amount, FeePercent(PlatformFeePercent))
Storable     == IsInteger(Split.fee) /\ IsInteger(Split.sellerAmount)
Fee          == Split.fee \div 100
SellerAmount == Split.sellerAmount \div 100

(* The ledger as the handlers see it. *)
Accounts      == {"buyer", "escrow", "platform_fee", "seller"}
AllowNegative == {"buyer", "seller"}

ReleasePosting ==
    [debit  |-> [a \in {"escrow"} |-> Amount],
     credit |-> [a \in {"seller", "platform_fee"} |->
                   IF a = "seller" THEN SellerAmount ELSE Fee]]
ReversePosting == [debit |-> ReleasePosting.credit, credit |-> ReleasePosting.debit]

(* What releasePayout and reversePayout assert of a row's amounts. *)
Accountable ==
    /\ IsMinorUnits(Split.fee) /\ IsMinorUnits(Split.sellerAmount)
    /\ Split.fee + Split.sellerAmount = 100 * Amount

Books == INSTANCE AbstractLedger WITH Postings <- {ReleasePosting, ReversePosting}

-------------------------------------------------------------------------------
Init ==
    /\ row = [p \in Payouts |-> NoRow]
    /\ blocked = FALSE
    /\ balance = [a \in Accounts |-> CASE a = "escrow"       -> Funds
                                       [] a = "platform_fee" -> Fees
                                       [] a = "buyer"        -> -(Funds + Fees)
                                       [] a = "seller"       -> 0]
    /\ released = [p \in Payouts |-> 0]
    /\ undone = [p \in Payouts |-> 0]
    /\ stripe = {}
    /\ pulled = {}
    /\ job = [w \in Workers |-> Idle]
    /\ calls = 0

At(w, statement) == job[w].at = statement

(* The worker returns from its handler, or the handler throws. *)
Done(w) == job' = [job EXCEPT ![w] = Idle]

Goto(w, statement) == job' = [job EXCEPT ![w].at = statement]

(* prisma.payout.update with the id alone in its WHERE clause. *)
SetStatus(p, s) == row' = [row EXCEPT ![p].status = s]

(* A request arrives at a free worker, which starts with this job. *)
Call(w, first) ==
    /\ At(w, "idle") /\ calls < MaxCalls
    /\ calls' = calls + 1
    /\ job' = [job EXCEPT ![w] = first]
    /\ UNCHANGED <<row, blocked, books, stripe, pulled>>

(* createPayout: no payout of the transaction is PAID or active ... *)
CreatePayout(w) == \E t \in Transactions :
    /\ \A p \in Payouts :
          row[p].txn = t => row[p].status \notin Active \cup {"PAID"}
    /\ Call(w, [Idle EXCEPT !.at = "insert", !.txn = t])

(* ... the row is inserted, unless an amount is no integer or the unique index *)
(* refuses it (or the bound leaves no id for it).                              *)
IsNextId(p) == row[p].status = "NONE" /\ \A q \in Payouts : q < p => row[q].status # "NONE"

InsertPayout(w) ==
    /\ At(w, "insert")
    /\ \/ \E p \in Payouts :
             /\ IsNextId(p) /\ Storable
             /\ row' = [row EXCEPT ![p].status = "PENDING", ![p].txn = job[w].txn]
             /\ IndexHolds(row')
       \/ UNCHANGED row
    /\ Done(w)
    /\ UNCHANGED <<blocked, books, stripe, pulled, calls>>

(* markEligible: the row is read and its transition validated ... *)
MarkEligible(w, p) ==
    /\ <<row[p].status, "ELIGIBLE">> \in ValidTransitions
    /\ Call(w, [Idle EXCEPT !.at = "gate", !.payout = p])

(* ... the seller, its balance and the fraud engine decide ... *)
Gate(w) ==
    /\ At(w, "gate")
    /\ \/ /\ ~blocked /\ balance["seller"] >= 0
          /\ \E review \in BOOLEAN :
                job' = [job EXCEPT ![w].at = "grant", ![w].review = review]
       \/ Done(w)  \* payoutsEnabled is false, or the decision is BLOCK
    /\ UNCHANGED <<row, blocked, books, stripe, pulled, calls>>

(* ... and the update applies only if the row is still PENDING. *)
StillPendingUnchecked(p) == TRUE
StillPending(p) == row[p].status = "PENDING"

Grant(w) ==
    /\ At(w, "grant")
    /\ LET p == job[w].payout IN
       row' = IF StillPending(p)
              THEN [row EXCEPT ![p].status = "ELIGIBLE", ![p].review = job[w].review]
              ELSE row
    /\ Done(w)
    /\ UNCHANGED <<blocked, books, stripe, pulled, calls>>

-------------------------------------------------------------------------------
(* processPayout, reached directly, by retryPayout or by forceRetry. *)
ProcessPayout(w, p) ==
    row[p].status # "NONE" /\ Call(w, [Idle EXCEPT !.at = "read", !.payout = p])

RetryPayout(w, p) ==
    row[p].attempts < MaxAttempts /\ ProcessPayout(w, p)

ForceRetry(w, p) ==
    /\ row[p].status = "FAILED"
    /\ Call(w, [Idle EXCEPT !.at = "reset", !.payout = p])

FreshAttemptsOffByOne == -1
FreshAttempts == 0

ResetAttempts(w) ==
    /\ At(w, "reset")
    /\ row' = [row EXCEPT ![job[w].payout].attempts = FreshAttempts]
    /\ Goto(w, "read")
    /\ UNCHANGED <<blocked, books, stripe, pulled, calls>>

ReadForProcessing(w) ==
    /\ At(w, "read")
    /\ LET p == job[w].payout IN
       IF <<row[p].status, "PROCESSING">> \in ValidTransitions
       THEN job' = [job EXCEPT ![w].at = "claim", ![w].status = row[p].status,
                               ![w].attempt = row[p].attempts + 1]
       ELSE Done(w)
    /\ UNCHANGED <<row, blocked, books, stripe, pulled, calls>>

(* The claim applies only if the status is still the one that was read.      *)
ClaimableAnyStatus(w) == row[job[w].payout].status # "NONE"
Claimable(w) == row[job[w].payout].status = job[w].status

Claim(w) ==
    /\ At(w, "claim")
    /\ LET p == job[w].payout
           rows == [row EXCEPT ![p].status = "PROCESSING", ![p].attempts = @ + 1]
       IN IF Claimable(w) /\ IndexHolds(rows)
          THEN row' = rows /\ Goto(w, "funds")
          ELSE UNCHANGED row /\ Done(w)
    /\ UNCHANGED <<blocked, books, stripe, pulled, calls>>

(* The escrow balance is read before Stripe is asked. *)
EscrowShortAwaited == FALSE
EscrowShort == balance["escrow"] < Amount

CheckEscrow(w) ==
    /\ At(w, "funds")
    /\ \/ balance["escrow"] >= Amount /\ UNCHANGED row /\ Goto(w, "transfer")
       \/ EscrowShort /\ SetStatus(job[w].payout, "FAILED") /\ Done(w)
    /\ UNCHANGED <<blocked, books, stripe, pulled, calls>>

TransferKey(w) == <<job[w].payout, job[w].attempt>>

(* transfers.create: Stripe carries it out or refuses it, or the request does *)
(* not arrive; a key it has seen gets the outcome it had, and an amount that  *)
(* is not positive is refused.  A refusal, or no answer, throws, and the      *)
(* handler takes it that no money moved.                                      *)
AcceptedUnread(answered, outcome) == answered
Accepted(answered, outcome) == answered /\ outcome = "moved"

Transfer(w) ==
    /\ At(w, "transfer")
    /\ \E outcome \in {"moved", "refused", "none"}, answered \in BOOLEAN :
          /\ \A other \in {"moved", "refused"} \ {outcome} :
                <<TransferKey(w), other>> \notin stripe
          /\ answered => outcome # "none"
          /\ outcome = "moved" => SellerAmount > 0
          /\ stripe' = IF outcome = "none" THEN stripe
                       ELSE stripe \cup {<<TransferKey(w), outcome>>}
          /\ IF Accepted(answered, outcome)
             THEN UNCHANGED row /\ Goto(w, "persist")
             ELSE SetStatus(job[w].payout, "FAILED") /\ Done(w)
    /\ UNCHANGED <<blocked, books, pulled, calls>>

PersistTransfer(w) ==
    /\ At(w, "persist")
    /\ row' = [row EXCEPT ![job[w].payout].transfer = job[w].attempt]
    /\ Goto(w, "post")
    /\ UNCHANGED <<blocked, books, stripe, pulled, calls>>

(* ledger.releasePayout commits or throws; what it throws is caught. *)
Release(w) ==
    /\ At(w, "post")
    /\ LET p == job[w].payout IN
       \/ /\ Accountable /\ Books!Post(ReleasePosting)
          /\ released' = [released EXCEPT ![p] = @ + 1]
          /\ Goto(w, "paid") /\ UNCHANGED row
       \/ SetStatus(p, "FAILED") /\ Done(w) /\ UNCHANGED <<balance, released>>
    /\ UNCHANGED <<blocked, undone, stripe, pulled, calls>>

(* The update's promise is returned without an await: if it fails, no catch  *)
(* of this handler sees it, and the effect is that of a crash here.          *)
MarkPaid(w) ==
    /\ At(w, "paid")
    /\ SetStatus(job[w].payout, "PAID")
    /\ Done(w)
    /\ UNCHANGED <<blocked, books, stripe, pulled, calls>>

-------------------------------------------------------------------------------
(* reversePayout: of a payout read as PAID ... *)
ReversalInBooksOnly(p) ==
    [Idle EXCEPT !.at = "unpost", !.payout = p, !.transfer = row[p].transfer]
Reversal(p) ==
    [Idle EXCEPT !.at = IF row[p].transfer = 0 THEN "unpost" ELSE "pull",
                 !.payout = p, !.transfer = row[p].transfer]

ReversePayout(w, p) == row[p].status = "PAID" /\ Call(w, Reversal(p))

(* ... Stripe reverses the transfer, once for all requests with this key ... *)
PullBack(w) ==
    /\ At(w, "pull")
    /\ \/ pulled' = pulled \cup {job[w].payout} /\ Goto(w, "unpost")
       \/ pulled' \in {pulled, pulled \cup {job[w].payout}} /\ Done(w)
    /\ UNCHANGED <<row, blocked, books, stripe, calls>>

(* ... the ledger is posted, or throws ... *)
Undo(w) ==
    /\ At(w, "unpost")
    /\ \/ /\ Accountable /\ Books!Post(ReversePosting)
          /\ undone' = [undone EXCEPT ![job[w].payout] = @ + 1]
          /\ Goto(w, "reversed")
       \/ Done(w) /\ UNCHANGED <<balance, undone>>
    /\ UNCHANGED <<row, blocked, released, stripe, pulled, calls>>

(* ... and the status is written. *)
MarkReversed(w) ==
    /\ At(w, "reversed")
    /\ SetStatus(job[w].payout, "REVERSED")
    /\ Done(w)
    /\ UNCHANGED <<blocked, books, stripe, pulled, calls>>

-------------------------------------------------------------------------------
(* The process dies, or a statement outside every try block throws. *)
Crash(w) ==
    /\ ~At(w, "idle")
    /\ Done(w)
    /\ UNCHANGED <<row, blocked, books, stripe, pulled, calls>>

Step(w) ==
    \/ InsertPayout(w) \/ Gate(w) \/ Grant(w) \/ ResetAttempts(w)
    \/ ReadForProcessing(w) \/ Claim(w) \/ CheckEscrow(w) \/ Transfer(w)
    \/ PersistTransfer(w) \/ Release(w) \/ MarkPaid(w)
    \/ PullBack(w) \/ Undo(w) \/ MarkReversed(w)

Request(w) ==
    \/ CreatePayout(w)
    \/ \E p \in Payouts :
          \/ MarkEligible(w, p) \/ ProcessPayout(w, p) \/ RetryPayout(w, p)
          \/ ForceRetry(w, p) \/ ReversePayout(w, p)

Next == \E w \in Workers : Request(w) \/ Step(w) \/ Crash(w)

(* Node.js resumes every handler whose statement has been answered. *)
Fairness == \A w \in Workers : WF_payoutVars(Step(w))

Spec == Init /\ [][Next]_payoutVars
FairSpec == Spec /\ Fairness
===============================================================================
