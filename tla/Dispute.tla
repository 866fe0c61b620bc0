------------------------------- MODULE Dispute -------------------------------
(***************************************************************************)
(* Disputes (src/src/dispute/dispute.service.ts) beside the payout         *)
(* handlers.  An agent runs one dispute handler at a time, statement by    *)
(* statement; where the code calls payoutService.reversePayout, the agent  *)
(* runs that handler of Payout as a worker and goes on when it returns.    *)
(* The handlers read a row, validate its status and later write it without *)
(* asking again, so everything Payout does may happen in between.          *)
(***************************************************************************)
EXTENDS Payout

CONSTANTS
    Agents,   \* workers that run dispute handlers
    Disputes  \* ids of Dispute rows, in the order they are handed out

ASSUME DisputeAssumption == Agents \subseteq Workers /\ Disputes \subseteq Nat

VARIABLES
    dispute,  \* the Dispute rows
    refunds,  \* refund postings made for a dispute
    desk      \* what each agent is doing

vars == <<payoutVars, dispute, refunds, desk>>

DisputeStatuses == {"NONE", "OPEN", "UNDER_REVIEW", "WON", "LOST", "REFUNDED"}

ValidDisputeTransitions ==
    {<<"OPEN", "UNDER_REVIEW">>, <<"UNDER_REVIEW", "WON">>,
     <<"UNDER_REVIEW", "LOST">>, <<"UNDER_REVIEW", "REFUNDED">>}

Resolved == {"WON", "LOST", "REFUNDED"}

NoDispute == [status |-> "NONE", txn |-> NoRow.txn, payout |-> 0]

(* Where an agent's handler is, its dispute (or the transaction a new one is *)
(* about), the payout and the payout's status it has read, and its verdict.  *)
Free == [at |-> "free", dispute |-> 0, txn |-> NoRow.txn, payout |-> 0,
         status |-> "NONE", verdict |-> "NONE"]

RefundPosting == [debit  |-> [a \in {"escrow"} |-> Amount],
                  credit |-> [a \in {"buyer"} |-> Amount]]

Refund == INSTANCE AbstractLedger WITH Postings <- {RefundPosting}

DisputeInit ==
    /\ Init
    /\ dispute = [d \in Disputes |-> NoDispute]
    /\ refunds = [d \in Disputes |-> 0]
    /\ desk = [a \in Agents |-> Free]

-------------------------------------------------------------------------------
On(a, statement) == desk[a].at = statement
Leave(a) == desk' = [desk EXCEPT ![a] = Free]
GoOn(a, statement) == desk' = [desk EXCEPT ![a].at = statement]
WriteStatus(d, s) == dispute' = [dispute EXCEPT ![d].status = s]

(* What a statement of a dispute handler leaves alone unless it says more. *)
LedgerSame == UNCHANGED <<books, refunds>>
RestSame == UNCHANGED <<stripe, pulled, job, calls>>

Ask(a, first) ==
    /\ On(a, "free") /\ At(a, "idle") /\ calls < MaxCalls
    /\ calls' = calls + 1
    /\ desk' = [desk EXCEPT ![a] = first]
    /\ UNCHANGED <<row, blocked, books, stripe, pulled, job, dispute, refunds>>

(* openDispute: the transaction is read with its payouts ... *)
Freezable(p, t) == row[p].txn = t /\ row[p].status \in {"PENDING", "ELIGIBLE"}

OpenDispute(a) == \E t \in Transactions :
    \/ \E p \in Payouts :
          /\ Freezable(p, t)
          /\ Ask(a, [Free EXCEPT !.at = "create", !.txn = t, !.payout = p,
                                 !.status = row[p].status])
    \/ /\ \A p \in Payouts : ~Freezable(p, t)
       /\ Ask(a, [Free EXCEPT !.at = "create", !.txn = t])

(* ... the dispute is created with the payout it found ... *)
CreateDispute(a) ==
    /\ On(a, "create")
    /\ \/ \E d \in Disputes :
             /\ dispute[d].status = "NONE"
             /\ \A e \in Disputes : e < d => dispute[e].status # "NONE"
             /\ dispute' = [dispute EXCEPT ![d] =
                    [status |-> "OPEN", txn |-> desk[a].txn, payout |-> desk[a].payout]]
             /\ IF desk[a].status = "ELIGIBLE" THEN GoOn(a, "freeze") ELSE Leave(a)
       \/ /\ \A d \in Disputes : dispute[d].status # "NONE"  \* the bound is reached
          /\ Leave(a) /\ UNCHANGED dispute
    /\ LedgerSame /\ RestSame /\ UNCHANGED <<row, blocked>>

(* ... and a payout that was ELIGIBLE is set back, whatever it is by now; the *)
(* unique index makes the update throw if another payout is active instead.   *)
FrozenUnlisted == "FROZEN"
Frozen == "PENDING"

Freeze(a) ==
    /\ On(a, "freeze")
    /\ LET rows == [row EXCEPT ![desk[a].payout].status = Frozen]
       IN row' = IF IndexHolds(rows) THEN rows ELSE row
    /\ Leave(a)
    /\ LedgerSame /\ RestSame /\ UNCHANGED <<blocked, dispute>>

-------------------------------------------------------------------------------
(* startReview and the three resolutions: the dispute is read and validated. *)
Decide(a, d, verdict, first) ==
    /\ <<dispute[d].status, verdict>> \in ValidDisputeTransitions
    /\ Ask(a, [Free EXCEPT !.at = first, !.dispute = d, !.verdict = verdict])

StartReview(a, d) == Decide(a, d, "UNDER_REVIEW", "write")
ResolveWon(a, d)  == Decide(a, d, "WON", IF dispute[d].payout = 0 THEN "write" ELSE "look")
ResolveAgainstSeller(a, d) ==
    \E verdict \in {"LOST", "REFUNDED"} : Decide(a, d, verdict, "find")

(* resolveWon: a frozen payout is released. *)
LookAtFrozen(a) ==
    /\ On(a, "look")
    /\ IF row[dispute[desk[a].dispute].payout].status = "PENDING"
       THEN GoOn(a, "thaw") ELSE GoOn(a, "write")
    /\ LedgerSame /\ RestSame /\ UNCHANGED <<row, blocked, dispute>>

Thaw(a) ==
    /\ On(a, "thaw")
    /\ LET p == dispute[desk[a].dispute].payout
           rows == [row EXCEPT ![p].status = "ELIGIBLE"]
       IN IF IndexHolds(rows) THEN row' = rows /\ GoOn(a, "write")
          ELSE UNCHANGED row /\ Leave(a)
    /\ LedgerSame /\ RestSame /\ UNCHANGED <<blocked, dispute>>

(* resolveLost and resolveRefunded: the dispute's payout, or else a PAID one  *)
(* of its transaction, is to be reversed if it is PAID.                       *)
ToReverse(d) ==
    IF dispute[d].payout # 0 THEN {dispute[d].payout}
    ELSE {p \in Payouts : row[p].txn = dispute[d].txn /\ row[p].status = "PAID"}

AfterReversal(a) == IF desk[a].verdict = "REFUNDED" THEN "refund" ELSE "write"

FindPayout(a) ==
    /\ On(a, "find")
    /\ LET paid == {p \in ToReverse(desk[a].dispute) : row[p].status = "PAID"} IN
       \/ \E p \in paid :
             desk' = [desk EXCEPT ![a].at = "reverse", ![a].payout = p]
       \/ paid = {} /\ GoOn(a, AfterReversal(a))
    /\ LedgerSame /\ RestSame /\ UNCHANGED <<row, blocked, dispute>>

(* reversePayout reads the payout again and throws if it is not PAID now. *)
NotPaidAwaited(p) == FALSE
NotPaid(p) == row[p].status # "PAID"

StartReversal(a) ==
    /\ On(a, "reverse") /\ At(a, "idle")
    /\ LET p == desk[a].payout IN
       \/ /\ row[p].status = "PAID"
          /\ job' = [job EXCEPT ![a] = Reversal(p)]
          /\ GoOn(a, "reversing")
       \/ NotPaid(p) /\ Leave(a) /\ UNCHANGED job
    /\ LedgerSame /\ UNCHANGED <<row, blocked, stripe, pulled, calls, dispute>>

(* Its statements; when it throws, so does the handler that called it. *)
ThrownSwallowed(a) == [desk[a] EXCEPT !.at = "balance"]
Thrown(a) == Free

ReversalStep(a) ==
    /\ On(a, "reversing")
    /\ \/ MarkReversed(a) /\ GoOn(a, "balance")
       \/ /\ PullBack(a) \/ Undo(a)
          /\ desk' = IF job'[a].at = "idle" THEN [desk EXCEPT ![a] = Thrown(a)] ELSE desk
    /\ UNCHANGED <<dispute, refunds>>

(* updateSellerNegativeBalance: the balance is read, and the seller blocked. *)
ReadSellerBalance(a) ==
    /\ On(a, "balance")
    /\ GoOn(a, IF balance["seller"] < 0 THEN "block" ELSE AfterReversal(a))
    /\ LedgerSame /\ RestSame /\ UNCHANGED <<row, blocked, dispute>>

BlockSeller(a) ==
    /\ On(a, "block")
    /\ blocked' = TRUE
    /\ GoOn(a, AfterReversal(a))
    /\ LedgerSame /\ RestSame /\ UNCHANGED <<row, dispute>>

(* The refund to the buyer is posted, or the ledger throws; or there is no   *)
(* one to refund, for the transaction has no DEBIT entry (a reconciler has   *)
(* completed it without any), and the verdict is written all the same.       *)
PostRefund(a) ==
    /\ On(a, "refund")
    /\ \/ /\ Refund!Post(RefundPosting)
          /\ refunds' = [refunds EXCEPT ![desk[a].dispute] = @ + 1]
          /\ GoOn(a, "write")
       \/ Leave(a) /\ UNCHANGED <<balance, refunds>>
       \/ GoOn(a, "write") /\ UNCHANGED <<balance, refunds>>
    /\ RestSame /\ UNCHANGED <<row, blocked, released, undone, dispute>>

(* The last statement of every handler but openDispute. *)
WriteVerdict(a) ==
    /\ On(a, "write")
    /\ WriteStatus(desk[a].dispute, desk[a].verdict)
    /\ Leave(a)
    /\ LedgerSame /\ RestSame /\ UNCHANGED <<row, blocked>>

(* The process dies; a reversal the agent was running dies with it. *)
AgentCrash(a) ==
    /\ ~On(a, "free")
    /\ Leave(a) /\ Done(a)
    /\ LedgerSame /\ UNCHANGED <<row, blocked, stripe, pulled, calls, dispute>>

-------------------------------------------------------------------------------
AgentStep(a) ==
    \/ CreateDispute(a) \/ Freeze(a) \/ LookAtFrozen(a) \/ Thaw(a) \/ FindPayout(a)
    \/ StartReversal(a) \/ ReversalStep(a) \/ ReadSellerBalance(a) \/ BlockSeller(a)
    \/ PostRefund(a) \/ WriteVerdict(a)

AgentRequest(a) ==
    \/ OpenDispute(a)
    \/ \E d \in Disputes :
          StartReview(a, d) \/ ResolveWon(a, d) \/ ResolveAgainstSeller(a, d)

PayoutStep(w) ==
    /\ w \in Agents => On(w, "free")
    /\ Request(w) \/ Step(w) \/ Crash(w)
    /\ UNCHANGED <<dispute, refunds, desk>>

DisputeNext ==
    \/ \E a \in Agents : AgentRequest(a) \/ AgentStep(a) \/ AgentCrash(a)
    \/ \E w \in Workers : PayoutStep(w)

DisputeFairness ==
    /\ \A a \in Agents : WF_vars(AgentStep(a))
    /\ \A w \in Workers :
          WF_vars((w \in Agents => On(w, "free")) /\ Step(w)
                  /\ UNCHANGED <<dispute, refunds, desk>>)

DisputeSpec == DisputeInit /\ [][DisputeNext]_vars
FairDisputeSpec == DisputeSpec /\ DisputeFairness
===============================================================================
