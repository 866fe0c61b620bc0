----------------------------- MODULE PayoutProofs -----------------------------
(***************************************************************************)
(* Proofs about Payout, for any number of workers, payouts, transactions   *)
(* and calls.                                                              *)
(*                                                                         *)
(* ClaimIsExclusive and BooksMatchStatus are not inductive: they lean on   *)
(* what a handler that has not yet written knows of the row it will write. *)
(* JobSound says this for one worker and IInv for all of them.             *)
(***************************************************************************)
EXTENDS PayoutProperties, FiniteSetTheorems, TLAPS

Owning    == {"funds", "transfer", "persist", "post", "paid"}
Reversing == {"pull", "unpost", "reversed"}

JobSound(w) ==
    LET p == job[w].payout IN
    /\ job[w].at \notin {"idle", "insert"} => p \in Payouts
    /\ At(w, "claim") => job[w].status \in {"ELIGIBLE", "FAILED"}
    /\ job[w].at \in Owning \cup {"claim"} => job[w].attempt > 0
    /\ At(w, "persist") => <<TransferKey(w), "moved">> \in stripe
    /\ job[w].at \in {"post", "paid"} =>
          row[p].transfer > 0 /\ <<<<p, row[p].transfer>>, "moved">> \in stripe
    /\ job[w].at \in Owning \ {"paid"} => released[p] = 0
    /\ At(w, "paid") => released[p] = 1
    /\ job[w].at \in Reversing => row[p].status \in {"PAID", "REVERSED"}

Safe ==
    /\ ClaimIsExclusive /\ BooksMatchStatus /\ TransferBeforeBooks /\ IndexHolds(row)
    /\ \A w \in Workers : JobSound(w)

IInv == TypeOK /\ Safe

-------------------------------------------------------------------------------
(* The arithmetic of Money. *)

(* Rounding is within half a unit. *)
LEMMA RoundedBounds ==
    ASSUME NEW x \in Int, NEW d \in Nat \ {0}
    PROVE  /\ Rounded(x, d) \in Int
           /\ 2 * x - d < 2 * d * Rounded(x, d) /\ 2 * d * Rounded(x, d) <= 2 * x + d
  BY DEF Rounded

LEMMA FeeType ==
    ASSUME NEW amount \in Int, NEW percent \in Int
    PROVE  /\ CalculateFee(amount, percent).fee \in Int
           /\ CalculateFee(amount, percent).sellerAmount \in Int
  <1>1. amount * percent \in Int
    OBVIOUS
  <1>2. Rounded(amount * percent, 100) \in Int
    BY <1>1, RoundedBounds
  <1>3. QED
    BY <1>2 DEF CalculateFee

(* money.util.ts:11-27: for every amount and percentage the two shares have   *)
(* exactly the sum that was split, and the fee is at most half a hundredth of *)
(* a cent from the percentage asked for.                                      *)
THEOREM SplitIsExact ==
    ASSUME NEW amount \in Int, NEW percent \in Int,
           NEW exact \in Int, exact = amount * percent,
           NEW split, split = CalculateFee(amount, percent)
    PROVE  /\ split.fee + split.sellerAmount = 100 * amount
           /\ 2 * exact - 100 < 200 * split.fee /\ 200 * split.fee <= 2 * exact + 100
  <1>1. PICK fee \in Int : fee = Rounded(exact, 100)
    BY RoundedBounds
  <1>2. split.fee = fee /\ split.sellerAmount = 100 * amount - fee
    BY <1>1 DEF CalculateFee
  <1>3. 2 * exact - 100 < 200 * fee /\ 200 * fee <= 2 * exact + 100
    BY <1>1, RoundedBounds
  <1>4. QED
    BY <1>1, <1>2, <1>3

(* money.util.ts:15-16: a percentage of up to a hundred takes no more than    *)
(* there is, and leaves the seller no debt.                                   *)
THEOREM SharesInBounds ==
    ASSUME NEW amount \in Nat, NEW percent \in 0 .. 10000,
           NEW split, split = CalculateFee(amount, percent)
    PROVE  split.fee \in 0 .. 100 * amount /\ split.sellerAmount \in 0 .. 100 * amount
  <1>1. PICK m \in Int : m = amount * percent
    OBVIOUS
  <1>2. 0 <= m /\ m <= 10000 * amount
    BY <1>1
  <1>3. PICK fee \in Int : fee = split.fee
    BY FeeType
  <1>4. PICK seller \in Int : seller = split.sellerAmount
    BY FeeType
  <1>5. fee + seller = 100 * amount /\ 2 * m - 100 < 200 * fee /\ 200 * fee <= 2 * m + 100
    BY <1>1, <1>3, <1>4, SplitIsExact
  <1>6. 0 <= fee /\ fee <= 100 * amount
    BY <1>2, <1>5
  <1>7. QED
    BY <1>3, <1>4, <1>5, <1>6

(* payout.service.ts:33, money.util.ts:15: at the default fee of five percent *)
(* the shares are whole cents, so that the Int columns take them, only if the *)
(* amount is a multiple of twenty cents.                                      *)
THEOREM DefaultFeeInCents ==
    ASSUME NEW amount \in Nat
    PROVE  IsInteger(CalculateFee(amount, FeePercent(0)).fee) <=> amount % 20 = 0
  <1> DEFINE percent == FeePercent(0)
  <1>1. percent \in Int /\ percent = 500
    BY DEF FeePercent
  <1> HIDE DEF percent
  <1>2. PICK fee \in Int : fee = CalculateFee(amount, percent).fee
    BY <1>1, FeeType
  <1>3. PICK m \in Int : m = amount * percent /\ m = 500 * amount
    BY <1>1
  <1>4. fee = 5 * amount
    <2>1. 2 * m - 100 < 200 * fee /\ 200 * fee <= 2 * m + 100
      BY <1>1, <1>2, <1>3, SplitIsExact
    <2>2. QED
      BY <1>3, <2>1
  <1>5. (5 * amount) % 100 = 0 <=> amount % 20 = 0
    OBVIOUS
  <1>6. IsInteger(CalculateFee(amount, percent).fee) <=> amount % 20 = 0
    BY <1>2, <1>4, <1>5 DEF IsInteger
  <1>7. QED
    BY <1>6 DEF percent

(* common/money.ts:17-19, money.util.ts:11-27: where the fee of the one       *)
(* calculateFee is a whole number of cents, the other computes the same.      *)
THEOREM FeesAgree ==
    ASSUME NEW amount \in Int, NEW percent \in Int,
           IsInteger(CalculateFee(amount, percent).fee)
    PROVE  CalculateFee(amount, percent).fee = 100 * MinorFee(amount, percent)
  <1>1. PICK m \in Int : m = amount * percent
    OBVIOUS
  <1>2. PICK fee \in Int : fee = CalculateFee(amount, percent).fee
    BY FeeType
  <1>3. 2 * m - 100 < 200 * fee /\ 200 * fee <= 2 * m + 100
    BY <1>1, <1>2, SplitIsExact
  <1>4. PICK cents \in Int : fee = 100 * cents
    BY <1>2 DEF IsInteger
  <1>5. PICK minor \in Int : minor = MinorFee(amount, percent)
    BY <1>1, RoundedBounds DEF MinorFee
  <1>6. 2 * m - 10000 < 20000 * minor /\ 20000 * minor <= 2 * m + 10000
    BY <1>1, <1>5, RoundedBounds DEF MinorFee
  <1>7. minor = cents
    BY <1>3, <1>4, <1>6
  <1>8. QED
    BY <1>2, <1>4, <1>5, <1>7

LEMMA PercentType == ASSUME NEW asked \in Int PROVE FeePercent(asked) \in Int
  BY DEF FeePercent

LEMMA AmountsType == /\ Split.fee \in Int /\ Split.sellerAmount \in Int
                     /\ Fee \in Int /\ SellerAmount \in Int
  <1>1. Split.fee \in Int /\ Split.sellerAmount \in Int
    <2>1. PICK percent \in Int : percent = FeePercent(PlatformFeePercent)
      BY PayoutAssumption, PercentType
    <2>2. QED
      BY <2>1, PayoutAssumption, FeeType DEF Split
  <1>2. QED
    BY <1>1 DEF Fee, SellerAmount

-------------------------------------------------------------------------------
LEMMA IdleType == NoRow \in Row /\ Idle \in Job
  BY PayoutAssumption DEF NoRow, Row, Idle, Job, Statements, Statuses

(* What a worker's job becomes is a job again. *)
LEMMA JobType ==
    ASSUME TypeOK, NEW w \in Workers, NEW j \in Job, job' = [job EXCEPT ![w] = j]
    PROVE  job' \in [Workers -> Job]
  BY DEF TypeOK

LEMMA DoneType ==
    ASSUME TypeOK, NEW w \in Workers, Done(w)
    PROVE  job' \in [Workers -> Job]
  BY IdleType DEF TypeOK, Done

LEMMA GotoType ==
    ASSUME TypeOK, NEW w \in Workers, NEW s \in Statements, Goto(w, s)
    PROVE  job' \in [Workers -> Job]
  BY DEF TypeOK, Goto, Job

(* A posting keeps the balances integers. *)
LEMMA PostType ==
    ASSUME TypeOK, NEW posting \in {ReleasePosting, ReversePosting},
           Books!Post(posting)
    PROVE  balance' \in [Accounts -> Int]
  <1>1. ASSUME NEW a \in Accounts
        PROVE  /\ Books!AmountOf(posting.credit, a) \in Int
               /\ Books!AmountOf(posting.debit, a) \in Int
    BY PayoutAssumption, AmountsType
       DEF ReleasePosting, ReversePosting, Books!AmountOf
  <1>2. QED
    BY <1>1 DEF Books!Post, TypeOK

LEMMA InitInv == Init => IInv
  <1> SUFFICES ASSUME Init PROVE IInv
    OBVIOUS
  <1>1. TypeOK
    <2>1. balance \in [Accounts -> Int]
      <3>1. \A a \in Accounts : balance[a] \in Int
        <4>1. Funds \in Int /\ Fees \in Int /\ -(Funds + Fees) \in Int
          BY PayoutAssumption
        <4>2. QED
          BY <4>1 DEF Init, Accounts
      <3>2. QED
        BY <3>1 DEF Init
    <2>2. row \in [Payouts -> Row] /\ job \in [Workers -> Job]
      BY IdleType DEF Init
    <2>3. calls \in 0 .. MaxCalls
      BY PayoutAssumption DEF Init
    <2>4. /\ blocked \in BOOLEAN /\ pulled \subseteq Payouts
          /\ released \in [Payouts -> Nat] /\ undone \in [Payouts -> Nat]
          /\ stripe \subseteq (Payouts \X Nat) \X {"moved", "refused"}
      BY DEF Init
    <2>5. QED
      BY <2>1, <2>2, <2>3, <2>4 DEF TypeOK
  <1>2. Safe
    BY IdleType DEF Init, Safe, ClaimIsExclusive, Owns, BooksMatchStatus,
       TransferBeforeBooks, IndexHolds, JobSound, At, Idle, NoRow, Active, Owning,
       Reversing
  <1>3. QED
    BY <1>1, <1>2 DEF IInv

-------------------------------------------------------------------------------
(* Types are preserved. *)
LEMMA CallType ==
    ASSUME TypeOK, NEW w \in Workers, NEW j \in Job, Call(w, j)
    PROVE  TypeOK'
  <1>1. calls' \in 0 .. MaxCalls
    BY PayoutAssumption DEF Call, TypeOK
  <1>2. job' \in [Workers -> Job]
    BY JobType DEF Call
  <1>3. QED
    BY <1>1, <1>2 DEF Call, TypeOK, books

LEMMA ReversalType ==
    ASSUME NEW p \in Payouts, row[p].transfer \in Nat
    PROVE  Reversal(p) \in Job
  BY IdleType DEF Reversal, Job, Statements, Idle, Statuses

LEMMA RequestType ==
    ASSUME TypeOK, NEW w \in Workers, Request(w)
    PROVE  TypeOK'
  <1> USE IdleType DEF Job, Statements, Idle, Statuses
  <1>1. ASSUME CreatePayout(w) PROVE TypeOK'
    <2>1. PICK t \in Transactions : Call(w, [Idle EXCEPT !.at = "insert", !.txn = t])
      BY <1>1 DEF CreatePayout
    <2>2. [Idle EXCEPT !.at = "insert", !.txn = t] \in Job
      OBVIOUS
    <2>3. QED
      BY <2>1, <2>2, CallType
  <1>2. ASSUME NEW p \in Payouts, NEW s \in Statements,
               Call(w, [Idle EXCEPT !.at = s, !.payout = p])
        PROVE  TypeOK'
    <2>1. [Idle EXCEPT !.at = s, !.payout = p] \in Job
      OBVIOUS
    <2>2. QED
      BY <1>2, <2>1, CallType
  <1>3. ASSUME NEW p \in Payouts, ReversePayout(w, p) PROVE TypeOK'
    <2>1. row[p].transfer \in Nat
      BY DEF TypeOK, Row
    <2>2. Reversal(p) \in Job
      BY <2>1, ReversalType
    <2>3. QED
      BY <1>3, <2>2, CallType DEF ReversePayout
  <1>4. QED
    BY <1>1, <1>2, <1>3
       DEF Request, MarkEligible, ProcessPayout, RetryPayout, ForceRetry

(* A row with fields replaced by values of their types is a row. *)
LEMMA StatusType ==
    ASSUME TypeOK, NEW p, NEW s \in Statuses, SetStatus(p, s)
    PROVE  row' \in [Payouts -> Row]
  BY DEF TypeOK, Row, SetStatus

(* A step that leaves the books, Stripe and the counters alone. *)
LEMMA QuietType ==
    ASSUME TypeOK, row' \in [Payouts -> Row], job' \in [Workers -> Job],
           UNCHANGED <<blocked, books, stripe, pulled, calls>>
    PROVE  TypeOK'
  BY DEF TypeOK, books

LEMMA StepType ==
    ASSUME TypeOK, NEW w \in Workers, Step(w) \/ Crash(w),
           job[w].at \notin {"idle", "insert"} => job[w].payout \in Payouts
    PROVE  TypeOK'
  <1> DEFINE p == job[w].payout
  <1>0. TypeOK /\ job[w] \in Job /\ row \in [Payouts -> Row]
    BY DEF TypeOK
  <1>a. job[w].at \notin {"idle", "insert"} => p \in Payouts
    OBVIOUS
  <1>b. UNCHANGED row => row' \in [Payouts -> Row]
    BY <1>0
  <1> HIDE DEF p
  <1>1. ASSUME InsertPayout(w) PROVE TypeOK'
    <2>1. ASSUME NEW q \in Payouts,
                 row' = [row EXCEPT ![q].status = "PENDING", ![q].txn = job[w].txn]
          PROVE  row' \in [Payouts -> Row]
      <3>1. job[w].txn \in Transactions
        BY <1>0 DEF Job
      <3>2. QED
        BY <1>0, <2>1, <3>1 DEF Row, Statuses
    <2>2. row' \in [Payouts -> Row]
      BY <1>1, <1>b, <2>1 DEF InsertPayout
    <2>3. job' \in [Workers -> Job]
      BY <1>0, <1>1, DoneType DEF InsertPayout
    <2>4. QED
      BY <1>0, <1>1, <2>2, <2>3, QuietType DEF InsertPayout
  <1>2. ASSUME Gate(w) PROVE TypeOK'
    <2>1. ASSUME NEW r \in BOOLEAN,
                 job' = [job EXCEPT ![w].at = "grant", ![w].review = r]
          PROVE  job' \in [Workers -> Job]
      BY <1>0, <2>1 DEF TypeOK, Job, Statements
    <2>2. job' \in [Workers -> Job]
      BY <1>0, <1>2, <2>1, DoneType DEF Gate
    <2>3. QED
      BY <1>0, <1>2, <1>b, <2>2, QuietType DEF Gate
  <1>3. ASSUME Grant(w) PROVE TypeOK'
    <2>1. job[w].review \in BOOLEAN
      BY <1>0 DEF Job
    <2>2. [row EXCEPT ![p].status = "ELIGIBLE", ![p].review = job[w].review]
             \in [Payouts -> Row]
      BY <1>0, <2>1 DEF Row, Statuses
    <2>3. row' \in [Payouts -> Row]
      BY <1>0, <1>3, <2>2 DEF Grant, p
    <2>4. job' \in [Workers -> Job]
      BY <1>0, <1>3, DoneType DEF Grant
    <2>5. QED
      BY <1>0, <1>3, <2>3, <2>4, QuietType DEF Grant
  <1>4. ASSUME ResetAttempts(w) PROVE TypeOK'
    <2>1. row' \in [Payouts -> Row]
      BY <1>0, <1>4 DEF ResetAttempts, FreshAttempts, Row
    <2>2. job' \in [Workers -> Job]
      BY <1>0, <1>4, GotoType DEF ResetAttempts, Statements
    <2>3. QED
      BY <1>0, <1>4, <2>1, <2>2, QuietType DEF ResetAttempts
  <1>5. ASSUME ReadForProcessing(w) PROVE TypeOK'
    <2>1. p \in Payouts
      BY <1>a, <1>5 DEF ReadForProcessing, At
    <2>2. row[p].status \in Statuses /\ row[p].attempts + 1 \in Nat
      BY <1>0, <2>1 DEF Row
    <2>3. ASSUME job' = [job EXCEPT ![w].at = "claim", ![w].status = row[p].status,
                                    ![w].attempt = row[p].attempts + 1]
          PROVE  job' \in [Workers -> Job]
      BY <1>0, <2>2, <2>3 DEF TypeOK, Job, Statements
    <2>4. job' \in [Workers -> Job]
      BY <1>0, <1>5, <2>3, DoneType DEF ReadForProcessing, p
    <2>5. QED
      BY <1>0, <1>5, <1>b, <2>4, QuietType DEF ReadForProcessing
  <1>6. ASSUME Claim(w) PROVE TypeOK'
    <2>1. ASSUME row' = [row EXCEPT ![p].status = "PROCESSING", ![p].attempts = @ + 1]
          PROVE  row' \in [Payouts -> Row]
      <3>1. p \in Payouts
        BY <1>a, <1>6 DEF Claim, At
      <3>2. row[p].attempts + 1 \in Nat
        BY <1>0, <3>1 DEF Row
      <3>3. [[row[p] EXCEPT !.status = "PROCESSING"] EXCEPT !.attempts = row[p].attempts + 1]
               \in Row
        BY <1>0, <3>1, <3>2 DEF Row, Statuses
      <3>4. row' = [row EXCEPT ![p] = [[row[p] EXCEPT !.status = "PROCESSING"]
                                        EXCEPT !.attempts = row[p].attempts + 1]]
        BY <1>0, <2>1, <3>1
      <3>5. QED
        BY <1>0, <3>3, <3>4
    <2>2. row' \in [Payouts -> Row]
      BY <1>6, <1>b, <2>1 DEF Claim, p
    <2>3. job' \in [Workers -> Job]
      BY <1>0, <1>6, DoneType, GotoType DEF Claim, Statements
    <2>4. QED
      BY <1>0, <1>6, <2>2, <2>3, QuietType DEF Claim
  <1>7. ASSUME CheckEscrow(w) PROVE TypeOK'
    <2>1. row' \in [Payouts -> Row]
      BY <1>0, <1>7, <1>b, StatusType DEF CheckEscrow, Statuses
    <2>2. job' \in [Workers -> Job]
      BY <1>0, <1>7, DoneType, GotoType DEF CheckEscrow, Statements
    <2>3. QED
      BY <1>0, <1>7, <2>1, <2>2, QuietType DEF CheckEscrow
  <1>8. ASSUME Transfer(w) PROVE TypeOK'
    <2>1. TransferKey(w) \in Payouts \X Nat
      BY <1>0, <1>a, <1>8 DEF Transfer, At, TransferKey, Job, p
    <2>2. row' \in [Payouts -> Row]
      BY <1>0, <1>8, <1>b, StatusType DEF Transfer, Statuses
    <2>3. job' \in [Workers -> Job]
      BY <1>0, <1>8, DoneType, GotoType DEF Transfer, Statements
    <2>4. stripe' \subseteq (Payouts \X Nat) \X {"moved", "refused"}
      <3>1. PICK outcome \in {"moved", "refused", "none"} :
              stripe' = IF outcome = "none" THEN stripe
                        ELSE stripe \cup {<<TransferKey(w), outcome>>}
        BY <1>8 DEF Transfer
      <3>2. outcome # "none" =>
              <<TransferKey(w), outcome>> \in (Payouts \X Nat) \X {"moved", "refused"}
        BY <2>1
      <3>3. QED
        BY <1>0, <3>1, <3>2 DEF TypeOK
    <2>5. UNCHANGED <<blocked, books, pulled, calls>>
      BY <1>8 DEF Transfer
    <2>6. QED
      BY <1>0, <2>2, <2>3, <2>4, <2>5 DEF TypeOK, books
  <1>9. ASSUME PersistTransfer(w) PROVE TypeOK'
    <2>1. job[w].attempt \in Nat
      BY <1>0 DEF Job
    <2>2. row' \in [Payouts -> Row]
      BY <1>0, <1>9, <2>1 DEF PersistTransfer, Row
    <2>3. job' \in [Workers -> Job]
      BY <1>0, <1>9, GotoType DEF PersistTransfer, Statements
    <2>4. QED
      BY <1>0, <1>9, <2>2, <2>3, QuietType DEF PersistTransfer
  <1>10. ASSUME Release(w) PROVE TypeOK'
    <2>1. balance' \in [Accounts -> Int]
      BY <1>0, <1>10, PostType DEF Release, TypeOK
    <2>2. released' \in [Payouts -> Nat]
      BY <1>0, <1>10 DEF Release, TypeOK
    <2>3. row' \in [Payouts -> Row]
      BY <1>0, <1>10, <1>b, StatusType DEF Release, Statuses
    <2>4. job' \in [Workers -> Job]
      BY <1>0, <1>10, DoneType, GotoType DEF Release, Statements
    <2>5. UNCHANGED <<blocked, undone, stripe, pulled, calls>>
      BY <1>10 DEF Release
    <2>6. QED
      BY <1>0, <2>1, <2>2, <2>3, <2>4, <2>5 DEF TypeOK
  <1>11. ASSUME MarkPaid(w) \/ MarkReversed(w) PROVE TypeOK'
    <2>1. row' \in [Payouts -> Row]
      BY <1>0, <1>11, StatusType DEF MarkPaid, MarkReversed, Statuses
    <2>2. job' \in [Workers -> Job]
      BY <1>0, <1>11, DoneType DEF MarkPaid, MarkReversed
    <2>3. QED
      BY <1>0, <1>11, <2>1, <2>2, QuietType DEF MarkPaid, MarkReversed
  <1>12. ASSUME PullBack(w) PROVE TypeOK'
    <2>1. p \in Payouts
      BY <1>a, <1>12 DEF PullBack, At
    <2>2. pulled' \subseteq Payouts
      BY <1>0, <1>12, <2>1 DEF PullBack, TypeOK, p
    <2>3. job' \in [Workers -> Job]
      BY <1>0, <1>12, DoneType, GotoType DEF PullBack, Statements
    <2>4. UNCHANGED <<row, blocked, books, stripe, calls>>
      BY <1>12 DEF PullBack
    <2>5. QED
      BY <1>0, <2>2, <2>3, <2>4 DEF TypeOK, books
  <1>13. ASSUME Undo(w) PROVE TypeOK'
    <2>1. balance' \in [Accounts -> Int]
      BY <1>0, <1>13, PostType DEF Undo, TypeOK
    <2>2. undone' \in [Payouts -> Nat]
      BY <1>0, <1>13 DEF Undo, TypeOK
    <2>3. job' \in [Workers -> Job]
      BY <1>0, <1>13, DoneType, GotoType DEF Undo, Statements
    <2>4. UNCHANGED <<row, blocked, released, stripe, pulled, calls>>
      BY <1>13 DEF Undo
    <2>5. QED
      BY <1>0, <2>1, <2>2, <2>3, <2>4 DEF TypeOK
  <1>14. ASSUME Crash(w) PROVE TypeOK'
    <2>1. job' \in [Workers -> Job]
      BY <1>0, <1>14, DoneType DEF Crash
    <2>2. QED
      BY <1>0, <1>14, <1>b, <2>1, QuietType DEF Crash
  <1>15. QED
    BY <1>1, <1>2, <1>3, <1>4, <1>5, <1>6, <1>7, <1>8, <1>9, <1>10, <1>11, <1>12,
       <1>13, <1>14 DEF Step

-------------------------------------------------------------------------------
(* A handler writes one row, its own payout's, and no other handler's job. *)
Touches(w, p) ==
    /\ \A q \in Payouts \ {p} : row'[q] = row[q] /\ released'[q] = released[q]
    /\ \A v \in Workers \ {w} : job'[v] = job[v]
    /\ stripe \subseteq stripe'

(* What IInv says of one payout. *)
BooksAt(p) ==
    released[p] \in CASE row[p].status \in {"PAID", "REVERSED"} -> {1}
                      [] row[p].status = "PROCESSING"           -> {0, 1}
                      [] OTHER                                  -> {0}
TransferAt(p) ==
    released[p] > 0 =>
        row[p].transfer > 0 /\ <<<<p, row[p].transfer>>, "moved">> \in stripe

(* The invariant survives a write if it does not change what the owner of    *)
(* the row relies on, and leaves the row and the writer in order.            *)
LEMMA SafeStep ==
    ASSUME IInv, TypeOK', NEW w \in Workers, NEW p, Touches(w, p),
           \A v \in Workers \ {w} : p \in Payouts /\ Owns(v, p) =>
              /\ row'[p].status = row[p].status /\ row'[p].transfer = row[p].transfer
              /\ released'[p] = released[p],
           p \in Payouts /\ row[p].status \in {"PAID", "REVERSED"} =>
              row'[p].status \in {"PAID", "REVERSED"},
           \A q \in Payouts : Owns(w, q)' =>
              row'[q].status = "PROCESSING" /\ \A v \in Workers \ {w} : ~Owns(v, q),
           p \in Payouts => BooksAt(p)' /\ TransferAt(p)',
           IndexHolds(row'), JobSound(w)'
    PROVE  Safe'
  <1>1. ASSUME NEW v \in Workers \ {w} PROVE JobSound(v)'
    <2>1. job'[v] = job[v] /\ JobSound(v) /\ job[v] \in Job
      BY DEF IInv, Safe, TypeOK, Touches
    <2>2. stripe \subseteq stripe'
      BY DEF Touches
    <2>3. CASE job[v].payout = p
      <3>1. job[v].at \notin {"idle", "insert"} => p \in Payouts
        BY <2>1, <2>3 DEF JobSound
      <3>2. job[v].at \in Owning => Owns(v, p)
        BY <2>3 DEF Owns, Owning
      <3>3. job[v].at \in Owning =>
              /\ p \in Payouts
              /\ row'[p].status = row[p].status /\ row'[p].transfer = row[p].transfer
              /\ released'[p] = released[p]
        BY <3>1, <3>2 DEF Owning
      <3>4. QED
        BY <2>1, <2>2, <2>3, <3>1, <3>3 DEF JobSound, At, TransferKey, Owning, Reversing
    <2>4. CASE job[v].payout # p
      <3>1. job[v].at \notin {"idle", "insert"} =>
              /\ row'[job[v].payout] = row[job[v].payout]
              /\ released'[job[v].payout] = released[job[v].payout]
        BY <2>1, <2>4 DEF JobSound, Touches
      <3>2. QED
        BY <2>1, <2>2, <3>1 DEF JobSound, At, TransferKey, Owning, Reversing
    <2>5. QED
      BY <2>3, <2>4
  <1>2. ClaimIsExclusive'
    <2>1. ASSUME NEW v \in Workers, NEW q \in Payouts, Owns(v, q)', v # w
          PROVE  row'[q].status = "PROCESSING" /\ Owns(v, q)
      <3>1. Owns(v, q)
        BY <2>1 DEF Owns, Touches
      <3>2. row[q].status = "PROCESSING"
        BY <3>1 DEF IInv, Safe, ClaimIsExclusive
      <3>3. row'[q].status = row[q].status
        BY <2>1, <3>1 DEF Touches
      <3>4. QED
        BY <3>1, <3>2, <3>3
    <2>2. ASSUME NEW v \in Workers, NEW q \in Payouts, Owns(v, q)',
                 NEW u \in Workers \ {v}, Owns(u, q)'
          PROVE  FALSE
      BY <2>1, <2>2 DEF IInv, Safe, ClaimIsExclusive
    <2>3. ASSUME NEW v \in Workers, NEW q \in Payouts, Owns(v, q)'
          PROVE  row'[q].status = "PROCESSING"
      BY <2>1, <2>3
    <2>4. QED
      BY <2>2, <2>3 DEF ClaimIsExclusive
  <1>3. \A q \in Payouts : BooksAt(q)' /\ TransferAt(q)'
    <2>1. \A q \in Payouts : BooksAt(q) /\ TransferAt(q)
      BY DEF IInv, Safe, BooksMatchStatus, TransferBeforeBooks, BooksAt, TransferAt
    <2>2. ASSUME NEW q \in Payouts \ {p} PROVE BooksAt(q)' /\ TransferAt(q)'
      BY <2>1 DEF BooksAt, TransferAt, Touches
    <2>3. QED
      BY <2>2
  <1>4. BooksMatchStatus' /\ TransferBeforeBooks'
    BY <1>3 DEF BooksMatchStatus, TransferBeforeBooks, BooksAt, TransferAt
  <1>5. IndexHolds(row)'
    BY DEF IndexHolds
  <1>6. QED
    BY <1>1, <1>2, <1>4, <1>5 DEF Safe

LEMMA IndexKept ==
    ASSUME IInv, NEW w \in Workers, NEW p, Touches(w, p),
           p \in Payouts =>
              /\ row'[p].txn = row[p].txn
              /\ row'[p].status \in Active => row[p].status \in Active
    PROVE  IndexHolds(row')
  <1>1. \A q \in Payouts : row'[q].txn = row[q].txn
                           /\ (row'[q].status \in Active => row[q].status \in Active)
    BY DEF Touches
  <1>2. QED
    BY <1>1 DEF IInv, Safe, IndexHolds

(* A handler that has returned owns nothing and relies on nothing. *)
LEMMA DoneSound ==
    ASSUME IInv, NEW w \in Workers, Done(w)
    PROVE  /\ JobSound(w)' /\ \A q \in Payouts : ~Owns(w, q)'
           /\ \A v \in Workers \ {w} : job'[v] = job[v]
  BY DEF IInv, TypeOK, Done, Idle, JobSound, Owns, At, Owning, Reversing

(* A step that writes neither rows nor releases, and claims nothing. *)
LEMMA QuietSafe ==
    ASSUME IInv, TypeOK', NEW w \in Workers,
           UNCHANGED <<row, released, stripe>>,
           \A v \in Workers \ {w} : job'[v] = job[v],
           \A q \in Payouts : Owns(w, q)' => Owns(w, q),
           JobSound(w)'
    PROVE  Safe'
  <1>1. row' = row /\ released' = released /\ stripe' = stripe
    OBVIOUS
  <1>2. PICK p : p = job[w].payout
    OBVIOUS
  <1>3. Touches(w, p)
    BY <1>1 DEF Touches
  <1>4. p \in Payouts => BooksAt(p)' /\ TransferAt(p)'
    BY <1>1 DEF IInv, Safe, BooksMatchStatus, TransferBeforeBooks, BooksAt, TransferAt
  <1>5. \A q \in Payouts : Owns(w, q)' =>
              row'[q].status = "PROCESSING" /\ \A v \in Workers \ {w} : ~Owns(v, q)
    BY <1>1 DEF IInv, Safe, ClaimIsExclusive
  <1>6. IndexHolds(row')
    BY <1>1 DEF IInv, Safe, IndexHolds
  <1>7. QED
    BY <1>1, <1>3, <1>4, <1>5, <1>6, SafeStep

LEMMA CallSafe ==
    ASSUME IInv, TypeOK', NEW w \in Workers, Request(w)
    PROVE  Safe'
  <1>1. ASSUME NEW j, Call(w, j), j.at \in {"insert", "gate", "read", "reset"},
               j.at # "insert" => j.payout \in Payouts
        PROVE  Safe'
    <2>1. /\ UNCHANGED <<row, released, stripe>> /\ job'[w] = j
          /\ \A v \in Workers \ {w} : job'[v] = job[v]
      BY <1>1 DEF Call, IInv, TypeOK, books
    <2>2. JobSound(w)' /\ \A q \in Payouts : ~Owns(w, q)'
      BY <1>1, <2>1 DEF JobSound, Owns, At, Owning, Reversing
    <2>3. QED
      BY <2>1, <2>2, QuietSafe
  <1>2. ASSUME NEW q \in Payouts, ReversePayout(w, q) PROVE Safe'
    <2>1. /\ UNCHANGED <<row, released, stripe>> /\ job'[w] = Reversal(q)
          /\ \A v \in Workers \ {w} : job'[v] = job[v]
      BY <1>2 DEF ReversePayout, Call, IInv, TypeOK, books
    <2>2. Reversal(q).at \in {"pull", "unpost"} /\ Reversal(q).payout = q
      BY DEF Reversal, Idle
    <2>3. row'[q].status = "PAID"
      BY <1>2, <2>1 DEF ReversePayout
    <2>4. JobSound(w)' /\ \A r \in Payouts : ~Owns(w, r)'
      BY <2>1, <2>2, <2>3 DEF JobSound, Owns, At, Owning, Reversing
    <2>5. QED
      BY <2>1, <2>4, QuietSafe
  <1>3. ASSUME CreatePayout(w) PROVE Safe'
    <2>1. PICK t \in Transactions : Call(w, [Idle EXCEPT !.at = "insert", !.txn = t])
      BY <1>3 DEF CreatePayout
    <2>2. QED
      BY <1>1, <2>1 DEF Idle
  <1>4. ASSUME NEW q \in Payouts, NEW s \in {"gate", "read", "reset"},
               Call(w, [Idle EXCEPT !.at = s, !.payout = q])
        PROVE  Safe'
    BY <1>1, <1>4 DEF Idle
  <1>5. QED
    BY <1>2, <1>3, <1>4 DEF Request, MarkEligible, ProcessPayout, RetryPayout, ForceRetry

-------------------------------------------------------------------------------
(* The steps that write nothing the invariant speaks of. *)
LEMMA GotoJob ==
    ASSUME IInv, NEW w \in Workers, NEW s, Goto(w, s)
    PROVE  /\ job'[w].at = s /\ job'[w].payout = job[w].payout
           /\ job'[w].status = job[w].status /\ job'[w].attempt = job[w].attempt
           /\ \A v \in Workers \ {w} : job'[v] = job[v]
  BY DEF IInv, TypeOK, Job, Goto

LEMMA ReadingSafe ==
    ASSUME IInv, TypeOK', NEW w \in Workers,
           Gate(w) \/ ReadForProcessing(w) \/ PullBack(w) \/ Undo(w) \/ Crash(w)
    PROVE  Safe'
  <1> DEFINE p == job[w].payout
  <1>0. /\ UNCHANGED <<row, released, stripe>>
        /\ job \in [Workers -> Job] /\ row \in [Payouts -> Row] /\ JobSound(w)
    BY DEF Gate, ReadForProcessing, PullBack, Undo, Crash, books, IInv, Safe, TypeOK
  <1>1. CASE Done(w)
    BY <1>0, <1>1, DoneSound, QuietSafe
  <1>2. ASSUME Gate(w), ~Done(w) PROVE Safe'
    <2>1. p \in Payouts
      BY <1>0, <1>2 DEF JobSound, Gate, At
    <2>2. job'[w].at = "grant" /\ job'[w].payout = p
          /\ \A v \in Workers \ {w} : job'[v] = job[v]
      BY <1>0, <1>2 DEF Gate, Job
    <2>3. JobSound(w)' /\ \A q \in Payouts : ~Owns(w, q)'
      BY <2>1, <2>2 DEF JobSound, Owns, At, Owning, Reversing
    <2>4. QED
      BY <1>0, <2>2, <2>3, QuietSafe
  <1>3. ASSUME ReadForProcessing(w), ~Done(w) PROVE Safe'
    <2>1. p \in Payouts
      BY <1>0, <1>3 DEF JobSound, ReadForProcessing, At
    <2>2. <<row[p].status, "PROCESSING">> \in ValidTransitions
      BY <1>3 DEF ReadForProcessing
    <2>3. row[p].status \in {"ELIGIBLE", "FAILED"}
      BY <2>2 DEF ValidTransitions
    <2>4. /\ job'[w].at = "claim" /\ job'[w].payout = p
          /\ job'[w].status = row[p].status /\ job'[w].attempt = row[p].attempts + 1
          /\ \A v \in Workers \ {w} : job'[v] = job[v]
      BY <1>0, <1>3 DEF ReadForProcessing, Job
    <2>5. job'[w].attempt > 0
      BY <1>0, <2>1, <2>4 DEF Row
    <2>6. JobSound(w)' /\ \A q \in Payouts : ~Owns(w, q)'
      BY <2>1, <2>3, <2>4, <2>5 DEF JobSound, Owns, At, Owning, Reversing
    <2>7. QED
      BY <1>0, <2>4, <2>6, QuietSafe
  <1>4. ASSUME PullBack(w) \/ Undo(w), ~Done(w) PROVE Safe'
    <2>1. p \in Payouts /\ row[p].status \in {"PAID", "REVERSED"}
      BY <1>0, <1>4 DEF JobSound, PullBack, Undo, At, Reversing
    <2>2. PICK s \in {"unpost", "reversed"} : Goto(w, s)
      BY <1>4 DEF PullBack, Undo
    <2>3. JobSound(w)' /\ \A q \in Payouts : ~Owns(w, q)'
      BY <1>0, <2>1, <2>2, GotoJob DEF JobSound, Owns, At, Owning, Reversing
    <2>4. QED
      BY <1>0, <2>2, <2>3, GotoJob, QuietSafe
  <1>5. QED
    BY <1>1, <1>2, <1>3, <1>4 DEF Crash

-------------------------------------------------------------------------------
(* The steps that write the handler's own row. *)
LEMMA InsertSafe ==
    ASSUME IInv, TypeOK', NEW w \in Workers, InsertPayout(w)
    PROVE  Safe'
  <1>0. /\ Done(w) /\ released' = released /\ stripe' = stripe
        /\ row \in [Payouts -> Row]
    BY DEF InsertPayout, books, IInv, TypeOK
  <1>1. CASE row' = row
    BY <1>0, <1>1, DoneSound, QuietSafe
  <1>2. ASSUME NEW p \in Payouts, IsNextId(p), IndexHolds(row'),
               row' = [row EXCEPT ![p].status = "PENDING", ![p].txn = job[w].txn]
        PROVE  Safe'
    <2>1. row[p].status = "NONE"
      BY <1>2 DEF IsNextId
    <2>2. row'[p].status = "PENDING" /\ \A q \in Payouts \ {p} : row'[q] = row[q]
      BY <1>0, <1>2 DEF Row
    <2>3. \A v \in Workers : ~Owns(v, p)
      BY <2>1 DEF IInv, Safe, ClaimIsExclusive
    <2>4. released[p] = 0
      BY <2>1 DEF IInv, Safe, BooksMatchStatus
    <2>5. BooksAt(p)' /\ TransferAt(p)'
      BY <1>0, <2>2, <2>4 DEF BooksAt, TransferAt
    <2>6. Touches(w, p)
      BY <1>0, <2>2, DoneSound DEF Touches
    <2>7. QED
      BY <1>0, <1>2, <2>1, <2>3, <2>5, <2>6, DoneSound, SafeStep
  <1>3. QED
    BY <1>1, <1>2 DEF InsertPayout

LEMMA GrantSafe ==
    ASSUME IInv, TypeOK', NEW w \in Workers, Grant(w)
    PROVE  Safe'
  <1>0. /\ Done(w) /\ released' = released /\ stripe' = stripe
        /\ row \in [Payouts -> Row] /\ JobSound(w)
    BY DEF Grant, books, IInv, Safe, TypeOK
  <1>1. PICK p : p = job[w].payout
    OBVIOUS
  <1>2. p \in Payouts
    BY <1>0, <1>1 DEF Grant, At, JobSound
  <1>3. CASE row' = row
    BY <1>0, <1>3, DoneSound, QuietSafe
  <1>4. CASE /\ row[p].status = "PENDING"
             /\ row' = [row EXCEPT ![p].status = "ELIGIBLE", ![p].review = job[w].review]
    <2>1. /\ row'[p].status = "ELIGIBLE" /\ row'[p].txn = row[p].txn
          /\ \A q \in Payouts \ {p} : row'[q] = row[q]
      BY <1>0, <1>2, <1>4 DEF Row
    <2>2. \A v \in Workers : ~Owns(v, p)
      BY <1>2, <1>4 DEF IInv, Safe, ClaimIsExclusive
    <2>3. released[p] = 0
      BY <1>2, <1>4 DEF IInv, Safe, BooksMatchStatus
    <2>4. BooksAt(p)' /\ TransferAt(p)'
      BY <1>0, <2>1, <2>3 DEF BooksAt, TransferAt
    <2>5. Touches(w, p)
      BY <1>0, <2>1, DoneSound DEF Touches
    <2>6. IndexHolds(row')
      BY <1>4, <2>1, <2>5, IndexKept DEF Active
    <2>7. QED
      BY <1>0, <1>4, <2>2, <2>4, <2>5, <2>6, DoneSound, SafeStep
  <1>5. QED
    BY <1>1, <1>3, <1>4 DEF Grant, StillPending

LEMMA ResetSafe ==
    ASSUME IInv, TypeOK', NEW w \in Workers, ResetAttempts(w)
    PROVE  Safe'
  <1>0. /\ Goto(w, "read") /\ released' = released /\ stripe' = stripe
        /\ row \in [Payouts -> Row] /\ JobSound(w)
    BY DEF ResetAttempts, books, IInv, Safe, TypeOK
  <1>1. PICK p : p = job[w].payout
    OBVIOUS
  <1>2. p \in Payouts
    BY <1>0, <1>1 DEF ResetAttempts, At, JobSound
  <1>3. /\ row'[p].status = row[p].status /\ row'[p].txn = row[p].txn
        /\ row'[p].transfer = row[p].transfer
        /\ \A q \in Payouts \ {p} : row'[q] = row[q]
    BY <1>0, <1>1, <1>2 DEF ResetAttempts, Row
  <1>4. Touches(w, p)
    BY <1>0, <1>3, GotoJob DEF Touches
  <1>5. BooksAt(p)' /\ TransferAt(p)'
    BY <1>0, <1>2, <1>3
       DEF IInv, Safe, BooksMatchStatus, TransferBeforeBooks, BooksAt, TransferAt
  <1>6. JobSound(w)' /\ \A q \in Payouts : ~Owns(w, q)'
    <2>1. job'[w].at = "read" /\ job'[w].payout = p
      BY <1>0, <1>1, GotoJob
    <2>2. QED
      BY <1>2, <2>1 DEF JobSound, Owns, At, Owning, Reversing
  <1>7. IndexHolds(row')
    BY <1>3, <1>4, IndexKept
  <1>8. QED
    BY <1>0, <1>3, <1>4, <1>5, <1>6, <1>7, SafeStep

LEMMA ClaimSafe ==
    ASSUME IInv, TypeOK', NEW w \in Workers, Claim(w)
    PROVE  Safe'
  <1>0. /\ released' = released /\ stripe' = stripe
        /\ row \in [Payouts -> Row] /\ JobSound(w)
    BY DEF Claim, books, IInv, Safe, TypeOK
  <1>1. PICK p : p = job[w].payout
    OBVIOUS
  <1>2. /\ p \in Payouts /\ job[w].status \in {"ELIGIBLE", "FAILED"}
        /\ job[w].attempt > 0
    BY <1>0, <1>1 DEF Claim, At, JobSound
  <1>3. CASE row' = row /\ Done(w)
    BY <1>0, <1>3, DoneSound, QuietSafe
  <1>4. CASE /\ Claimable(w) /\ IndexHolds(row') /\ Goto(w, "funds")
             /\ row' = [row EXCEPT ![p].status = "PROCESSING", ![p].attempts = @ + 1]
    <2>1. /\ row'[p].status = "PROCESSING" /\ \A q \in Payouts \ {p} : row'[q] = row[q]
      BY <1>0, <1>2, <1>4 DEF Row
    <2>2. row[p].status \in {"ELIGIBLE", "FAILED"}
      BY <1>1, <1>2, <1>4 DEF Claimable
    <2>3. \A v \in Workers : ~Owns(v, p)
      BY <1>2, <2>2 DEF IInv, Safe, ClaimIsExclusive
    <2>4. released[p] = 0
      BY <1>2, <2>2 DEF IInv, Safe, BooksMatchStatus
    <2>5. BooksAt(p)' /\ TransferAt(p)'
      BY <1>0, <2>1, <2>4 DEF BooksAt, TransferAt
    <2>6. Touches(w, p)
      BY <1>0, <1>4, <2>1, GotoJob DEF Touches
    <2>7. /\ JobSound(w)'
          /\ \A q \in Payouts : Owns(w, q)' => q = p
      <3>1. /\ job'[w].at = "funds" /\ job'[w].payout = p
            /\ job'[w].attempt = job[w].attempt
        BY <1>1, <1>4, GotoJob
      <3>2. QED
        BY <1>0, <1>2, <2>4, <3>1 DEF JobSound, Owns, At, Owning, Reversing
    <2>8. QED
      BY <1>4, <2>1, <2>2, <2>3, <2>5, <2>6, <2>7, SafeStep
  <1>5. QED
    BY <1>1, <1>3, <1>4 DEF Claim

(* What the handler that has claimed a payout may do with its row. *)
LEMMA OwnerSafe ==
    ASSUME IInv, TypeOK', NEW w \in Workers, NEW p \in Payouts, Owns(w, p),
           Touches(w, p), row'[p].txn = row[p].txn, BooksAt(p)', TransferAt(p)',
           \A q \in Payouts : Owns(w, q)' => q = p /\ row'[p].status = "PROCESSING",
           JobSound(w)'
    PROVE  Safe'
  <1>1. row[p].status = "PROCESSING" /\ \A v \in Workers \ {w} : ~Owns(v, p)
    BY DEF IInv, Safe, ClaimIsExclusive
  <1>2. IndexHolds(row')
    BY <1>1, IndexKept DEF Active
  <1>3. QED
    BY <1>1, <1>2, SafeStep

(* It may give up, if nothing was released. *)
LEMMA FailSafe ==
    ASSUME IInv, TypeOK', NEW w \in Workers, NEW p \in Payouts, Owns(w, p),
           SetStatus(p, "FAILED"), Done(w), released[p] = 0,
           released' = released, stripe \subseteq stripe'
    PROVE  Safe'
  <1>1. /\ row'[p].status = "FAILED" /\ row'[p].txn = row[p].txn
        /\ \A q \in Payouts \ {p} : row'[q] = row[q]
    BY DEF SetStatus, IInv, TypeOK, Row
  <1>2. Touches(w, p)
    BY <1>1, DoneSound DEF Touches
  <1>3. BooksAt(p)' /\ TransferAt(p)'
    BY <1>1 DEF BooksAt, TransferAt
  <1>4. QED
    BY <1>1, <1>2, <1>3, DoneSound, OwnerSafe

(* What holds of a handler between its claim and its outcome. *)
LEMMA OwnerFacts ==
    ASSUME IInv, NEW w \in Workers, NEW p, p = job[w].payout, job[w].at \in Owning
    PROVE  /\ p \in Payouts /\ Owns(w, p) /\ row[p].status = "PROCESSING"
           /\ job[w].attempt > 0
           /\ released[p] = IF At(w, "paid") THEN 1 ELSE 0
           /\ row \in [Payouts -> Row]
  <1>1. JobSound(w) /\ job[w].at \notin {"idle", "insert"}
    BY DEF IInv, Safe, Owning
  <1>2. p \in Payouts /\ Owns(w, p)
    BY <1>1 DEF JobSound, Owns, Owning
  <1>3. QED
    BY <1>1, <1>2 DEF IInv, Safe, TypeOK, ClaimIsExclusive, JobSound, At, Owning

LEMMA CheckEscrowSafe ==
    ASSUME IInv, TypeOK', NEW w \in Workers, CheckEscrow(w)
    PROVE  Safe'
  <1>0. At(w, "funds") /\ released' = released /\ stripe' = stripe
    BY DEF CheckEscrow, books
  <1>1. PICK p : p = job[w].payout
    OBVIOUS
  <1>2. /\ p \in Payouts /\ Owns(w, p) /\ job[w].attempt > 0 /\ released[p] = 0
    BY <1>0, <1>1, OwnerFacts DEF At, Owning
  <1>3. CASE SetStatus(p, "FAILED") /\ Done(w)
    BY <1>0, <1>2, <1>3, FailSafe
  <1>4. CASE row' = row /\ Goto(w, "transfer")
    <2>1. /\ job'[w].at = "transfer" /\ job'[w].payout = p
          /\ job'[w].attempt = job[w].attempt
          /\ \A v \in Workers \ {w} : job'[v] = job[v]
      BY <1>1, <1>4, GotoJob
    <2>2. JobSound(w)' /\ \A q \in Payouts : Owns(w, q)' => Owns(w, q)
      BY <1>0, <1>2, <1>4, <2>1 DEF JobSound, Owns, At, Owning, Reversing
    <2>3. QED
      BY <1>0, <1>4, <2>1, <2>2, QuietSafe
  <1>5. QED
    BY <1>1, <1>3, <1>4 DEF CheckEscrow

LEMMA TransferSafe ==
    ASSUME IInv, TypeOK', NEW w \in Workers, Transfer(w)
    PROVE  Safe'
  <1>0. At(w, "transfer") /\ released' = released
    BY DEF Transfer, books
  <1>1. PICK p : p = job[w].payout
    OBVIOUS
  <1>2. /\ p \in Payouts /\ Owns(w, p) /\ row[p].status = "PROCESSING"
        /\ job[w].attempt > 0 /\ released[p] = 0
    BY <1>0, <1>1, OwnerFacts DEF At, Owning
  <1>3. PICK outcome \in {"moved", "refused", "none"}, answered \in BOOLEAN :
          /\ stripe' = IF outcome = "none" THEN stripe
                       ELSE stripe \cup {<<TransferKey(w), outcome>>}
          /\ IF Accepted(answered, outcome)
             THEN row' = row /\ Goto(w, "persist")
             ELSE SetStatus(p, "FAILED") /\ Done(w)
    BY <1>1 DEF Transfer
  <1>4. stripe \subseteq stripe'
    BY <1>3
  <1>5. CASE ~Accepted(answered, outcome)
    BY <1>0, <1>2, <1>3, <1>4, <1>5, FailSafe
  <1>6. CASE Accepted(answered, outcome)
    <2>1. row' = row /\ Goto(w, "persist")
      BY <1>3, <1>6
    <2>2. <<TransferKey(w), "moved">> \in stripe'
      BY <1>3, <1>6 DEF Accepted
    <2>3. /\ job'[w].at = "persist" /\ job'[w].payout = p
          /\ job'[w].attempt = job[w].attempt
          /\ \A v \in Workers \ {w} : job'[v] = job[v]
      BY <1>1, <2>1, GotoJob
    <2>4. /\ JobSound(w)'
          /\ \A q \in Payouts : Owns(w, q)' => q = p /\ row'[p].status = "PROCESSING"
      BY <1>0, <1>1, <1>2, <2>1, <2>2, <2>3
         DEF JobSound, Owns, At, Owning, Reversing, TransferKey
    <2>5. Touches(w, p)
      BY <1>0, <1>4, <2>1, <2>3 DEF Touches
    <2>6. BooksAt(p)' /\ TransferAt(p)'
      BY <1>0, <1>2, <2>1 DEF BooksAt, TransferAt
    <2>7. QED
      BY <1>2, <2>1, <2>4, <2>5, <2>6, OwnerSafe
  <1>7. QED
    BY <1>5, <1>6

LEMMA PersistSafe ==
    ASSUME IInv, TypeOK', NEW w \in Workers, PersistTransfer(w)
    PROVE  Safe'
  <1>0. /\ At(w, "persist") /\ released' = released /\ stripe' = stripe
        /\ Goto(w, "post")
    BY DEF PersistTransfer, books
  <1>1. PICK p : p = job[w].payout
    OBVIOUS
  <1>2. /\ p \in Payouts /\ Owns(w, p) /\ row[p].status = "PROCESSING"
        /\ job[w].attempt > 0 /\ released[p] = 0 /\ row \in [Payouts -> Row]
    BY <1>0, <1>1, OwnerFacts DEF At, Owning
  <1>3. <<<<p, job[w].attempt>>, "moved">> \in stripe
    BY <1>0, <1>1 DEF IInv, Safe, JobSound, TransferKey
  <1>4. /\ row'[p].status = "PROCESSING" /\ row'[p].txn = row[p].txn
        /\ row'[p].transfer = job[w].attempt
        /\ \A q \in Payouts \ {p} : row'[q] = row[q]
    BY <1>1, <1>2 DEF PersistTransfer, Row
  <1>5. /\ job'[w].at = "post" /\ job'[w].payout = p
        /\ job'[w].attempt = job[w].attempt
        /\ \A v \in Workers \ {w} : job'[v] = job[v]
    BY <1>0, <1>1, GotoJob
  <1>6. /\ JobSound(w)'
        /\ \A q \in Payouts : Owns(w, q)' => q = p /\ row'[p].status = "PROCESSING"
    BY <1>0, <1>2, <1>3, <1>4, <1>5 DEF JobSound, Owns, At, Owning, Reversing
  <1>7. Touches(w, p)
    BY <1>0, <1>4, <1>5 DEF Touches
  <1>8. BooksAt(p)' /\ TransferAt(p)'
    BY <1>0, <1>2, <1>4 DEF BooksAt, TransferAt
  <1>9. QED
    BY <1>2, <1>4, <1>6, <1>7, <1>8, OwnerSafe

LEMMA ReleaseSafe ==
    ASSUME IInv, TypeOK', NEW w \in Workers, Release(w)
    PROVE  Safe'
  <1>0. /\ At(w, "post") /\ stripe' = stripe
    BY DEF Release
  <1>1. PICK p : p = job[w].payout
    OBVIOUS
  <1>2. /\ p \in Payouts /\ Owns(w, p) /\ row[p].status = "PROCESSING"
        /\ job[w].attempt > 0 /\ released[p] = 0
    BY <1>0, <1>1, OwnerFacts DEF At, Owning
  <1>3. row[p].transfer > 0 /\ <<<<p, row[p].transfer>>, "moved">> \in stripe
    BY <1>0, <1>1 DEF IInv, Safe, JobSound, At
  <1>4. CASE SetStatus(p, "FAILED") /\ Done(w) /\ released' = released
    BY <1>0, <1>2, <1>4, FailSafe
  <1>5. CASE /\ released' = [released EXCEPT ![p] = @ + 1]
             /\ Goto(w, "paid") /\ row' = row
    <2>1. /\ released'[p] = 1 /\ \A q \in Payouts \ {p} : released'[q] = released[q]
      BY <1>2, <1>5 DEF IInv, TypeOK
    <2>2. /\ job'[w].at = "paid" /\ job'[w].payout = p
          /\ job'[w].attempt = job[w].attempt
          /\ \A v \in Workers \ {w} : job'[v] = job[v]
      BY <1>1, <1>5, GotoJob
    <2>3. /\ JobSound(w)'
          /\ \A q \in Payouts : Owns(w, q)' => q = p /\ row'[p].status = "PROCESSING"
      BY <1>0, <1>2, <1>3, <1>5, <2>1, <2>2 DEF JobSound, Owns, At, Owning, Reversing
    <2>4. Touches(w, p)
      BY <1>0, <1>5, <2>1, <2>2 DEF Touches
    <2>5. BooksAt(p)' /\ TransferAt(p)'
      BY <1>0, <1>2, <1>3, <1>5, <2>1 DEF BooksAt, TransferAt
    <2>6. QED
      BY <1>2, <1>5, <2>3, <2>4, <2>5, OwnerSafe
  <1>6. QED
    BY <1>1, <1>4, <1>5 DEF Release

LEMMA MarkPaidSafe ==
    ASSUME IInv, TypeOK', NEW w \in Workers, MarkPaid(w)
    PROVE  Safe'
  <1>0. /\ At(w, "paid") /\ released' = released /\ stripe' = stripe /\ Done(w)
    BY DEF MarkPaid, books
  <1>1. PICK p : p = job[w].payout
    OBVIOUS
  <1>2. p \in Payouts /\ Owns(w, p) /\ released[p] = 1 /\ row \in [Payouts -> Row]
    BY <1>0, <1>1, OwnerFacts DEF At, Owning
  <1>3. row[p].transfer > 0 /\ <<<<p, row[p].transfer>>, "moved">> \in stripe
    BY <1>0, <1>1 DEF IInv, Safe, JobSound, At
  <1>4. /\ row'[p].status = "PAID" /\ row'[p].txn = row[p].txn
        /\ row'[p].transfer = row[p].transfer
        /\ \A q \in Payouts \ {p} : row'[q] = row[q]
    BY <1>1, <1>2 DEF MarkPaid, SetStatus, Row
  <1>5. Touches(w, p)
    BY <1>0, <1>4, DoneSound DEF Touches
  <1>6. BooksAt(p)' /\ TransferAt(p)'
    BY <1>0, <1>2, <1>3, <1>4 DEF BooksAt, TransferAt
  <1>7. QED
    BY <1>0, <1>2, <1>4, <1>5, <1>6, DoneSound, OwnerSafe

LEMMA MarkReversedSafe ==
    ASSUME IInv, TypeOK', NEW w \in Workers, MarkReversed(w)
    PROVE  Safe'
  <1>0. /\ At(w, "reversed") /\ released' = released /\ stripe' = stripe /\ Done(w)
        /\ row \in [Payouts -> Row] /\ JobSound(w)
    BY DEF MarkReversed, books, IInv, Safe, TypeOK
  <1>1. PICK p : p = job[w].payout
    OBVIOUS
  <1>2. p \in Payouts /\ row[p].status \in {"PAID", "REVERSED"}
    BY <1>0, <1>1 DEF JobSound, At, Reversing
  <1>3. /\ row'[p].status = "REVERSED" /\ row'[p].txn = row[p].txn
        /\ row'[p].transfer = row[p].transfer
        /\ \A q \in Payouts \ {p} : row'[q] = row[q]
    BY <1>0, <1>1, <1>2 DEF MarkReversed, SetStatus, Row
  <1>4. \A v \in Workers : ~Owns(v, p)
    BY <1>2 DEF IInv, Safe, ClaimIsExclusive
  <1>5. Touches(w, p)
    BY <1>0, <1>3, DoneSound DEF Touches
  <1>6. released[p] = 1 /\ TransferAt(p)
    BY <1>2 DEF IInv, Safe, BooksMatchStatus, TransferBeforeBooks, TransferAt
  <1>7. BooksAt(p)' /\ TransferAt(p)'
    BY <1>0, <1>3, <1>6 DEF BooksAt, TransferAt
  <1>8. IndexHolds(row')
    BY <1>3, <1>5, IndexKept DEF Active
  <1>9. QED
    BY <1>0, <1>3, <1>4, <1>5, <1>7, <1>8, DoneSound, SafeStep

-------------------------------------------------------------------------------
LEMMA NextInv == IInv /\ [Next]_payoutVars => IInv'
  <1> SUFFICES ASSUME IInv, [Next]_payoutVars PROVE IInv'
    OBVIOUS
  <1>1. CASE UNCHANGED payoutVars
    BY <1>1 DEF payoutVars, books, IInv, Safe, TypeOK, ClaimIsExclusive, Owns,
       BooksMatchStatus, TransferBeforeBooks, IndexHolds, JobSound, At, TransferKey
  <1>2. ASSUME NEW w \in Workers, Request(w) PROVE IInv'
    <2>1. TypeOK'
      BY <1>2, RequestType DEF IInv
    <2>2. QED
      BY <1>2, <2>1, CallSafe DEF IInv
  <1>3. ASSUME NEW w \in Workers, Step(w) \/ Crash(w) PROVE IInv'
    <2>0. TypeOK /\ JobSound(w)
      BY DEF IInv, Safe
    <2>1. TypeOK'
      BY <1>3, <2>0, StepType DEF JobSound
    <2>2. Safe'
      BY <1>3, <2>1, InsertSafe, GrantSafe, ResetSafe, ClaimSafe, CheckEscrowSafe,
         TransferSafe, PersistSafe, ReleaseSafe, MarkPaidSafe, MarkReversedSafe,
         ReadingSafe DEF Step
    <2>3. QED
      BY <2>1, <2>2 DEF IInv
  <1>4. QED
    BY <1>1, <1>2, <1>3 DEF Next

(* The strengthened invariant holds throughout. *)
THEOREM PayoutInvariance == Spec => []IInv
  <1>1. QED
    BY InitInv, NextInv, PTL DEF Spec

(* payout.service.ts: rows, jobs, books and Stripe's memory keep their types. *)
THEOREM PayoutTypeCorrect == Spec => []TypeOK
  <1>1. IInv => TypeOK
    BY DEF IInv
  <1>2. QED
    BY <1>1, PayoutInvariance, PTL

(* payout.service.ts:232-247: however many handlers race for a payout, one of *)
(* them owns it, and it stays in PROCESSING as long as that one works on it.  *)
THEOREM ExclusiveClaims == Spec => []ClaimIsExclusive
  <1>1. IInv => ClaimIsExclusive
    BY DEF IInv, Safe
  <1>2. QED
    BY <1>1, PayoutInvariance, PTL

(* payout.service.ts:224-331: retries, concurrent calls and crashes never     *)
(* release the money of a payout twice, nor report it paid without a release. *)
THEOREM ReleasedOnce == Spec => []BooksMatchStatus
  <1>1. IInv => BooksMatchStatus
    BY DEF IInv, Safe
  <1>2. QED
    BY <1>1, PayoutInvariance, PTL

(* payout.service.ts:249-300: a release in the books has a transfer of Stripe *)
(* behind it, the one the row names.                                          *)
THEOREM TransferFirst == Spec => []TransferBeforeBooks
  <1>1. IInv => TransferBeforeBooks
    BY DEF IInv, Safe
  <1>2. QED
    BY <1>1, PayoutInvariance, PTL

(* The unique index, as a count. *)
LEMMA IndexCounts ==
    ASSUME IndexHolds(row), NEW t \in Transactions
    PROVE  Cardinality({p \in Payouts : row[p].txn = t /\ row[p].status \in Active}) <= 1
  <1> DEFINE S == {p \in Payouts : row[p].txn = t /\ row[p].status \in Active}
  <1> SUFFICES Cardinality(S) <= 1
    OBVIOUS
  <1>1. \A p, q \in S : p = q
    BY DEF IndexHolds
  <1> HIDE DEF S
  <1>2. CASE S = {}
    <2>1. Cardinality({}) = 0
      BY FS_EmptySet
    <2>2. QED
      BY <1>2, <2>1
  <1>3. CASE S # {}
    <2>1. PICK p \in S : TRUE
      BY <1>3
    <2>2. S = {p}
      BY <1>1, <2>1
    <2>3. Cardinality({p}) = 1
      BY FS_Singleton
    <2>4. QED
      BY <2>2, <2>3
  <1>4. QED
    BY <1>2, <1>3

(* Payout_active_per_transaction: the unchecked overlap of two createPayout   *)
(* calls, and a retry next to a successor, leave one active payout at most.   *)
THEOREM OneActive == Spec => []OneActivePayout
  <1>1. IInv => OneActivePayout
    BY IndexCounts DEF IInv, Safe, OneActivePayout
  <1>2. QED
    BY <1>1, PayoutInvariance, PTL

-------------------------------------------------------------------------------
(* A step that sets one row's status. *)
LEMMA MoveIsLegal ==
    ASSUME IInv, NEW p \in Payouts, NEW s, SetStatus(p, s),
           <<row[p].status, s>> \in ValidTransitions \/ row[p].status = s
    PROVE  \A q \in Payouts : row'[q].status # row[q].status =>
              <<row[q].status, row'[q].status>> \in ValidTransitions
  BY DEF IInv, TypeOK, Row, SetStatus

LEMMA StepIsLegal ==
    ASSUME IInv, NEW w \in Workers, Step(w),
           NEW q \in Payouts, row'[q].status # row[q].status
    PROVE  \/ <<row[q].status, row'[q].status>> \in ValidTransitions
           \/ /\ row[q].status = "NONE" /\ row'[q].status = "PENDING"
              /\ InsertPayout(w)
  <1>0. row \in [Payouts -> Row] /\ JobSound(w)
    BY DEF IInv, Safe, TypeOK
  <1>1. PICK p : p = job[w].payout
    OBVIOUS
  <1>2. job[w].at \notin {"idle", "insert"} => p \in Payouts
    BY <1>0, <1>1 DEF JobSound
  <1>3. CASE InsertPayout(w)
    BY <1>0, <1>3 DEF InsertPayout, IsNextId, Row
  <1>4. CASE Grant(w)
    <2>1. p \in Payouts
      BY <1>2, <1>4 DEF Grant, At
    <2>2. /\ row[p].status = "PENDING"
          /\ row' = [row EXCEPT ![p].status = "ELIGIBLE", ![p].review = job[w].review]
      BY <1>1, <1>4 DEF Grant, StillPending
    <2>3. row'[q].status = IF q = p THEN "ELIGIBLE" ELSE row[q].status
      BY <1>0, <2>1, <2>2 DEF Row
    <2>4. QED
      BY <2>2, <2>3 DEF ValidTransitions
  <1>5. CASE ResetAttempts(w)
    BY <1>0, <1>5 DEF ResetAttempts, Row
  <1>6. CASE Claim(w)
    <2>1. p \in Payouts /\ job[w].status \in {"ELIGIBLE", "FAILED"}
      BY <1>0, <1>1, <1>6 DEF Claim, At, JobSound
    <2>2. /\ row[p].status \in {"ELIGIBLE", "FAILED"}
          /\ row' = [row EXCEPT ![p].status = "PROCESSING", ![p].attempts = @ + 1]
      BY <1>1, <1>6, <2>1 DEF Claim, Claimable
    <2>3. row'[q].status = IF q = p THEN "PROCESSING" ELSE row[q].status
      BY <1>0, <2>1, <2>2 DEF Row
    <2>4. QED
      BY <2>2, <2>3 DEF ValidTransitions
  <1>7. ASSUME CheckEscrow(w) \/ Transfer(w) \/ Release(w) \/ MarkPaid(w)
        PROVE  <<row[q].status, row'[q].status>> \in ValidTransitions
    <2>1. p \in Payouts /\ row[p].status = "PROCESSING"
      BY <1>1, <1>7, OwnerFacts DEF CheckEscrow, Transfer, Release, MarkPaid, At, Owning
    <2>2. PICK s \in {"FAILED", "PAID"} : SetStatus(p, s)
      BY <1>1, <1>7 DEF CheckEscrow, Transfer, Release, MarkPaid
    <2>3. QED
      BY <2>1, <2>2, MoveIsLegal DEF ValidTransitions
  <1>8. CASE PersistTransfer(w)
    BY <1>0, <1>8 DEF PersistTransfer, Row
  <1>9. CASE MarkReversed(w)
    <2>1. p \in Payouts /\ row[p].status \in {"PAID", "REVERSED"}
      BY <1>0, <1>1, <1>9 DEF MarkReversed, At, JobSound, Reversing
    <2>2. SetStatus(p, "REVERSED")
      BY <1>1, <1>9 DEF MarkReversed
    <2>3. QED
      BY <2>1, <2>2, MoveIsLegal DEF ValidTransitions
  <1>10. CASE Gate(w) \/ ReadForProcessing(w) \/ PullBack(w) \/ Undo(w)
    BY <1>10 DEF Gate, ReadForProcessing, PullBack, Undo
  <1>11. QED
    BY <1>3, <1>4, <1>5, <1>6, <1>7, <1>8, <1>9, <1>10 DEF Step

(* payout-state-machine.ts:4: no interleaving of handlers, whose updates name *)
(* the row by its id alone, moves a payout outside VALID_TRANSITIONS.         *)
THEOREM LegalSteps == Spec => LegalTransitions
  <1>1. IInv /\ [Next]_payoutVars =>
          [\A p \in Payouts : row'[p].status # row[p].status =>
             \/ <<row[p].status, row'[p].status>> \in ValidTransitions
             \/ row[p].status = "NONE" /\ row'[p].status = "PENDING"]_payoutVars
    <2> DEFINE Legal(q) == row'[q].status # row[q].status =>
                  \/ <<row[q].status, row'[q].status>> \in ValidTransitions
                  \/ row[q].status = "NONE" /\ row'[q].status = "PENDING"
    <2>1. ASSUME IInv, NEW w \in Workers, Request(w) \/ Crash(w), NEW q \in Payouts
          PROVE  Legal(q)
      BY <2>1 DEF Request, CreatePayout, MarkEligible, ProcessPayout, RetryPayout,
                  ForceRetry, ReversePayout, Call, Crash
    <2>2. ASSUME IInv, NEW w \in Workers, Step(w), NEW q \in Payouts
          PROVE  Legal(q)
      BY <2>2, StepIsLegal
    <2>3. QED
      BY <2>1, <2>2 DEF Next
  <1>2. QED
    BY <1>1, PayoutInvariance, PTL DEF Spec, LegalTransitions

-------------------------------------------------------------------------------
(* Rows have amounts that are stored as they were computed, and Stripe moves  *)
(* money only where there is some.                                            *)
RowsStorable  == \A p \in Payouts : row[p].status # "NONE" => Storable
MovedPositive == \A seen \in stripe : seen[2] = "moved" => SellerAmount > 0

MoneySound == RowsStorable /\ MovedPositive

(* What the ledger is about to be asked for, it does not refuse for its amounts. *)
AmountsAccepted ==
    \A w \in Workers : job[w].at \in {"post", "unpost"} => Accountable

(* A step that creates no row and has nothing moved. *)
LEMMA MoneyKept ==
    ASSUME MoneySound, stripe' = stripe,
           \A p \in Payouts : row'[p].status # "NONE" => row[p].status # "NONE"
    PROVE  MoneySound'
  BY DEF MoneySound, RowsStorable, MovedPositive

LEMMA MoneyStep ==
    ASSUME IInv, MoneySound, NEW w \in Workers, Step(w)
    PROVE  MoneySound'
  <1>1. CASE InsertPayout(w)
    <2>1. stripe' = stripe
      BY <1>1 DEF InsertPayout
    <2>2. CASE Storable
      BY <2>1, <2>2 DEF MoneySound, RowsStorable, MovedPositive
    <2>3. CASE row' = row
      BY <2>1, <2>3, MoneyKept
    <2>4. QED
      BY <1>1, <2>2, <2>3 DEF InsertPayout
  <1>2. ASSUME ~InsertPayout(w), NEW q \in Payouts, row'[q].status # "NONE"
        PROVE  row[q].status # "NONE"
    BY <1>2, StepIsLegal DEF ValidTransitions
  <1>3. CASE Transfer(w)
    <2>1. RowsStorable'
      BY <1>2, <1>3 DEF MoneySound, RowsStorable, Transfer, InsertPayout, At
    <2>2. PICK outcome \in {"moved", "refused", "none"} :
             /\ outcome = "moved" => SellerAmount > 0
             /\ stripe' = IF outcome = "none" THEN stripe
                          ELSE stripe \cup {<<TransferKey(w), outcome>>}
      BY <1>3 DEF Transfer
    <2>3. MovedPositive'
      BY <2>2 DEF MoneySound, MovedPositive
    <2>4. QED
      BY <2>1, <2>3 DEF MoneySound
  <1>4. CASE ~InsertPayout(w) /\ ~Transfer(w)
    <2>1. stripe' = stripe
      BY <1>4 DEF Step, Gate, Grant, ResetAttempts, ReadForProcessing, Claim, CheckEscrow,
                  PersistTransfer, Release, MarkPaid, PullBack, Undo, MarkReversed
    <2>2. QED
      BY <1>2, <1>4, <2>1, MoneyKept
  <1>5. QED
    BY <1>1, <1>3, <1>4

LEMMA MoneyNext == IInv /\ MoneySound /\ [Next]_payoutVars => MoneySound'
  <1> SUFFICES ASSUME IInv, MoneySound, [Next]_payoutVars PROVE MoneySound'
    OBVIOUS
  <1>1. ASSUME NEW w \in Workers, Request(w) \/ Crash(w) PROVE row' = row /\ stripe' = stripe
    BY <1>1 DEF Request, CreatePayout, MarkEligible, ProcessPayout, RetryPayout,
                ForceRetry, ReversePayout, Call, Crash
  <1>2. CASE row' = row /\ stripe' = stripe
    BY <1>2, MoneyKept
  <1>3. QED
    BY <1>1, <1>2, MoneyStep DEF Next, payoutVars

(* A row that may be released or undone has had its share moved by Stripe. *)
LEMMA MovedFirst ==
    ASSUME IInv, NEW w \in Workers, job[w].at \in {"post", "unpost"}
    PROVE  \E p \in Payouts : /\ row[p].status # "NONE"
                              /\ \E seen \in stripe : seen[2] = "moved"
  <1>1. JobSound(w)
    BY DEF IInv, Safe
  <1>2. PICK p \in Payouts : p = job[w].payout
    BY <1>1 DEF JobSound
  <1>3. CASE job[w].at = "post"
    <2>1. Owns(w, p)
      BY <1>2, <1>3 DEF Owns
    <2>2. row[p].status = "PROCESSING"
      BY <2>1 DEF IInv, Safe, ClaimIsExclusive
    <2>3. <<<<p, row[p].transfer>>, "moved">> \in stripe
      BY <1>1, <1>2, <1>3 DEF JobSound
    <2>4. QED
      BY <2>2, <2>3
  <1>4. CASE job[w].at = "unpost"
    <2>1. row[p].status \in {"PAID", "REVERSED"}
      BY <1>1, <1>2, <1>4 DEF JobSound, Reversing
    <2>2. released[p] = 1
      BY <2>1 DEF IInv, Safe, BooksMatchStatus
    <2>3. <<<<p, row[p].transfer>>, "moved">> \in stripe
      BY <2>2 DEF IInv, Safe, TransferBeforeBooks
    <2>4. QED
      BY <2>1, <2>3
  <1>5. QED
    BY <1>3, <1>4

(* With a percentage that is not negative, a split that leaves the seller     *)
(* something and is stored in whole cents passes the ledger's assertions.     *)
LEMMA SplitAccountable ==
    ASSUME PlatformFeePercent >= 0, Storable, SellerAmount > 0
    PROVE  Accountable
  <1>1. PICK percent \in Nat : percent = FeePercent(PlatformFeePercent)
    BY PayoutAssumption DEF FeePercent
  <1>2. PICK m \in Int : m = Amount * percent /\ m >= 0
    BY <1>1, PayoutAssumption
  <1>3. PICK fee \in Int : fee = Split.fee
    BY AmountsType
  <1>4. PICK seller \in Int : seller = Split.sellerAmount
    BY AmountsType
  <1>5. fee + seller = 100 * Amount /\ 2 * m - 100 < 200 * fee
    <2>1. PICK amount \in Int : amount = Amount
      BY PayoutAssumption
    <2>2. PICK split : split = Split
      OBVIOUS
    <2>3. split = CalculateFee(amount, percent)
      BY <1>1, <2>1, <2>2 DEF Split
    <2>4. fee = split.fee /\ seller = split.sellerAmount /\ m = amount * percent
      BY <1>2, <1>3, <1>4, <2>1, <2>2
    <2>5. fee + seller = 100 * amount /\ 2 * m - 100 < 200 * fee /\ 200 * fee <= 2 * m + 100
      BY <2>3, <2>4, SplitIsExact
    <2>6. QED
      BY <2>1, <2>5
  <1>6. fee >= 0
    BY <1>2, <1>5
  <1>7. seller >= 0
    BY <1>4 DEF SellerAmount
  <1>8. QED
    BY <1>3, <1>4, <1>5, <1>6, <1>7 DEF Accountable, IsMinorUnits, Storable

(* payout.service.ts:249-331, ledger.service.ts:253-270: as long as nobody    *)
(* asks for a negative percentage, the ledger never refuses a release, or its *)
(* reversal, for the amounts of the row: the ones that it would refuse were   *)
(* refused before, by the row's columns or by Stripe, and no money has moved. *)
THEOREM NeverRefusedForAmounts ==
    ASSUME PlatformFeePercent >= 0
    PROVE  Spec => []AmountsAccepted
  <1>1. Init => MoneySound
    BY DEF Init, MoneySound, RowsStorable, MovedPositive, NoRow
  <1>2. IInv /\ MoneySound => AmountsAccepted
    BY MovedFirst, SplitAccountable
       DEF MoneySound, RowsStorable, MovedPositive, AmountsAccepted
  <1>3. QED
    BY <1>1, <1>2, InitInv, NextInv, MoneyNext, PTL DEF Spec
===============================================================================
