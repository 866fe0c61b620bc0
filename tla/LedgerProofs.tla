----------------------------- MODULE LedgerProofs -----------------------------
(***************************************************************************)
(* The theorems about Ledger, for any number of sessions, accounts,        *)
(* postings and calls.                                                     *)
(*                                                                         *)
(* NeverOverdrawn is not inductive: a commit subtracts what a check of     *)
(* several steps before has allowed.  What connects the two is that the    *)
(* session holds the row locks of all accounts it has checked              *)
(* (FundsReserved), that no two sessions hold the same lock                *)
(* (LocksExclusive), and that it commits only when no account is left to   *)
(* check (CheckedAll).                                                     *)
(***************************************************************************)
EXTENDS LedgerProperties, Sums, TLAPS

LocksExclusive ==
    \A s, u \in Sessions : s # u => held[s] \cap held[u] = {}

(* The account whose balance is about to be read is locked. *)
LockedNext ==
    \A s \in Sessions : \A a \in todo[s] :
        pc[s] = "balance" /\ IsNext(s, a) => a \in held[s]

(* A session past the loop has checked every account it debits, and its     *)
(* rows refer to existing accounts.                                          *)
CheckedAll ==
    \A s \in Sessions : pc[s] \in {"complete", "commit"} =>
        todo[s] = {} /\ Touched(posting[s]) \subseteq Accounts

(* A session works for a call that passed the checks on its entries. *)
Accepted == \A s \in Sessions : pc[s] # "idle" => Acceptable(posting[s])

IInv ==
    /\ TypeOK
    /\ NeverOverdrawn
    /\ FundsReserved
    /\ LocksExclusive
    /\ LockedNext
    /\ CheckedAll
    /\ Accepted

-------------------------------------------------------------------------------
(* What the operators on entry lists return. *)
LEMMA PostingTypes ==
    ASSUME NEW p \in Postings
    PROVE  /\ Debited(p) \subseteq Nat /\ Touched(p) \subseteq Nat
           /\ \A a : DebitOf(p, a) \in Nat /\ CreditOf(p, a) \in Nat
           /\ \A a : a \notin Debited(p) => DebitOf(p, a) = 0
  <1>1. /\ DOMAIN p.debit \subseteq Nat /\ DOMAIN p.credit \subseteq Nat
        /\ p.debit \in [DOMAIN p.debit -> Nat]
        /\ p.credit \in [DOMAIN p.credit -> Nat]
    BY PostingsAssumption
  <1>2. QED
    BY <1>1 DEF Debited, Touched, DebitOf, CreditOf

(* Row ids are numbers, so that they can be locked in order. *)
LEMMA RowsAreIds == Rows \subseteq Nat
  BY PostingTypes, AccountsAssumption DEF Rows

(* A posting touches rows of the Account table. *)
LEMMA TouchedAreRows == \A p \in Postings : Touched(p) \subseteq Rows
  BY DEF Rows

(* The posting of an idle session is one of the postings. *)
LEMMA AnyPostingType == AnyPosting \in Postings
  BY PostingsAssumption DEF AnyPosting

(* The two lock modes: a locking SELECT excludes another one on the row. *)
LEMMA LockExcludes ==
    ASSUME NEW s \in Sessions, NEW u \in Sessions, NEW a, s # u,
           ~Blocks(u, s, a, AccountLock)
    PROVE  a \notin held[u]
  BY DEF Blocks, AccountLock, Conflicts

-------------------------------------------------------------------------------
(* The initial state satisfies the inductive invariant. *)
LEMMA InitInv == Init => IInv
  <1> SUFFICES ASSUME Init PROVE IInv
    OBVIOUS
  <1>1. TypeOK
    BY AnyPostingType, BoundAssumption DEF Init, TypeOK
  <1>2. QED
    BY <1>1 DEF Init, IInv, NeverOverdrawn, FundsReserved, LocksExclusive,
                LockedNext, CheckedAll, Accepted

-------------------------------------------------------------------------------
(* Each kind of step preserves the invariant. *)
LEMMA BeginInv ==
    ASSUME IInv, NEW s \in Sessions, NEW p \in Postings,
           NEW t \in Transactions \cup {NewRow}, NEW first \in {"lock", "status"},
           Begin(s, p, t, first)
    PROVE  IInv'
  <1> USE DEF IInv, Begin, tables, locks
  <1>1. Touched(p) \subseteq Rows /\ Debited(p) \subseteq Touched(p)
    BY TouchedAreRows DEF Debited, Touched
  <1>2. TypeOK'
    BY <1>1 DEF TypeOK
  <1>3. NeverOverdrawn'
    BY DEF NeverOverdrawn
  <1>4. FundsReserved'
    BY DEF FundsReserved, TypeOK, Covers, Debited
  <1>5. LocksExclusive' /\ LockedNext' /\ CheckedAll' /\ Accepted'
    BY DEF LocksExclusive, LockedNext, CheckedAll, Accepted, TypeOK, IsNext
  <1>6. QED
    BY <1>2, <1>3, <1>4, <1>5

(* A session that ends gives its locks back, and the others keep theirs. *)
LEMMA EndInv ==
    ASSUME IInv, NEW s \in Sessions, End(s)
    PROVE  /\ pc' \in [Sessions -> {"idle", "status", "entries", "lock", "balance",
                                     "complete", "commit"}]
           /\ posting' \in [Sessions -> Postings]
           /\ target' \in [Sessions -> Transactions \cup {NewRow}]
           /\ todo' \in [Sessions -> SUBSET Rows]
           /\ held' \in [Sessions -> SUBSET Accounts]
           /\ shared' \in [Sessions -> SUBSET Accounts]
           /\ calls' \in Nat
           /\ LocksExclusive' /\ LockedNext' /\ CheckedAll' /\ Accepted'
  <1> USE DEF IInv, End
  <1>1. /\ pc' \in [Sessions -> {"idle", "status", "entries", "lock", "balance",
                                 "complete", "commit"}]
        /\ posting' \in [Sessions -> Postings]
        /\ target' \in [Sessions -> Transactions \cup {NewRow}]
        /\ todo' \in [Sessions -> SUBSET Rows]
        /\ held' \in [Sessions -> SUBSET Accounts]
        /\ shared' \in [Sessions -> SUBSET Accounts]
        /\ calls' \in Nat
    BY AnyPostingType DEF TypeOK
  <1>2. LocksExclusive' /\ LockedNext' /\ CheckedAll' /\ Accepted'
    BY DEF LocksExclusive, LockedNext, CheckedAll, Accepted, TypeOK, IsNext
  <1>3. QED
    BY <1>1, <1>2

(* A rollback changes no balance. *)
LEMMA RollbackInv ==
    ASSUME IInv, NEW s \in Sessions, Rollback(s)
    PROVE  IInv'
  <1> USE DEF IInv, Rollback, tables
  <1>1. TypeOK'
    BY EndInv DEF TypeOK
  <1>2. NeverOverdrawn'
    BY DEF NeverOverdrawn
  <1>3. FundsReserved'
    BY DEF FundsReserved, TypeOK, Covers, End
  <1>4. QED
    BY <1>1, <1>2, <1>3, EndInv

(* A statement that only lets the session go on from pc to next. *)
LEMMA ContinueInv ==
    ASSUME IInv, NEW s \in Sessions, NEW next \in {"entries", "lock"},
           pc[s] \in {"status", "entries"},
           Continue(s, next), UNCHANGED <<todo, locks>>
    PROVE  IInv'
  <1> USE DEF IInv, Continue, tables, call, locks
  <1>1. TypeOK' /\ NeverOverdrawn'
    BY DEF TypeOK, NeverOverdrawn
  <1>2. FundsReserved'
    BY DEF FundsReserved, TypeOK, Covers
  <1>3. LocksExclusive' /\ LockedNext' /\ CheckedAll' /\ Accepted'
    BY DEF LocksExclusive, LockedNext, CheckedAll, Accepted, TypeOK, IsNext
  <1>4. QED
    BY <1>1, <1>2, <1>3

(* The two reads of a settlement go on or end it. *)
LEMMA ReadInv ==
    ASSUME IInv, NEW s \in Sessions, ReadStatus(s) \/ CountEntries(s)
    PROVE  IInv'
  <1>1. CASE ReadStatus(s)
    BY <1>1, ContinueInv, RollbackInv DEF ReadStatus
  <1>2. CASE CountEntries(s)
    BY <1>2, ContinueInv, RollbackInv DEF CountEntries
  <1>3. QED
    BY <1>1, <1>2

(* Locking a row: nobody else holds it, and it is the next one to be read. *)
LEMMA LockAccountInv ==
    ASSUME IInv, NEW s \in Sessions, LockAccount(s)
    PROVE  IInv'
  <1> USE DEF IInv, LockAccount, Continue, tables, call
  <1>1. PICK a \in todo[s] :
            /\ IsNext(s, a) /\ Exists(a)
            /\ \A u \in Sessions : ~Blocks(u, s, a, AccountLock)
            /\ held' = [held EXCEPT ![s] = @ \cup {a}]
    OBVIOUS
  <1>2. TypeOK' /\ NeverOverdrawn'
    BY <1>1 DEF TypeOK, NeverOverdrawn, Exists
  <1>3. FundsReserved'
    BY <1>1 DEF FundsReserved, TypeOK, Covers
  <1>4. LocksExclusive'
    BY <1>1, LockExcludes DEF LocksExclusive, TypeOK
  <1>5. LockedNext'
    <2> SUFFICES ASSUME NEW v \in Sessions, NEW b \in todo'[v],
                        pc'[v] = "balance", IsNext(v, b)'
                 PROVE  b \in held'[v]
      BY DEF LockedNext
    <2>1. CASE v = s
      <3>1. a \in Nat /\ b \in Nat /\ a <= b /\ b <= a
        BY <1>1, <2>1, RowsAreIds DEF IsNext, TypeOK
      <3>2. a = b
        BY <3>1
      <3>3. QED
        BY <1>1, <2>1, <3>2 DEF TypeOK
    <2>2. CASE v # s
      BY <1>1, <2>2 DEF LockedNext, TypeOK, IsNext
    <2>3. QED
      BY <2>1, <2>2
  <1>6. CheckedAll' /\ Accepted'
    BY DEF CheckedAll, Accepted, TypeOK
  <1>7. QED
    BY <1>2, <1>3, <1>4, <1>5, <1>6

(* A balance that suffices moves the account into the reserved ones. *)
LEMMA CheckBalanceInv ==
    ASSUME IInv, NEW s \in Sessions, CheckBalance(s)
    PROVE  IInv'
  <1> USE DEF IInv, CheckBalance
  <1>1. PICK a \in todo[s] :
            /\ IsNext(s, a)
            /\ IF Covers(posting[s], a)
               THEN /\ todo' = [todo EXCEPT ![s] = @ \ {a}]
                    /\ Continue(s, "lock") /\ UNCHANGED locks
               ELSE Rollback(s)
    OBVIOUS
  <1>2. CASE ~Covers(posting[s], a)
    BY <1>1, <1>2, RollbackInv
  <1>3. CASE Covers(posting[s], a)
    <2> USE <1>1, <1>3 DEF Continue, tables, call, locks
    <2>1. TypeOK' /\ NeverOverdrawn'
      BY DEF TypeOK, NeverOverdrawn
    <2>2. a \in held[s]
      BY DEF LockedNext
    <2>3. FundsReserved'
      BY <2>2 DEF FundsReserved, TypeOK, Covers
    <2>4. LocksExclusive' /\ LockedNext' /\ CheckedAll' /\ Accepted'
      BY DEF LocksExclusive, LockedNext, CheckedAll, Accepted, TypeOK, IsNext
    <2>5. QED
      BY <2>1, <2>3, <2>4
  <1>4. QED
    BY <1>2, <1>3

(* The insert takes shared locks and writes what nobody else sees yet. *)
LEMMA InsertEntriesInv ==
    ASSUME IInv, NEW s \in Sessions, InsertEntries(s)
    PROVE  IInv'
  <1> USE DEF IInv, InsertEntries, Continue, tables, call
  <1>1. TypeOK' /\ NeverOverdrawn'
    BY DEF TypeOK, NeverOverdrawn
  <1>2. FundsReserved'
    BY DEF FundsReserved, TypeOK, Covers
  <1>3. LocksExclusive' /\ LockedNext' /\ CheckedAll' /\ Accepted'
    BY DEF LocksExclusive, LockedNext, CheckedAll, Accepted, TypeOK, IsNext
  <1>4. QED
    BY <1>1, <1>2, <1>3

(* The update of the status touches no account. *)
LEMMA UpdateStatusInv ==
    ASSUME IInv, NEW s \in Sessions, UpdateStatus(s)
    PROVE  IInv'
  <1> USE DEF IInv, UpdateStatus, Continue, tables, call, locks
  <1>1. TypeOK' /\ NeverOverdrawn'
    BY DEF TypeOK, NeverOverdrawn
  <1>2. FundsReserved'
    BY DEF FundsReserved, TypeOK, Covers
  <1>3. LocksExclusive' /\ LockedNext' /\ CheckedAll' /\ Accepted'
    BY DEF LocksExclusive, LockedNext, CheckedAll, Accepted, TypeOK, IsNext
  <1>4. QED
    BY <1>1, <1>2, <1>3

(* A commit debits only accounts its session has reserved, so it neither     *)
(* overdraws them nor touches what another session has reserved.             *)
LEMMA CommitInv ==
    ASSUME IInv, NEW s \in Sessions, Commit(s)
    PROVE  IInv'
  <1> USE DEF IInv, Commit
  <1>1. /\ posting[s] \in Postings /\ Debited(posting[s]) \subseteq Accounts
        /\ \A a \in Debited(posting[s]) :
              a \in held[s] /\ Covers(posting[s], a)
    BY DEF TypeOK, CheckedAll, FundsReserved, Touched, Debited
  <1>2. \A a \in Accounts :
          /\ balance[a] \in Int
          /\ DebitOf(posting[s], a) \in Nat /\ CreditOf(posting[s], a) \in Nat
          /\ a \notin Debited(posting[s]) => DebitOf(posting[s], a) = 0
          /\ balance'[a] =
                balance[a] + CreditOf(posting[s], a) - DebitOf(posting[s], a)
    BY <1>1, PostingTypes DEF TypeOK, Posted
  <1>3. TypeOK'
    <2>1. balance' \in [Accounts -> Int]
      BY <1>2 DEF Posted
    <2>2. status' \in [Transactions -> {"PENDING", "COMPLETED"}]
      BY DEF TypeOK
    <2>3. settlements' \in [Transactions -> Nat]
      BY DEF TypeOK
    <2>4. QED
      BY <2>1, <2>2, <2>3, EndInv DEF TypeOK
  <1>4. NeverOverdrawn'
    <2> SUFFICES ASSUME NEW a \in Accounts \ AllowNegative
                 PROVE  balance'[a] >= 0
      BY DEF NeverOverdrawn
    <2>1. CASE a \in Debited(posting[s])
      BY <1>1, <1>2, <2>1 DEF Covers
    <2>2. CASE a \notin Debited(posting[s])
      BY <1>2, <2>2 DEF NeverOverdrawn
    <2>3. QED
      BY <2>1, <2>2
  <1>5. FundsReserved'
    <2> SUFFICES ASSUME NEW v \in Sessions, pc'[v] # "idle",
                        NEW a \in ((Debited(posting[v]) \cap Accounts) \ todo[v])'
                 PROVE  a \in held'[v] /\ Covers(posting[v], a)'
      BY DEF FundsReserved
    <2>1. /\ v # s /\ held'[v] = held[v] /\ posting'[v] = posting[v]
          /\ pc'[v] = pc[v] /\ todo'[v] = todo[v]
      BY DEF End, TypeOK
    <2>2. a \in held[v] /\ Covers(posting[v], a)
      BY <2>1 DEF FundsReserved
    <2>3. a \notin Debited(posting[s])
      BY <1>1, <2>1, <2>2 DEF LocksExclusive
    <2>4. a \in Accounts /\ balance[a] \in Int /\ balance'[a] \in Int
          /\ balance'[a] >= balance[a]
      BY <1>2, <2>3
    <2>5. posting[v] \in Postings /\ DebitOf(posting[v], a) \in Nat
      BY PostingTypes DEF TypeOK
    <2>6. DebitOf(posting[v], a)' = DebitOf(posting[v], a)
      BY <2>1 DEF DebitOf
    <2>7. Covers(posting[v], a)'
      BY <2>2, <2>4, <2>5, <2>6 DEF Covers
    <2>8. QED
      BY <2>1, <2>2, <2>7
  <1>6. QED
    BY <1>3, <1>4, <1>5, EndInv

-------------------------------------------------------------------------------
(* Every statement of every session keeps the invariant. *)
LEMMA StepInv ==
    ASSUME IInv, [Next]_vars
    PROVE  IInv'
  <1>1. CASE UNCHANGED vars
    <2> USE <1>1 DEF vars, tables, locks, call, IInv
    <2>1. TypeOK' /\ NeverOverdrawn' /\ FundsReserved'
      BY DEF TypeOK, NeverOverdrawn, FundsReserved, Covers
    <2>2. LocksExclusive' /\ LockedNext' /\ CheckedAll' /\ Accepted'
      BY DEF LocksExclusive, LockedNext, CheckedAll, Accepted, IsNext
    <2>3. QED
      BY <2>1, <2>2
  <1>2. ASSUME NEW s \in Sessions, CreateTransaction(s)
        PROVE  IInv'
    BY <1>2, BeginInv DEF CreateTransaction
  <1>3. ASSUME NEW s \in Sessions, SettleTransaction(s)
        PROVE  IInv'
    BY <1>3, BeginInv, PostingsAssumption DEF SettleTransaction
  <1>4. ASSUME NEW s \in Sessions, Step(s)
        PROVE  IInv'
    <2>1. CASE ReadStatus(s) \/ CountEntries(s)
      BY <2>1, ReadInv
    <2>2. CASE LockAccount(s)
      BY <2>2, LockAccountInv
    <2>3. CASE CheckBalance(s)
      BY <2>3, CheckBalanceInv
    <2>4. CASE AccountMissing(s)
      BY <2>4, RollbackInv DEF AccountMissing
    <2>5. CASE InsertEntries(s)
      BY <2>5, InsertEntriesInv
    <2>6. CASE UpdateStatus(s)
      BY <2>6, UpdateStatusInv
    <2>7. CASE Commit(s)
      BY <2>7, CommitInv
    <2>8. QED
      BY <1>4, <2>1, <2>2, <2>3, <2>4, <2>5, <2>6, <2>7 DEF Step
  <1>5. ASSUME NEW s \in Sessions, Abort(s)
        PROVE  IInv'
    BY <1>5, RollbackInv DEF Abort
  <1>6. QED
    BY <1>1, <1>2, <1>3, <1>4, <1>5 DEF Next

(* The inductive invariant holds of every behaviour. *)
THEOREM Invariance == Spec => []IInv
  BY InitInv, StepInv, PTL DEF Spec

(* Every variable keeps the type of the column or the local it stands for. *)
THEOREM TypeCorrect == Spec => []TypeOK
  <1>1. IInv => TypeOK
    BY DEF IInv
  <1>2. QED
    BY <1>1, Invariance, PTL

(* ledger.service.ts:75-120: the row lock makes the balance check final, so   *)
(* no interleaving of postings overdraws an account that may not go negative. *)
THEOREM NoOverdraft == Spec => []NeverOverdrawn
  <1>1. IInv => NeverOverdrawn
    BY DEF IInv
  <1>2. QED
    BY <1>1, Invariance, PTL

(* ledger.service.ts:98-100: nobody spends the funds a session has checked    *)
(* before that session ends.                                                  *)
THEOREM ReservedUntilEnd == Spec => []FundsReserved
  <1>1. IInv => FundsReserved
    BY DEF IInv
  <1>2. QED
    BY <1>1, Invariance, PTL

-------------------------------------------------------------------------------
(* Balances change in commits only. *)
LEMMA OnlyCommitsPost ==
    ASSUME [Next]_vars
    PROVE  UNCHANGED balance \/ \E s \in Sessions : Commit(s)
  <1>1. ASSUME NEW s \in Sessions, ~Commit(s),
               CreateTransaction(s) \/ SettleTransaction(s) \/ Step(s) \/ Abort(s)
        PROVE  UNCHANGED balance
    BY <1>1 DEF CreateTransaction, SettleTransaction, Begin, Step, Abort, Rollback,
                ReadStatus, CountEntries, LockAccount, CheckBalance, AccountMissing,
                InsertEntries, UpdateStatus, Continue, tables
  <1>2. QED
    BY <1>1 DEF Next, vars, tables

(* Money.  The rows of a commit change the sum of all balances by their      *)
(* credits minus their debits: every row is on an account of the table       *)
(* (CheckedAll), and the two totals were compared before (Accepted).         *)
LEMMA PostedSum ==
    ASSUME TypeOK, NEW p \in Postings, Touched(p) \subseteq Accounts
    PROVE  SumFunction(Posted(p)) =
              SumFunction(balance) + SumFunction(p.credit) - SumFunction(p.debit)
  <1> DEFINE credits == [a \in Accounts |-> CreditOf(p, a)]
             debits  == [a \in Accounts |-> DebitOf(p, a)]
  <1>1. /\ IsFiniteSet(Accounts) /\ DOMAIN balance = Accounts
        /\ DOMAIN Posted(p) = Accounts
    BY AccountsAssumption DEF TypeOK, Posted
  <1>2. /\ DOMAIN p.credit \subseteq Accounts
        /\ DOMAIN p.debit \subseteq Accounts
        /\ \A a \in DOMAIN p.credit : p.credit[a] \in Int
        /\ \A a \in DOMAIN p.debit : p.debit[a] \in Int
    BY PostingsAssumption DEF Touched
  <1>3. SumFunctionOnSet(credits, Accounts) = SumFunction(p.credit)
    <2>1. /\ \A a \in DOMAIN p.credit : credits[a] = p.credit[a]
          /\ \A a \in Accounts \ DOMAIN p.credit : credits[a] = 0
      BY <1>2 DEF CreditOf
    <2> HIDE DEF credits
    <2>2. QED
      BY <1>1, <1>2, <2>1, SumOverPart DEF SumFunction
  <1>4. SumFunctionOnSet(debits, Accounts) = SumFunction(p.debit)
    <2>1. /\ \A a \in DOMAIN p.debit : debits[a] = p.debit[a]
          /\ \A a \in Accounts \ DOMAIN p.debit : debits[a] = 0
      BY <1>2 DEF DebitOf
    <2> HIDE DEF debits
    <2>2. QED
      BY <1>1, <1>2, <2>1, SumOverPart DEF SumFunction
  <1>5. \A a \in Accounts :
          /\ balance[a] \in Int /\ credits[a] \in Int /\ debits[a] \in Int
          /\ Posted(p)[a] = balance[a] + credits[a] - debits[a]
    BY PostingTypes DEF Posted, TypeOK
  <1>6. SumFunctionOnSet(Posted(p), Accounts) =
           SumFunctionOnSet(balance, Accounts)
             + SumFunctionOnSet(credits, Accounts)
             - SumFunctionOnSet(debits, Accounts)
    <2> HIDE DEF credits, debits
    <2>1. QED
      BY <1>1, <1>5, SumOfChanges
  <1>7. QED
    BY <1>1, <1>3, <1>4, <1>6 DEF SumFunction

(* A commit adds what sums to zero. *)
LEMMA CommitConserves ==
    ASSUME IInv, Conserved, NEW s \in Sessions, Commit(s)
    PROVE  Conserved'
  <1> DEFINE p == posting[s]
  <1>1. /\ p \in Postings /\ Touched(p) \subseteq Accounts /\ Balanced(p)
    BY DEF IInv, TypeOK, CheckedAll, Accepted, Acceptable, Commit
  <1>2. SumFunction(p.credit) \in Int
    <2>1. /\ IsFiniteSet(DOMAIN p.credit)
          /\ \A a \in DOMAIN p.credit : p.credit[a] \in Int
      BY <1>1, PostingsAssumption
    <2>2. QED
      BY <2>1, SumType DEF SumFunction
  <1>3. balance' = Posted(p) /\ TypeOK
    BY DEF Commit, IInv
  <1> HIDE DEF p
  <1>4. SumFunction(balance') = 0
    BY <1>1, <1>2, <1>3, PostedSum DEF Balanced, Conserved
  <1>5. QED
    BY <1>4 DEF Conserved

(* ledger.service.ts:32-49: the entries of a call are compared before the     *)
(* transaction, its rows are inserted inside it; whatever fails in between,   *)
(* over all accounts the committed rows sum to zero.                          *)
THEOREM MoneyConserved == Spec => []Conserved
  <1>1. Init => Conserved
    <2>1. Init => /\ DOMAIN balance = Accounts
                  /\ \A a \in Accounts : balance[a] = 0
      BY DEF Init
    <2>2. QED
      BY <2>1, AccountsAssumption, SumOfZeros DEF Conserved, SumFunction
  <1>2. ASSUME IInv, Conserved, [Next]_vars PROVE Conserved'
    <2>1. CASE UNCHANGED balance
      BY <1>2, <2>1 DEF Conserved
    <2>2. CASE ~UNCHANGED balance
      <3>1. PICK s \in Sessions : Commit(s)
        BY <1>2, <2>2, OnlyCommitsPost
      <3>2. QED
        BY <1>2, <3>1, CommitConserves
    <2>3. QED
      BY <2>1, <2>2
  <1>3. QED
    BY <1>1, <1>2, Invariance, PTL DEF Spec

-------------------------------------------------------------------------------
(* Waiting.  A session asks for its locks in ascending order, so it waits    *)
(* only for an account above every one it holds.                             *)
Ascending ==
    \A s \in Sessions :
        /\ pc[s] \in {"idle", "status", "entries"} => held[s] = {}
        /\ \A a \in held[s], b \in todo[s] : a <= b /\ (a = b => pc[s] = "balance")

(* Every statement keeps the order of the locks. *)
LEMMA StepAscending ==
    ASSUME TypeOK, Ascending, [Next]_vars
    PROVE  Ascending'
  <1> USE DEF Ascending
  <1>1. CASE UNCHANGED vars
    BY <1>1 DEF vars, locks
  <1>2. ASSUME NEW s \in Sessions, End(s) PROVE Ascending'
    BY <1>2 DEF End, TypeOK
  <1>3. ASSUME NEW s \in Sessions, NEW p \in Postings,
               NEW t \in Transactions \cup {NewRow},
               NEW first \in {"lock", "status"}, Begin(s, p, t, first)
        PROVE  Ascending'
    BY <1>3 DEF Begin, TypeOK, locks
  <1>4. ASSUME NEW s \in Sessions, LockAccount(s) PROVE Ascending'
    <2>1. PICK a \in todo[s] :
            IsNext(s, a) /\ held' = [held EXCEPT ![s] = @ \cup {a}]
      BY <1>4 DEF LockAccount
    <2>2. /\ pc' = [pc EXCEPT ![s] = "balance"] /\ todo' = todo
          /\ pc[s] = "lock" /\ todo[s] \subseteq Nat
      BY <1>4, RowsAreIds DEF LockAccount, Continue, TypeOK
    <2>3. QED
      BY <2>1, <2>2 DEF IsNext, TypeOK
  <1>5. ASSUME NEW s \in Sessions, CheckBalance(s), ~End(s) PROVE Ascending'
    <2>1. PICK a \in todo[s] :
            IsNext(s, a) /\ todo' = [todo EXCEPT ![s] = @ \ {a}]
      BY <1>5 DEF CheckBalance, Rollback
    <2>2. /\ pc' = [pc EXCEPT ![s] = "lock"] /\ held' = held
          /\ pc[s] = "balance" /\ todo[s] \subseteq Nat /\ held[s] \subseteq Nat
      BY <1>5, RowsAreIds, AccountsAssumption
         DEF CheckBalance, Continue, Rollback, locks, TypeOK
    <2>3. \A x \in held[s], b \in todo[s] \ {a} : x <= b /\ x # b
      BY <2>1, <2>2 DEF IsNext
    <2>4. QED
      BY <2>1, <2>2, <2>3 DEF TypeOK
  <1>6. ASSUME NEW s \in Sessions, NEW next \in {"entries", "lock", "commit", "complete"},
               pc[s] \in {"status", "entries", "lock", "complete"},
               next = "entries" => held[s] = {},
               Continue(s, next), UNCHANGED <<todo, held>>
        PROVE  Ascending'
    BY <1>6 DEF Continue, TypeOK
  <1>7. ASSUME NEW s \in Sessions, ReadStatus(s) \/ CountEntries(s) PROVE Ascending'
    BY <1>2, <1>6, <1>7 DEF ReadStatus, CountEntries, Rollback, locks
  <1>8. ASSUME NEW s \in Sessions, InsertEntries(s) \/ UpdateStatus(s)
        PROVE  Ascending'
    BY <1>6, <1>8 DEF InsertEntries, UpdateStatus, locks
  <1>9. ASSUME NEW s \in Sessions, AccountMissing(s) \/ Commit(s) \/ Abort(s)
        PROVE  Ascending'
    BY <1>2, <1>9 DEF AccountMissing, Commit, Abort, Rollback
  <1>10. QED
    BY <1>1, <1>2, <1>3, <1>4, <1>5, <1>7, <1>8, <1>9, PostingsAssumption
       DEF Next, Step, CreateTransaction, SettleTransaction

(* The modes: only a locking SELECT waits for a row, and only for another    *)
(* one; the foreign-key checks wait for nobody.                              *)
LEMMA WaitCases ==
    ASSUME NEW s \in Sessions, NEW u \in Sessions, WaitsFor(s, u)
    PROVE  \/ pc[s] = "lock" /\ \E a \in todo[s] : IsNext(s, a) /\ a \in held[u]
           \/ pc[s] = "complete" /\ pc[u] = "commit"
  BY DEF WaitsFor, Blocks, Completing, Conflicts, AccountLock, ForeignKeyLock

(* Of sessions that all wait for one another, take one that waits for the    *)
(* greatest account: its holder waits for an account above that one.         *)
LEMMA NobodyWaitsForever ==
    ASSUME TypeOK, Ascending
    PROVE  NoWaitCycle
  <1> SUFFICES ASSUME NEW S \in SUBSET Sessions, S # {},
                      \A s \in S : \E u \in S : WaitsFor(s, u)
               PROVE  FALSE
    BY DEF NoWaitCycle
  <1>1. \A s \in S : pc[s] \in {"lock", "complete"}
    BY WaitCases
  <1>2. \A s \in S : \E u \in S : \E a \in todo[s] : IsNext(s, a) /\ a \in held[u]
    BY <1>1, WaitCases
  <1> DEFINE wanted == {a \in Accounts : \E s \in S : IsNext(s, a)}
  <1>3. \A u \in S : held[u] \subseteq Accounts
    BY DEF TypeOK
  <1>4. wanted # {}
    BY <1>2, <1>3
  <1>5. wanted \subseteq Nat /\ IsFiniteSet(wanted)
    BY AccountsAssumption, FS_Subset
  <1> HIDE DEF wanted
  <1>6. PICK a \in wanted : \A b \in wanted : b <= a
    BY <1>4, <1>5, GreatestMember
  <1> USE DEF wanted
  <1>7. PICK s \in S : IsNext(s, a)
    OBVIOUS
  <1>8. PICK u \in S : a \in held[u]
    <2>1. PICK u \in S, b \in todo[s] : IsNext(s, b) /\ b \in held[u]
      BY <1>2
    <2>2. a \in Nat /\ b \in Nat /\ a <= b /\ b <= a
      BY <1>3, <1>5, <1>7, <2>1, AccountsAssumption DEF IsNext
    <2>3. QED
      BY <2>1, <2>2
  <1>9. PICK b \in todo[u] : IsNext(u, b) /\ b \in wanted
    BY <1>2, <1>3
  <1>10. a <= b /\ a # b
    BY <1>1, <1>8, <1>9 DEF Ascending
  <1>11. QED
    BY <1>5, <1>6, <1>9, <1>10

(* ledger.service.ts:79-100: debits are locked in sorted order and in a mode  *)
(* that foreign-key checks do not conflict with, so no set of postings        *)
(* deadlocks.                                                                 *)
THEOREM NoDeadlock == Spec => []NoWaitCycle
  <1>1. Init => Ascending
    BY DEF Init, Ascending
  <1>2. IInv => TypeOK
    BY DEF IInv
  <1>3. QED
    BY <1>1, <1>2, Invariance, StepAscending, NobodyWaitsForever, PTL DEF Spec

-------------------------------------------------------------------------------
(* A commit is one step of the abstract ledger, any other step is none. *)
LEMMA CommitPosts ==
    ASSUME IInv, NEW s \in Sessions, Commit(s)
    PROVE  posting[s] \in Postings /\ Balanced(posting[s])
           /\ Atomic!Post(posting[s])
  <1> USE DEF IInv, Commit
  <1>1. /\ Acceptable(posting[s]) /\ todo[s] = {} /\ posting[s] \in Postings
        /\ Debited(posting[s]) \subseteq Accounts
    BY DEF Accepted, CheckedAll, TypeOK, Touched, Debited
  <1>2. Atomic!Funded(posting[s])
    <2> SUFFICES ASSUME NEW a \in Debited(posting[s]), a \notin AllowNegative
                 PROVE  a \in Accounts /\ balance[a] >= posting[s].debit[a]
      BY DEF Atomic!Funded, Debited
    <2>1. a \in Accounts /\ Covers(posting[s], a)
      BY <1>1 DEF FundsReserved
    <2>2. balance[a] \in Int /\ DebitOf(posting[s], a) \in Nat
      BY <1>1, <2>1, PostingTypes DEF TypeOK
    <2>3. DebitOf(posting[s], a) = posting[s].debit[a]
      BY DEF DebitOf, Debited
    <2>4. QED
      BY <2>1, <2>2, <2>3 DEF Covers
  <1>3. balance' = [a \in Accounts |->
                      balance[a] + Atomic!AmountOf(posting[s].credit, a)
                                 - Atomic!AmountOf(posting[s].debit, a)]
    BY DEF Posted, CreditOf, DebitOf, Atomic!AmountOf
  <1>4. QED
    BY <1>1, <1>2, <1>3 DEF Atomic!Post, Acceptable

(* A commit is an atomic posting, every other statement a stutter. *)
LEMMA StepRefines ==
    ASSUME IInv, [Next]_vars
    PROVE  [Atomic!Next]_balance
  <1>1. ASSUME NEW s \in Sessions, Commit(s)
        PROVE  Atomic!Next
    BY <1>1, CommitPosts DEF Atomic!Next, IInv, TypeOK
  <1>2. QED
    BY <1>1, OnlyCommitsPost

(* Statement-by-statement sessions implement the ledger that posts at once:   *)
(* callers need not know of statements, locks or rollbacks.                   *)
THEOREM ImplementsAbstractLedger == Spec => PostsAtomically
  <1>1. Init => Atomic!Init
    BY DEF Init, Atomic!Init
  <1>2. QED
    BY <1>1, Invariance, StepRefines, PTL DEF Spec, PostsAtomically, Atomic!Spec

===============================================================================
