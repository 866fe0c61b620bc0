-------------------------------- MODULE Ledger --------------------------------
(***************************************************************************)
(* The double-entry ledger (src/src/ledger/ledger.service.ts) on top of    *)
(* PostgreSQL at READ COMMITTED.  A session is one call of                 *)
(* createTransaction or settleTransaction; every SQL statement of its      *)
(* prisma.$transaction callback is a step of its own, so that sessions     *)
(* interleave between statements exactly where the code awaits.            *)
(*                                                                         *)
(* The Entry table is kept as what the SQL reads of it: the sum of the     *)
(* committed rows per account, and the number of row groups per            *)
(* transaction.  Rows a session has inserted and not committed are seen by *)
(* nobody else and are never read back by the session.                     *)
(*                                                                         *)
(* An operator defined just before another one with the same parameters    *)
(* and a name that says what is wrong with it is a mutant of it: a bug the *)
(* properties must catch.  PROJECT.json pairs mutants with properties.     *)
(***************************************************************************)
EXTENDS Integers, FiniteSets, Functions

CONSTANTS
    Sessions,       \* concurrent calls of the two posting operations
    Accounts,       \* ids of the rows of Account
    AllowNegative,  \* the accounts whose "allowNegative" column is true
    Postings,       \* the entry lists that callers pass
    Transactions,   \* Transaction rows that exist with status PENDING
    Settlement,     \* the entry list the webhook passes for such a row
    NewRow,         \* the target of createTransaction: a row of its own
    MaxCalls        \* bound: how many calls are made in all

(* An entry list p is two functions on account ids: p.debit gives the total *)
(* of its DEBIT rows per debited account, p.credit that of its CREDIT rows. *)

ASSUME AccountsAssumption ==
    /\ Accounts \subseteq Nat /\ IsFiniteSet(Accounts)
    /\ AllowNegative \subseteq Accounts

ASSUME PostingsAssumption ==
    /\ Postings # {}
    /\ \A p \in Postings :
          /\ DOMAIN p.debit \subseteq Nat /\ IsFiniteSet(DOMAIN p.debit)
          /\ DOMAIN p.credit \subseteq Nat /\ IsFiniteSet(DOMAIN p.credit)
          /\ p.debit \in [DOMAIN p.debit -> Nat]
          /\ p.credit \in [DOMAIN p.credit -> Nat]
    /\ Settlement \in [Transactions -> Postings]

ASSUME BoundAssumption == NewRow \notin Transactions /\ MaxCalls \in Nat

VARIABLES
    balance,     \* sum of the committed Entry rows of each account
    status,      \* Transaction.status
    settlements, \* groups of committed Entry rows a transaction has
    pc,          \* the statement each session runs next
    posting,     \* the entry list of the session's call
    target,      \* the transaction it settles, or NewRow
    todo,        \* debited accounts whose balance is still to be checked
    held,        \* Account rows the session locked with SELECT ... FOR ...
    shared,      \* Account rows its foreign-key checks locked
    calls        \* calls made so far

tables == <<balance, status, settlements>>
locks  == <<held, shared>>
call   == <<posting, target>>
vars   == <<tables, pc, call, todo, locks, calls>>
-------------------------------------------------------------------------------
(* The checks made on the entries before the database is used.  The amounts *)
(* of a posting are natural numbers: assertMinorUnits rejects all others.   *)
Balanced(p) == SumFunction(p.debit) = SumFunction(p.credit)

AcceptableUnsummed(p) ==
    Cardinality(DOMAIN p.debit) + Cardinality(DOMAIN p.credit) >= 2
Acceptable(p) ==
    /\ Cardinality(DOMAIN p.debit) + Cardinality(DOMAIN p.credit) >= 2
    /\ Balanced(p)

Debited(p) == DOMAIN p.debit
Touched(p) == DOMAIN p.debit \cup DOMAIN p.credit

DebitOf(p, a)  == IF a \in DOMAIN p.debit THEN p.debit[a] ELSE 0
CreditOf(p, a) == IF a \in DOMAIN p.credit THEN p.credit[a] ELSE 0

(* The rows of p added to the per-account sums. *)
Posted(p) == [a \in Accounts |-> balance[a] + CreditOf(p, a) - DebitOf(p, a)]

(* Step 2 of the check: the balance read against the totals of the debits. *)
CoversBeforeDebit(p, a) == balance[a] >= 0 \/ a \in AllowNegative
Covers(p, a) == balance[a] - DebitOf(p, a) >= 0 \/ a \in AllowNegative

-------------------------------------------------------------------------------
(* Row locks.  Conflicts is PostgreSQL's table for the modes this code meets. *)
TooWeakLock    == "KEY SHARE"
TooStrongLock  == "UPDATE"
AccountLock    == "NO KEY UPDATE"  \* SELECT ... FOR NO KEY UPDATE
ForeignKeyLock == "KEY SHARE"      \* taken on Account by an INSERT into Entry

Conflicts ==
    {<<"UPDATE", "UPDATE">>, <<"UPDATE", "NO KEY UPDATE">>,
     <<"NO KEY UPDATE", "UPDATE">>, <<"NO KEY UPDATE", "NO KEY UPDATE">>,
     <<"UPDATE", "KEY SHARE">>, <<"KEY SHARE", "UPDATE">>}

(* u keeps s from locking the Account row a in this mode. *)
Blocks(u, s, a, mode) ==
    /\ u # s
    /\ \/ a \in held[u]   /\ <<mode, AccountLock>> \in Conflicts
       \/ a \in shared[u] /\ <<mode, ForeignKeyLock>> \in Conflicts

(* accountRows[0]: the locking SELECT found a row. *)
ExistsUnchecked(a) == TRUE
Exists(a) == a \in Accounts

(* debitAccountIds is sorted: the next account is the least one left. *)
IsNextUnsorted(s, a) == a \in todo[s]
IsNext(s, a) == a \in todo[s] /\ \A b \in todo[s] : a <= b

(* An UPDATE keeps its Transaction row locked until the end. *)
Completing(u, t) == pc[u] = "commit" /\ target[u] = t /\ t # NewRow

(* s cannot run its statement until u's transaction ends. *)
WaitsFor(s, u) ==
    \/ /\ pc[s] = "lock"
       /\ \E a \in todo[s] : IsNext(s, a) /\ Blocks(u, s, a, AccountLock)
    \/ /\ pc[s] = "lock" /\ todo[s] = {}
       /\ \E a \in Touched(posting[s]) : Blocks(u, s, a, ForeignKeyLock)
    \/ pc[s] = "complete" /\ u # s /\ Completing(u, target[s])

-------------------------------------------------------------------------------
AnyPosting == CHOOSE p \in Postings : TRUE

Init ==
    /\ balance = [a \in Accounts |-> 0]
    /\ status = [t \in Transactions |-> "PENDING"]
    /\ settlements = [t \in Transactions |-> 0]
    /\ pc = [s \in Sessions |-> "idle"]
    /\ posting = [s \in Sessions |-> AnyPosting]
    /\ target = [s \in Sessions |-> NewRow]
    /\ todo = [s \in Sessions |-> {}]
    /\ held = [s \in Sessions |-> {}]
    /\ shared = [s \in Sessions |-> {}]
    /\ calls = 0

(* A call passes the checks on its entries and opens its transaction. *)
Begin(s, p, t, first) ==
    /\ pc[s] = "idle" /\ calls < MaxCalls
    /\ Acceptable(p)
    /\ calls' = calls + 1
    /\ pc' = [pc EXCEPT ![s] = first]
    /\ posting' = [posting EXCEPT ![s] = p]
    /\ target' = [target EXCEPT ![s] = t]
    /\ todo' = [todo EXCEPT ![s] = Debited(p)]
    /\ UNCHANGED <<tables, locks>>

CreateTransaction(s) == \E p \in Postings : Begin(s, p, NewRow, "lock")

SettleTransaction(s) ==
    \E t \in Transactions : Begin(s, Settlement[t], t, "status")

(* COMMIT and ROLLBACK both release every lock of the session. *)
End(s) ==
    /\ pc' = [pc EXCEPT ![s] = "idle"]
    /\ posting' = [posting EXCEPT ![s] = AnyPosting]
    /\ target' = [target EXCEPT ![s] = NewRow]
    /\ todo' = [todo EXCEPT ![s] = {}]
    /\ held' = [held EXCEPT ![s] = {}]
    /\ shared' = [shared EXCEPT ![s] = {}]
    /\ UNCHANGED calls

Rollback(s) == End(s) /\ UNCHANGED tables

(* s goes on to its next statement, having changed only what the caller says. *)
Continue(s, next) ==
    /\ pc' = [pc EXCEPT ![s] = next]
    /\ UNCHANGED <<tables, call, calls>>

ReadStatus(s) ==
    /\ pc[s] = "status"
    /\ IF status[target[s]] = "PENDING"
       THEN Continue(s, "entries") /\ UNCHANGED <<todo, locks>>
       ELSE Rollback(s)

CountEntries(s) ==
    /\ pc[s] = "entries"
    /\ IF settlements[target[s]] = 0
       THEN Continue(s, "lock") /\ UNCHANGED <<todo, locks>>
       ELSE Rollback(s)

(* Step 1 of the loop: lock the row of the next debited account. *)
LockAccount(s) ==
    /\ pc[s] = "lock"
    /\ \E a \in todo[s] :
          /\ IsNext(s, a) /\ Exists(a)
          /\ \A u \in Sessions : ~Blocks(u, s, a, AccountLock)
          /\ held' = [held EXCEPT ![s] = @ \cup {a}]
    /\ Continue(s, "balance")
    /\ UNCHANGED <<todo, shared>>

(* Step 2: read the committed balance, and throw when it does not suffice. *)
CheckBalance(s) ==
    /\ pc[s] = "balance"
    /\ \E a \in todo[s] :
          /\ IsNext(s, a)
          /\ IF Covers(posting[s], a)
             THEN /\ todo' = [todo EXCEPT ![s] = @ \ {a}]
                  /\ Continue(s, "lock") /\ UNCHANGED locks
             ELSE Rollback(s)

(* The loop is over: INSERT the rows.  The foreign key of each Entry row     *)
(* locks its Account row.                                                    *)
InsertEntries(s) ==
    /\ pc[s] = "lock" /\ todo[s] = {}
    /\ Touched(posting[s]) \subseteq Accounts
    /\ \A u \in Sessions, a \in Touched(posting[s]) :
          ~Blocks(u, s, a, ForeignKeyLock)
    /\ shared' = [shared EXCEPT ![s] = Touched(posting[s])]
    /\ Continue(s, IF target[s] = NewRow THEN "commit" ELSE "complete")
    /\ UNCHANGED <<todo, held>>

(* A debited account has no row to lock, or a credited one fails its key. *)
AccountMissing(s) ==
    /\ pc[s] = "lock"
    /\ \/ \E a \in todo[s] : IsNext(s, a) /\ ~Exists(a)
       \/ todo[s] = {} /\ ~(Touched(posting[s]) \subseteq Accounts)
    /\ Rollback(s)

(* settleTransaction's last statement; a competing UPDATE is waited for, and *)
(* at READ COMMITTED the WHERE clause, the id alone, then still holds.       *)
UpdateStatus(s) ==
    /\ pc[s] = "complete"
    /\ \A u \in Sessions \ {s} : ~Completing(u, target[s])
    /\ Continue(s, "commit")
    /\ UNCHANGED <<todo, locks>>

Commit(s) ==
    /\ pc[s] = "commit"
    /\ balance' = Posted(posting[s])
    /\ status' = [t \in Transactions |->
                     IF t = target[s] THEN "COMPLETED" ELSE status[t]]
    /\ settlements' = [t \in Transactions |->
                     IF t = target[s] THEN settlements[t] + 1 ELSE settlements[t]]
    /\ End(s)

(* The transaction times out (Prisma allows it five seconds), its process or *)
(* its connection dies, or PostgreSQL picks it as the victim of a deadlock.  *)
Abort(s) == pc[s] # "idle" /\ Rollback(s)

(* What a session does by itself once it is called. *)
Step(s) ==
    \/ ReadStatus(s) \/ CountEntries(s)
    \/ LockAccount(s) \/ CheckBalance(s) \/ AccountMissing(s)
    \/ InsertEntries(s) \/ UpdateStatus(s) \/ Commit(s)

Next == \E s \in Sessions :
    CreateTransaction(s) \/ SettleTransaction(s) \/ Step(s) \/ Abort(s)

(* PostgreSQL queues the waiters of a row lock, so a statement whose lock    *)
(* is free again and again is eventually granted it.                         *)
Fairness == \A s \in Sessions : SF_vars(Step(s))

Spec == Init /\ [][Next]_vars
FairSpec == Spec /\ Fairness
===============================================================================
