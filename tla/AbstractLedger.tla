---------------------------- MODULE AbstractLedger ----------------------------
(***************************************************************************)
(* What callers of the ledger may rely on: a posting takes effect at once  *)
(* and as a whole, and only if every account it debits can pay, or is      *)
(* allowed to go negative.  No statement, no lock, no session is left.     *)
(***************************************************************************)
EXTENDS Integers

CONSTANTS
    Accounts, AllowNegative,
    Postings  \* entry lists whose debits and credits have the same sum

VARIABLE balance

AmountOf(rows, a) == IF a \in DOMAIN rows THEN rows[a] ELSE 0

(* Every debited account exists and is left non-negative or may be negative. *)
Funded(p) ==
    \A a \in DOMAIN p.debit :
        a \in AllowNegative \/ (a \in Accounts /\ balance[a] >= p.debit[a])

Post(p) ==
    /\ Funded(p)
    /\ balance' = [a \in Accounts |->
                     balance[a] + AmountOf(p.credit, a) - AmountOf(p.debit, a)]

Init == balance = [a \in Accounts |-> 0]
Next == \E p \in Postings : Post(p)
Spec == Init /\ [][Next]_balance
===============================================================================
