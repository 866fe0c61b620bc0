--------------------------- MODULE LedgerProperties ---------------------------
(***************************************************************************)
(* What makes the ledger correct, stated over the sessions of Ledger.      *)
(***************************************************************************)
EXTENDS Ledger

Rows == Accounts \cup UNION {Touched(p) : p \in Postings}

TypeOK ==
    /\ balance \in [Accounts -> Int]
    /\ status \in [Transactions -> {"PENDING", "COMPLETED"}]
    /\ settlements \in [Transactions -> Nat]
    /\ pc \in [Sessions -> {"idle", "status", "entries", "lock", "balance",
                            "complete", "commit"}]
    /\ posting \in [Sessions -> Postings]
    /\ target \in [Sessions -> Transactions \cup {NewRow}]
    /\ todo \in [Sessions -> SUBSET Rows]
    /\ held \in [Sessions -> SUBSET Accounts]
    /\ shared \in [Sessions -> SUBSET Accounts]
    /\ calls \in Nat

(* An account that may not go negative never does, whatever the sessions    *)
(* debiting it do between their reads and their commits.                     *)
NeverOverdrawn == \A a \in Accounts \ AllowNegative : balance[a] >= 0

(* Funds a session has found sufficient stay sufficient until it ends: no    *)
(* commit of another session spends them between the check and the commit.   *)
FundsReserved ==
    \A s \in Sessions : \A a \in (Debited(posting[s]) \cap Accounts) \ todo[s] :
        pc[s] # "idle" => a \in held[s] /\ Covers(posting[s], a)

(* Money is neither made nor lost: over all accounts the committed rows sum  *)
(* to zero, however calls overlap and whichever of them roll back.           *)
Conserved == SumFunction(balance) = 0

(* The ascending lock order and the mode NO KEY UPDATE leave no set of       *)
(* sessions in which each waits for another one of the set.                  *)
NoWaitCycle ==
    \A S \in (SUBSET Sessions) \ {{}} : \E s \in S : \A u \in S : ~WaitsFor(s, u)

(* Every call returns or throws, without the help of a timeout: the queue of *)
(* a row lock moves because its holder always reaches its COMMIT.            *)
CallsEnd == \A s \in Sessions : pc[s] # "idle" ~> pc[s] = "idle"

(* Sessions that interleave statement by statement still post atomically.    *)
Atomic == INSTANCE AbstractLedger WITH
              Postings <- {p \in Postings : Balanced(p)}
PostsAtomically == Atomic!Spec

(* ledger.service.ts:188, "double settlement prevented": a transaction gets  *)
(* the entries of at most one settlement.                                    *)
SettledAtMostOnce == \A t \in Transactions : settlements[t] <= 1
===============================================================================
