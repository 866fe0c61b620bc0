--------------------------- MODULE PaymentProperties ---------------------------
(***************************************************************************)
(* What payment intake, webhook and reconciliation guarantee together, and *)
(* what the README promises of them and they do not keep.                  *)
(***************************************************************************)
EXTENDS Payment

Job == [at : {"idle", "get", "create", "insert", "set", "reply", "check", "settle",
              "retrieve", "fix"},
        key : Keys \cup {NoKey}, intent : Intents \cup {0}, attempt : 1 .. MaxAttempts,
        ours : Statuses, theirs : IntentStatuses]

TypeOK ==
    /\ intent \in [Intents -> IntentStatuses]
    /\ key \in [Intents -> Keys \cup {NoKey}]
    /\ row \in [Intents -> Statuses]
    /\ postings \in [Intents -> Nat]
    /\ cache \in [Keys -> Intents \cup {0}]
    /\ replies \subseteq Intents
    /\ job \in [Workers -> Job]
    /\ calls \in 0 .. MaxCalls /\ faults \in 0 .. MaxFaults

(* webhook.service.ts:43-50 skips an event without a transaction row.  It     *)
(* never has to: no client learns of an intent, from createPayment or from    *)
(* the cache, before its row is there, whatever attempt or crash left it.     *)
WebhookFindsRow == \A i \in Intents : intent[i] = "succeeded" => row[i] # "none"

(* A cached answer is one that this key's request was given: an intent of the *)
(* same key, with a row.                                                      *)
CacheIsFaithful ==
    \A k \in Keys : cache[k] # 0 => key[cache[k]] = k /\ row[cache[k]] # "none"

(* Neither a webhook nor the reconciler credits a payment Stripe has not      *)
(* captured.                                                                  *)
CreditedIfPaid ==
    \A i \in Intents : postings[i] > 0 \/ row[i] = "COMPLETED" => intent[i] = "succeeded"

(* README.md:287, "Reconciliation catches it": a paid transaction does not    *)
(* stay PENDING, also when its webhooks are lost or their handlers die.       *)
PaidLeavesPending ==
    \A i \in Intents : intent[i] = "succeeded" ~> row[i] # "PENDING"

-------------------------------------------------------------------------------
(* README.md:73, "concurrent requests sharing the same key commit exactly one *)
(* Transaction row".                                                          *)
OneRowPerKey ==
    \A i, j \in Intents :
        i # j /\ key[i] = key[j] /\ key[i] # NoKey => "none" \in {row[i], row[j]}

(* README.md:270, "prisma.$transaction() wrapping every ledger + state        *)
(* change": a COMPLETED payment has its entries, and a FAILED one none.       *)
StatusMatchesLedger ==
    \A i \in Intents : (row[i] = "COMPLETED") <=> (postings[i] > 0)
===============================================================================
