-------------------------------- MODULE Payment --------------------------------
(***************************************************************************)
(* How a buyer's money reaches escrow: POST /payments (payment.service.ts), *)
(* Stripe's payment_intent.succeeded webhook (webhook.service.ts) and the   *)
(* reconciliation of transactions (reconciliation.service.ts).  A worker    *)
(* runs one handler at a time, one awaited call per step.  The reconciler's *)
(* loops call reconcileTransaction for one row after another and carry      *)
(* nothing from one to the next, so each call stands by itself.             *)
(*                                                                          *)
(* Stripe and Redis are external.  A Transaction row has the id of the      *)
(* PaymentIntent it was created for, and no two rows share one.             *)
(*                                                                          *)
(* An operator right before another one with the same parameters, named for *)
(* what is wrong with it, is a mutant of it.                                *)
(***************************************************************************)
EXTENDS Integers, FiniteSets

CONSTANTS
    Workers,      \* handlers running concurrently
    Keys,         \* idempotency-key headers the clients send
    NoKey,        \* a request without the header
    Intents,      \* ids of PaymentIntents, in the order Stripe hands them out
    MaxAttempts,  \* maxAttempts of withRetry
    MaxCalls,     \* bound: requests and webhook deliveries in all
    MaxFaults     \* bound: crashes and cache expiries in all

ASSUME PaymentAssumption ==
    /\ Intents \subseteq Nat \ {0} /\ NoKey \notin Keys
    /\ MaxAttempts \in Nat \ {0} /\ MaxCalls \in Nat /\ MaxFaults \in Nat

VARIABLES
    intent,    \* Stripe's PaymentIntents
    key,       \* the header of the request each of them was created for
    row,       \* Transaction.status of the row of each of them
    postings,  \* settlements of each of them in the ledger
    cache,     \* the intent Redis has under each key; 0 is a miss
    replies,   \* the intents that clients have been told of
    job,       \* what each worker is doing
    calls, faults

vars == <<intent, key, row, postings, cache, replies, job, calls, faults>>

-------------------------------------------------------------------------------
IntentStatuses == {"none", "requires_payment_method", "succeeded", "canceled"}
Statuses == {"none", "PENDING", "COMPLETED", "FAILED"}

(* Where a handler is, its key and intent, the attempt of withRetry it makes, *)
(* and the two statuses the reconciler compares.                              *)
Idle == [at |-> "idle", key |-> NoKey, intent |-> 0, attempt |-> 1,
         ours |-> "none", theirs |-> "none"]

Init ==
    /\ intent = [i \in Intents |-> "none"]
    /\ key = [i \in Intents |-> NoKey]
    /\ row = [i \in Intents |-> "none"]
    /\ postings = [i \in Intents |-> 0]
    /\ cache = [k \in Keys |-> 0]
    /\ replies = {}
    /\ job = [w \in Workers |-> Idle]
    /\ calls = 0 /\ faults = 0

At(w, statement) == job[w].at = statement
Goto(w, statement) == job' = [job EXCEPT ![w].at = statement]
Done(w) == job' = [job EXCEPT ![w] = Idle]

Start(w, first) == At(w, "idle") /\ job' = [job EXCEPT ![w] = first]
Call(w, first) == calls < MaxCalls /\ calls' = calls + 1 /\ Start(w, first)

StripeSame == UNCHANGED <<intent, key>>
DatabaseSame == UNCHANGED <<row, postings>>

-------------------------------------------------------------------------------
(* The order of createPayment's statements; without a key, none for Redis. *)
AfterCacheFirst(w) ==
    CASE At(w, "create") -> IF job[w].key = NoKey THEN "insert" ELSE "set"
      [] At(w, "set")    -> "insert"
      [] At(w, "insert") -> "reply"
After(w) ==
    CASE At(w, "create") -> "insert"
      [] At(w, "insert") -> IF job[w].key = NoKey THEN "reply" ELSE "set"
      [] At(w, "set")    -> "reply"

(* createPayment: with the header, Redis is asked first ... *)
CreatePayment(w) ==
    /\ \/ Call(w, [Idle EXCEPT !.at = "create"])
       \/ \E k \in Keys : Call(w, [Idle EXCEPT !.at = "get", !.key = k])
    /\ StripeSame /\ DatabaseSame /\ UNCHANGED <<cache, replies, faults>>

GetCached(w) ==
    /\ At(w, "get")
    /\ IF cache[job[w].key] = 0
       THEN Goto(w, "create") /\ UNCHANGED replies
       ELSE replies' = replies \cup {cache[job[w].key]} /\ Done(w)
    /\ StripeSame /\ DatabaseSame /\ UNCHANGED <<cache, calls, faults>>

(* ... Stripe creates an intent, and answers; an error that may be passing is *)
(* followed by the next attempt, without a key that would tell Stripe so.     *)
IsNextId(i) == intent[i] = "none" /\ \A j \in Intents : j < i => intent[j] # "none"

NewIntent(w, i) ==
    /\ IsNextId(i)
    /\ intent' = [intent EXCEPT ![i] = "requires_payment_method"]
    /\ key' = [key EXCEPT ![i] = job[w].key]

CreateIntent(w) ==
    /\ At(w, "create")
    /\ \E i \in Intents :
          NewIntent(w, i) /\ job' = [job EXCEPT ![w].at = After(w), ![w].intent = i]
    /\ DatabaseSame /\ UNCHANGED <<cache, replies, calls, faults>>

CreateIntentFails(w) ==
    /\ At(w, "create")
    /\ \/ job[w].attempt < MaxAttempts /\ job' = [job EXCEPT ![w].attempt = @ + 1]
       \/ Done(w)  \* the last attempt, or an error that is not retried
    /\ \/ StripeSame
       \/ \E i \in Intents : NewIntent(w, i)  \* the answer was lost
    /\ DatabaseSame /\ UNCHANGED <<cache, replies, calls, faults>>

(* ... the row is inserted, Redis told, and the client answered. *)
InsertedUnlisted == "CREATED"
Inserted == "PENDING"

InsertTransaction(w) ==
    /\ At(w, "insert")
    /\ row' = [row EXCEPT ![job[w].intent] = Inserted]
    /\ Goto(w, After(w))
    /\ StripeSame /\ UNCHANGED <<postings, cache, replies, calls, faults>>

SetCached(w) ==
    /\ At(w, "set")
    /\ cache' = [cache EXCEPT ![job[w].key] = job[w].intent]
    /\ Goto(w, After(w))
    /\ StripeSame /\ DatabaseSame /\ UNCHANGED <<replies, calls, faults>>

Reply(w) ==
    /\ At(w, "reply")
    /\ replies' = replies \cup {job[w].intent}
    /\ Done(w)
    /\ StripeSame /\ DatabaseSame /\ UNCHANGED <<cache, calls, faults>>

-------------------------------------------------------------------------------
(* handlePaymentSuccess: Stripe delivers the event at least once. *)
HandlePaymentSuccess(w, i) ==
    /\ intent[i] = "succeeded"
    /\ row[i] \notin {"none", "COMPLETED"}
    /\ Call(w, [Idle EXCEPT !.at = "check", !.intent = i])
    /\ StripeSame /\ DatabaseSame /\ UNCHANGED <<cache, replies, faults>>

(* settleTransaction as Ledger has it: what it reads, and what it commits. *)
Settleable(i) == row[i] = "PENDING" /\ postings[i] = 0

CheckSettleable(w) ==
    /\ At(w, "check")
    /\ IF Settleable(job[w].intent) THEN Goto(w, "settle") ELSE Done(w)
    /\ StripeSame /\ DatabaseSame /\ UNCHANGED <<cache, replies, calls, faults>>

Settle(w) ==
    /\ At(w, "settle")
    /\ row' = [row EXCEPT ![job[w].intent] = "COMPLETED"]
    /\ postings' = [postings EXCEPT ![job[w].intent] = @ + 1]
    /\ Done(w)
    /\ StripeSame /\ UNCHANGED <<cache, replies, calls, faults>>

-------------------------------------------------------------------------------
(* reconcileTransaction: our status is read, then Stripe's, then ours written *)
(* by its id alone.                                                           *)
ReconcileTransaction(w, i) ==
    /\ row[i] # "none"
    /\ Start(w, [Idle EXCEPT !.at = "retrieve", !.intent = i, !.ours = row[i]])
    /\ StripeSame /\ DatabaseSame /\ UNCHANGED <<cache, replies, calls, faults>>

(* The status a row that we show as ours gets when Stripe shows theirs. *)
ReconciledIfOpen(ours, theirs) ==
    IF ours # "PENDING" THEN ours
    ELSE IF theirs = "canceled" THEN "FAILED" ELSE "COMPLETED"
ReconciledByWebhookOnly(ours, theirs) ==
    IF ours = "PENDING" /\ theirs \in {"canceled", "requires_payment_method"}
    THEN "FAILED" ELSE ours
Reconciled(ours, theirs) ==
    IF ours # "PENDING" THEN ours
    ELSE IF theirs = "succeeded" THEN "COMPLETED"
    ELSE IF theirs \in {"canceled", "requires_payment_method"} THEN "FAILED" ELSE ours

Retrieve(w) ==
    /\ At(w, "retrieve")
    /\ LET theirs == intent[job[w].intent] IN
       IF Reconciled(job[w].ours, theirs) # job[w].ours
       THEN job' = [job EXCEPT ![w].at = "fix", ![w].theirs = theirs]
       ELSE Done(w)
    /\ StripeSame /\ DatabaseSame /\ UNCHANGED <<cache, replies, calls, faults>>

Fix(w) ==
    /\ At(w, "fix")
    /\ row' = [row EXCEPT ![job[w].intent] = Reconciled(job[w].ours, job[w].theirs)]
    /\ Done(w)
    /\ StripeSame /\ UNCHANGED <<postings, cache, replies, calls, faults>>

-------------------------------------------------------------------------------
(* A buyer whose client knows the intent pays it; an open one is canceled. *)
Pay(i) ==
    /\ i \in replies /\ intent[i] = "requires_payment_method"
    /\ intent' = [intent EXCEPT ![i] = "succeeded"]
    /\ UNCHANGED <<key, row, postings, cache, replies, job, calls, faults>>

Cancel(i) ==
    /\ intent[i] = "requires_payment_method"
    /\ intent' = [intent EXCEPT ![i] = "canceled"]
    /\ UNCHANGED <<key, row, postings, cache, replies, job, calls, faults>>

(* Redis drops a key after 24 hours, or loses it. *)
Expire(k) ==
    /\ cache[k] # 0 /\ faults < MaxFaults
    /\ cache' = [cache EXCEPT ![k] = 0] /\ faults' = faults + 1
    /\ StripeSame /\ DatabaseSame /\ UNCHANGED <<replies, job, calls>>

(* The process dies, or a call of the handler throws. *)
Crash(w) ==
    /\ ~At(w, "idle") /\ faults < MaxFaults
    /\ Done(w) /\ faults' = faults + 1
    /\ StripeSame /\ DatabaseSame /\ UNCHANGED <<cache, replies, calls>>

Step(w) ==
    \/ GetCached(w) \/ CreateIntent(w) \/ CreateIntentFails(w)
    \/ InsertTransaction(w) \/ SetCached(w) \/ Reply(w)
    \/ CheckSettleable(w) \/ Settle(w) \/ Retrieve(w) \/ Fix(w)

Next ==
    \/ \E w \in Workers :
          \/ CreatePayment(w) \/ Step(w) \/ Crash(w)
          \/ \E i \in Intents : HandlePaymentSuccess(w, i) \/ ReconcileTransaction(w, i)
    \/ \E i \in Intents : Pay(i) \/ Cancel(i)
    \/ \E k \in Keys : Expire(k)

(* Handlers resume, and the nightly job comes to every row: it does not wait *)
(* for the worker of another request.                                        *)
Fairness ==
    /\ \A w \in Workers : WF_vars(Step(w))
    /\ \A i \in Intents : SF_vars(\E w \in Workers : ReconcileTransaction(w, i))

Spec == Init /\ [][Next]_vars
FairSpec == Spec /\ Fairness
===============================================================================
