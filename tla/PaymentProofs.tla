---------------------------- MODULE PaymentProofs ----------------------------
(***************************************************************************)
(* Payment's invariants, for any number of workers, keys and intents and    *)
(* any bound on attempts, calls and faults.  The handlers write rows by     *)
(* their id alone; what makes that sound is what each handler between two   *)
(* statements may rely on (JobSound), and that rows, intents and captures   *)
(* stay once they are there (Stays).                                        *)
(***************************************************************************)
EXTENDS PaymentProperties, TLAPS

(* A row is that of an intent, and clients know intents that have rows.      *)
RowsHaveIntents == \A i \in Intents : row[i] # "none" => intent[i] # "none"
RepliesHaveRows == \A i \in replies : row[i] # "none"

(* What a handler may rely on at its next statement. *)
Created(w) ==
    LET i == job[w].intent
    IN  i \in Intents /\ intent[i] # "none" /\ key[i] = job[w].key
Captured(w) == job[w].intent \in Intents /\ intent[job[w].intent] = "succeeded"
Shown(w) == job[w].intent \in Intents /\ row[job[w].intent] # "none"

JobSound(w) ==
    /\ job[w].at \in {"get", "set"} => job[w].key \in Keys
    /\ job[w].at \in {"insert", "set", "reply"} => Created(w)
    /\ job[w].at \in {"set", "reply"} => Shown(w)
    /\ job[w].at \in {"check", "settle"} => Captured(w) /\ Shown(w)
    /\ job[w].at = "retrieve" => Shown(w)
    /\ job[w].at = "fix" =>
          /\ Shown(w) /\ job[w].ours = "PENDING"
          /\ job[w].theirs \in {"succeeded", "canceled", "requires_payment_method"}
          /\ job[w].theirs = "succeeded" => Captured(w)

IInv ==
    /\ TypeOK /\ WebhookFindsRow /\ CacheIsFaithful /\ CreditedIfPaid
    /\ RowsHaveIntents /\ RepliesHaveRows
    /\ \A w \in Workers : JobSound(w)

(* Intents are never forgotten or given another key, captures and rows stay. *)
Stays ==
    \A i \in Intents :
        /\ intent[i] # "none" => intent'[i] # "none" /\ key'[i] = key[i]
        /\ intent[i] = "succeeded" => intent'[i] = "succeeded"
        /\ row[i] # "none" => row'[i] # "none"

(* A handler that does not move keeps what it relies on. *)
LEMMA OthersSound ==
    ASSUME Stays, NEW w \in Workers, JobSound(w), job'[w] = job[w]
    PROVE  JobSound(w)'
  BY DEF JobSound, Created, Captured, Shown, Stays

LEMMA JobsSound ==
    ASSUME IInv, Stays, NEW w \in Workers, JobSound(w)',
           \A v \in Workers \ {w} : job'[v] = job[v]
    PROVE  \A v \in Workers : JobSound(v)'
  <1> SUFFICES ASSUME NEW v \in Workers \ {w} PROVE JobSound(v)'
    OBVIOUS
  <1> QED BY OthersSound DEF IInv

LEMMA IdleTyped ==
    /\ Idle \in Job
    /\ Idle.at = "idle" /\ Idle.key = NoKey /\ Idle.intent = 0
  BY PaymentAssumption DEF Idle, Job, Statuses, IntentStatuses

(* A handler that ends relies on nothing. *)
LEMMA DoneSound ==
    ASSUME IInv, NEW w \in Workers, Done(w)
    PROVE  /\ job' \in [Workers -> Job] /\ JobSound(w)'
           /\ \A v \in Workers \ {w} : job'[v] = job[v]
  BY IdleTyped DEF IInv, TypeOK, Done, JobSound

LEMMA Initially == Init => IInv
  <1> SUFFICES ASSUME Init PROVE IInv
    OBVIOUS
  <1>1. TypeOK
    BY PaymentAssumption, IdleTyped DEF Init, TypeOK, Statuses, IntentStatuses
  <1> QED BY <1>1 DEF Init, IInv, WebhookFindsRow, CacheIsFaithful, CreditedIfPaid,
                      RowsHaveIntents, RepliesHaveRows, JobSound, Idle

-------------------------------------------------------------------------------
(* A step of one handler that leaves Stripe, the rows and Redis alone.       *)
LEMMA QuietSafe ==
    ASSUME IInv, UNCHANGED <<intent, key, row, postings, cache>>,
           NEW w \in Workers, job' \in [Workers -> Job], JobSound(w)',
           \A v \in Workers \ {w} : job'[v] = job[v],
           replies' \subseteq Intents, \A i \in replies' : row[i] # "none",
           calls' \in 0 .. MaxCalls, faults' \in 0 .. MaxFaults
    PROVE  IInv'
  <1>1. Stays
    BY DEF Stays
  <1>2. \A v \in Workers : JobSound(v)'
    BY <1>1, JobsSound
  <1>3. TypeOK'
    BY DEF IInv, TypeOK
  <1>4. /\ WebhookFindsRow' /\ CacheIsFaithful' /\ CreditedIfPaid'
        /\ RowsHaveIntents' /\ RepliesHaveRows'
    BY DEF IInv, WebhookFindsRow, CacheIsFaithful, CreditedIfPaid, RowsHaveIntents,
           RepliesHaveRows
  <1> QED BY <1>2, <1>3, <1>4 DEF IInv

(* A handler's next place, with the fields it sets on the way. *)
LEMMA MoveTyped ==
    ASSUME IInv, NEW w \in Workers, NEW j \in Job, job' = [job EXCEPT ![w] = j]
    PROVE  /\ job' \in [Workers -> Job] /\ job'[w] = j
           /\ \A v \in Workers \ {w} : job'[v] = job[v]
  BY DEF IInv, TypeOK

LEMMA CountTyped ==
    ASSUME IInv
    PROVE  /\ calls \in 0 .. MaxCalls /\ faults \in 0 .. MaxFaults
           /\ calls < MaxCalls => calls + 1 \in 0 .. MaxCalls
           /\ faults < MaxFaults => faults + 1 \in 0 .. MaxFaults
           /\ replies \subseteq Intents /\ \A i \in replies : row[i] # "none"
  BY PaymentAssumption DEF IInv, TypeOK, RepliesHaveRows

LEMMA CreatePaymentSafe ==
    ASSUME IInv, NEW w \in Workers, CreatePayment(w)
    PROVE  IInv'
  <1>1. PICK first \in Job :
          /\ first.at = "create" \/ (first.at = "get" /\ first.key \in Keys)
          /\ Call(w, first)
    <2>1. CASE Call(w, [Idle EXCEPT !.at = "create"])
      BY <2>1, IdleTyped, [Idle EXCEPT !.at = "create"] \in Job DEF Job, Idle
    <2>2. CASE \E k \in Keys : Call(w, [Idle EXCEPT !.at = "get", !.key = k])
      BY <2>2, IdleTyped DEF Job, Idle
    <2> QED BY <2>1, <2>2 DEF CreatePayment
  <1>2. /\ job' \in [Workers -> Job] /\ job'[w] = first
        /\ \A v \in Workers \ {w} : job'[v] = job[v]
    BY <1>1, MoveTyped DEF Call, Start
  <1>3. JobSound(w)'
    BY <1>1, <1>2 DEF JobSound
  <1>4. /\ calls' \in 0 .. MaxCalls
        /\ UNCHANGED <<intent, key, row, postings, cache, replies, faults>>
    BY <1>1, CountTyped DEF CreatePayment, StripeSame, DatabaseSame, Call
  <1> QED BY <1>2, <1>3, <1>4, QuietSafe, CountTyped

LEMMA GetCachedSafe ==
    ASSUME IInv, NEW w \in Workers, GetCached(w)
    PROVE  IInv'
  <1> DEFINE k == job[w].key
  <1>0. UNCHANGED <<intent, key, row, postings, cache, calls, faults>>
    BY DEF GetCached, StripeSame, DatabaseSame
  <1>1. CASE cache[k] = 0
    <2>1. [job[w] EXCEPT !.at = "create"] \in Job /\ UNCHANGED replies
      BY <1>1 DEF IInv, TypeOK, Job, GetCached
    <2>2. job' = [job EXCEPT ![w] = [job[w] EXCEPT !.at = "create"]]
      BY <1>1 DEF GetCached, Goto
    <2>3. /\ job' \in [Workers -> Job] /\ job'[w] = [job[w] EXCEPT !.at = "create"]
          /\ \A v \in Workers \ {w} : job'[v] = job[v]
      BY <2>1, <2>2, MoveTyped
    <2>4. job'[w].at = "create"
      BY <2>3 DEF IInv, TypeOK, Job
    <2>5. JobSound(w)'
      BY <2>4 DEF JobSound
    <2> QED BY <1>0, <2>1, <2>3, <2>5, QuietSafe, CountTyped
  <1>2. CASE cache[k] # 0
    <2>1. replies' = replies \cup {cache[k]} /\ Done(w)
      BY <1>2 DEF GetCached
    <2>2. k \in Keys
      BY DEF IInv, JobSound, GetCached, At
    <2>3. cache[k] \in Intents /\ row[cache[k]] # "none"
      BY <1>2, <2>2 DEF IInv, TypeOK, CacheIsFaithful
    <2> QED BY <1>0, <2>1, <2>3, DoneSound, QuietSafe, CountTyped
  <1> QED BY <1>1, <1>2

-------------------------------------------------------------------------------
(* A new intent has no row yet, so no cache entry, reply or handler names it. *)
LEMMA NewIntentStays ==
    ASSUME IInv, NEW w \in Workers, NEW i \in Intents, NewIntent(w, i), DatabaseSame,
           job[w].key \in Keys \cup {NoKey}
    PROVE  /\ Stays /\ row[i] = "none"
           /\ intent'[i] = "requires_payment_method" /\ key'[i] = job[w].key
           /\ intent' \in [Intents -> IntentStatuses]
           /\ key' \in [Intents -> Keys \cup {NoKey}]
           /\ \A j \in Intents \ {i} : intent'[j] = intent[j] /\ key'[j] = key[j]
  <1>1. intent[i] = "none"
    BY DEF NewIntent, IsNextId
  <1>2. row[i] = "none"
    BY <1>1 DEF IInv, RowsHaveIntents
  <1>3. /\ intent' = [intent EXCEPT ![i] = "requires_payment_method"]
        /\ key' = [key EXCEPT ![i] = job[w].key]
    BY DEF NewIntent
  <1> QED BY <1>1, <1>2, <1>3 DEF IInv, TypeOK, IntentStatuses, Stays, DatabaseSame

(* Whether the answer reaches the handler or not. *)
LEMMA NewIntentSafe ==
    ASSUME IInv, NEW w \in Workers, NEW i \in Intents, NewIntent(w, i), DatabaseSame,
           UNCHANGED <<cache, replies, calls, faults>>,
           job' \in [Workers -> Job], JobSound(w)',
           \A v \in Workers \ {w} : job'[v] = job[v]
    PROVE  IInv'
  <1>1. job[w].key \in Keys \cup {NoKey}
    BY DEF IInv, TypeOK, Job
  <1>2. /\ Stays /\ row[i] = "none" /\ intent'[i] = "requires_payment_method"
        /\ intent' \in [Intents -> IntentStatuses]
        /\ key' \in [Intents -> Keys \cup {NoKey}]
        /\ \A j \in Intents \ {i} : intent'[j] = intent[j] /\ key'[j] = key[j]
    BY <1>1, NewIntentStays
  <1>3. UNCHANGED <<row, postings>>
    BY DEF DatabaseSame
  <1>4. TypeOK'
    BY <1>2, <1>3 DEF IInv, TypeOK
  <1>5. \A v \in Workers : JobSound(v)'
    BY <1>2, JobsSound
  <1>6. WebhookFindsRow' /\ RowsHaveIntents' /\ RepliesHaveRows'
    BY <1>2, <1>3 DEF IInv, WebhookFindsRow, RowsHaveIntents, RepliesHaveRows
  <1>7. CacheIsFaithful'
    <2>1. ASSUME NEW k \in Keys, cache[k] # 0
          PROVE  key'[cache[k]] = k /\ row'[cache[k]] # "none"
      <3>1. cache[k] \in Intents /\ key[cache[k]] = k /\ row[cache[k]] # "none"
        BY <2>1 DEF IInv, TypeOK, CacheIsFaithful
      <3> QED BY <3>1, <1>2, <1>3
    <2> QED BY <2>1 DEF CacheIsFaithful
  <1>8. CreditedIfPaid'
    BY <1>2, <1>3 DEF IInv, CreditedIfPaid, Stays
  <1> QED BY <1>4, <1>5, <1>6, <1>7, <1>8 DEF IInv

LEMMA CreateIntentSafe ==
    ASSUME IInv, NEW w \in Workers, CreateIntent(w)
    PROVE  IInv'
  <1>1. PICK i \in Intents :
          /\ NewIntent(w, i)
          /\ job' = [job EXCEPT ![w].at = After(w), ![w].intent = i]
    BY DEF CreateIntent
  <1>2. After(w) = "insert" /\ DatabaseSame /\ UNCHANGED <<cache, replies, calls, faults>>
    BY DEF CreateIntent, After, At
  <1>3. job[w] \in Job
    BY DEF IInv, TypeOK
  <1>4. /\ job' \in [Workers -> Job] /\ \A v \in Workers \ {w} : job'[v] = job[v]
        /\ job'[w].at = "insert" /\ job'[w].intent = i /\ job'[w].key = job[w].key
    BY <1>1, <1>2, <1>3 DEF IInv, TypeOK, Job
  <1>5. job[w].key \in Keys \cup {NoKey}
    BY <1>3 DEF Job
  <1>6. intent'[i] = "requires_payment_method" /\ key'[i] = job[w].key
    BY <1>1, <1>2, <1>5, NewIntentStays
  <1>7. JobSound(w)'
    BY <1>4, <1>6 DEF JobSound, Created
  <1> QED BY <1>1, <1>2, <1>4, <1>7, NewIntentSafe

LEMMA CreateIntentFailsSafe ==
    ASSUME IInv, NEW w \in Workers, CreateIntentFails(w)
    PROVE  IInv'
  <1>1. DatabaseSame /\ UNCHANGED <<cache, replies, calls, faults>>
    BY DEF CreateIntentFails
  <1>2. /\ job' \in [Workers -> Job] /\ JobSound(w)'
        /\ \A v \in Workers \ {w} : job'[v] = job[v]
    <2>1. CASE job[w].attempt < MaxAttempts /\ job' = [job EXCEPT ![w].attempt = @ + 1]
      <3>1. job[w] \in Job
        BY DEF IInv, TypeOK
      <3>2. job[w].attempt + 1 \in 1 .. MaxAttempts
        BY <2>1, <3>1, PaymentAssumption DEF Job
      <3>3. /\ job' \in [Workers -> Job] /\ job'[w].at = job[w].at
            /\ \A v \in Workers \ {w} : job'[v] = job[v]
        BY <2>1, <3>1, <3>2 DEF IInv, TypeOK, Job
      <3>4. job'[w].at = "create"
        BY <3>3 DEF CreateIntentFails, At
      <3> QED BY <3>3, <3>4 DEF JobSound
    <2>2. CASE Done(w)
      BY <2>2, DoneSound
    <2> QED BY <2>1, <2>2 DEF CreateIntentFails
  <1>3. CASE StripeSame
    BY <1>1, <1>2, <1>3, QuietSafe, CountTyped DEF StripeSame, DatabaseSame
  <1>4. CASE \E i \in Intents : NewIntent(w, i)
    BY <1>1, <1>2, <1>4, NewIntentSafe
  <1> QED BY <1>3, <1>4 DEF CreateIntentFails

-------------------------------------------------------------------------------
LEMMA InsertTransactionSafe ==
    ASSUME IInv, NEW w \in Workers, InsertTransaction(w)
    PROVE  IInv'
  <1> DEFINE i == job[w].intent
  <1>1. job[w] \in Job /\ Created(w) /\ At(w, "insert")
    BY DEF IInv, TypeOK, JobSound, InsertTransaction, At
  <1>2. i \in Intents /\ intent[i] # "none" /\ key[i] = job[w].key
    BY <1>1 DEF Created
  <1>3. row' = [row EXCEPT ![i] = "PENDING"]
    BY DEF InsertTransaction, Inserted
  <1>4. UNCHANGED <<intent, key, postings, cache, replies, calls, faults>>
    BY DEF InsertTransaction, StripeSame
  <1>5. row' \in [Intents -> Statuses] /\ row'[i] = "PENDING"
        /\ \A j \in Intents \ {i} : row'[j] = row[j]
    BY <1>2, <1>3 DEF IInv, TypeOK, Statuses
  <1>6. /\ After(w) \in {"reply", "set"}
        /\ After(w) = "set" => job[w].key \in Keys
    BY <1>1 DEF After, At, Job
  <1>7. /\ job' \in [Workers -> Job] /\ \A v \in Workers \ {w} : job'[v] = job[v]
        /\ job'[w].at = After(w) /\ job'[w].intent = i /\ job'[w].key = job[w].key
    BY <1>1, <1>6 DEF IInv, TypeOK, Job, InsertTransaction, Goto
  <1>8. Stays
    BY <1>4, <1>5 DEF Stays
  <1>9. JobSound(w)'
    BY <1>2, <1>4, <1>5, <1>6, <1>7 DEF JobSound, Created, Shown
  <1>10. \A v \in Workers : JobSound(v)'
    BY <1>7, <1>8, <1>9, JobsSound
  <1>11. TypeOK'
    BY <1>4, <1>5, <1>7 DEF IInv, TypeOK
  <1>12. WebhookFindsRow' /\ RowsHaveIntents' /\ RepliesHaveRows' /\ CreditedIfPaid'
    BY <1>2, <1>4, <1>5 DEF IInv, TypeOK, WebhookFindsRow, RowsHaveIntents,
                            RepliesHaveRows, CreditedIfPaid
  <1>13. CacheIsFaithful'
    BY <1>4, <1>8 DEF IInv, TypeOK, CacheIsFaithful, Stays
  <1> QED BY <1>10, <1>11, <1>12, <1>13 DEF IInv

LEMMA SetCachedSafe ==
    ASSUME IInv, NEW w \in Workers, SetCached(w)
    PROVE  IInv'
  <1> DEFINE i == job[w].intent
             k == job[w].key
  <1>1. job[w] \in Job /\ Created(w) /\ Shown(w) /\ k \in Keys /\ At(w, "set")
    BY DEF IInv, TypeOK, JobSound, SetCached, At
  <1>2. i \in Intents /\ intent[i] # "none" /\ key[i] = k /\ row[i] # "none"
    BY <1>1 DEF Created, Shown
  <1>3. cache' = [cache EXCEPT ![k] = i]
    BY DEF SetCached
  <1>4. UNCHANGED <<intent, key, row, postings, replies, calls, faults>>
    BY DEF SetCached, StripeSame, DatabaseSame
  <1>5. After(w) = "reply"
    BY <1>1 DEF After, At
  <1>6. /\ job' \in [Workers -> Job] /\ \A v \in Workers \ {w} : job'[v] = job[v]
        /\ job'[w].at = "reply" /\ job'[w].intent = i /\ job'[w].key = k
    BY <1>1, <1>5 DEF IInv, TypeOK, Job, SetCached, Goto
  <1>7. Stays
    BY <1>4 DEF Stays
  <1>8. JobSound(w)'
    BY <1>2, <1>4, <1>6 DEF JobSound, Created, Shown
  <1>9. \A v \in Workers : JobSound(v)'
    BY <1>6, <1>7, <1>8, JobsSound
  <1>10. TypeOK'
    BY <1>1, <1>2, <1>3, <1>4, <1>6 DEF IInv, TypeOK
  <1>11. WebhookFindsRow' /\ RowsHaveIntents' /\ RepliesHaveRows' /\ CreditedIfPaid'
    BY <1>4 DEF IInv, WebhookFindsRow, RowsHaveIntents, RepliesHaveRows, CreditedIfPaid
  <1>12. CacheIsFaithful'
    BY <1>1, <1>2, <1>3, <1>4 DEF IInv, TypeOK, CacheIsFaithful
  <1> QED BY <1>9, <1>10, <1>11, <1>12 DEF IInv

LEMMA ReplySafe ==
    ASSUME IInv, NEW w \in Workers, Reply(w)
    PROVE  IInv'
  <1>1. Shown(w)
    BY DEF IInv, JobSound, Reply, At
  <1>2. /\ replies' \subseteq Intents /\ \A i \in replies' : row[i] # "none"
        /\ Done(w) /\ UNCHANGED <<intent, key, row, postings, cache, calls, faults>>
    BY <1>1, CountTyped DEF Reply, Shown, StripeSame, DatabaseSame
  <1> QED BY <1>2, DoneSound, QuietSafe, CountTyped

-------------------------------------------------------------------------------
LEMMA HandlePaymentSuccessSafe ==
    ASSUME IInv, NEW w \in Workers, NEW i \in Intents, HandlePaymentSuccess(w, i)
    PROVE  IInv'
  <1> DEFINE first == [Idle EXCEPT !.at = "check", !.intent = i]
  <1>1. first \in Job /\ first.at = "check" /\ first.intent = i
    BY IdleTyped DEF Job, Idle
  <1>2. job' = [job EXCEPT ![w] = first] /\ calls < MaxCalls /\ calls' = calls + 1
    BY DEF HandlePaymentSuccess, Call, Start
  <1>3. /\ job' \in [Workers -> Job] /\ job'[w] = first
        /\ \A v \in Workers \ {w} : job'[v] = job[v]
    BY <1>1, <1>2, MoveTyped
  <1>4. UNCHANGED <<intent, key, row, postings, cache, replies, faults>>
    BY DEF HandlePaymentSuccess, StripeSame, DatabaseSame
  <1>5. JobSound(w)'
    BY <1>1, <1>3, <1>4 DEF JobSound, Captured, Shown, HandlePaymentSuccess
  <1> QED BY <1>2, <1>3, <1>4, <1>5, QuietSafe, CountTyped

LEMMA CheckSettleableSafe ==
    ASSUME IInv, NEW w \in Workers, CheckSettleable(w)
    PROVE  IInv'
  <1>1. UNCHANGED <<intent, key, row, postings, cache, replies, calls, faults>>
    BY DEF CheckSettleable, StripeSame, DatabaseSame
  <1>2. CASE Goto(w, "settle")
    <2>1. job[w] \in Job /\ Captured(w) /\ Shown(w)
      BY DEF IInv, TypeOK, JobSound, CheckSettleable, At
    <2>2. /\ job' \in [Workers -> Job] /\ \A v \in Workers \ {w} : job'[v] = job[v]
          /\ job'[w].at = "settle" /\ job'[w].intent = job[w].intent
      BY <1>2, <2>1 DEF IInv, TypeOK, Job, Goto
    <2>3. JobSound(w)'
      BY <1>1, <2>1, <2>2 DEF JobSound, Captured, Shown
    <2> QED BY <1>1, <2>2, <2>3, QuietSafe, CountTyped
  <1>3. CASE Done(w)
    BY <1>1, <1>3, DoneSound, QuietSafe, CountTyped
  <1> QED BY <1>2, <1>3 DEF CheckSettleable

(* A write to a row by its id alone, COMPLETED only if Stripe has captured.  *)
LEMMA WriteSafe ==
    ASSUME IInv, NEW w \in Workers, Done(w), NEW i \in Intents, row[i] # "none",
           NEW status \in Statuses \ {"none"}, row' = [row EXCEPT ![i] = status],
           status = "COMPLETED" => intent[i] = "succeeded",
           postings' \in [Intents -> Nat],
           \A j \in Intents : postings'[j] > 0 => postings[j] > 0 \/ intent[j] = "succeeded",
           UNCHANGED <<intent, key, cache, replies, calls, faults>>
    PROVE  IInv'
  <1>1. /\ row' \in [Intents -> Statuses] /\ row'[i] = status
        /\ \A j \in Intents \ {i} : row'[j] = row[j]
    BY DEF IInv, TypeOK
  <1>2. Stays
    BY <1>1 DEF Stays
  <1>3. \A v \in Workers : JobSound(v)'
    BY <1>2, DoneSound, JobsSound
  <1>4. TypeOK'
    BY <1>1, DoneSound DEF IInv, TypeOK
  <1>5. WebhookFindsRow' /\ RowsHaveIntents' /\ RepliesHaveRows'
    BY <1>1 DEF IInv, TypeOK, WebhookFindsRow, RowsHaveIntents, RepliesHaveRows
  <1>6. CacheIsFaithful'
    BY <1>2 DEF IInv, TypeOK, CacheIsFaithful, Stays
  <1>7. CreditedIfPaid'
    BY <1>1 DEF IInv, CreditedIfPaid
  <1> QED BY <1>3, <1>4, <1>5, <1>6, <1>7 DEF IInv

LEMMA SettleSafe ==
    ASSUME IInv, NEW w \in Workers, Settle(w)
    PROVE  IInv'
  <1> DEFINE i == job[w].intent
  <1>1. i \in Intents /\ intent[i] = "succeeded" /\ row[i] # "none"
    BY DEF IInv, JobSound, Captured, Shown, Settle, At
  <1>2. /\ row' = [row EXCEPT ![i] = "COMPLETED"] /\ Done(w)
        /\ postings' = [postings EXCEPT ![i] = postings[i] + 1]
        /\ UNCHANGED <<intent, key, cache, replies, calls, faults>>
    BY DEF Settle, StripeSame
  <1>3. postings \in [Intents -> Nat]
    BY DEF IInv, TypeOK
  <1>4. /\ postings' \in [Intents -> Nat]
        /\ \A j \in Intents : postings'[j] > 0 => postings[j] > 0 \/ intent[j] = "succeeded"
    BY <1>1, <1>2, <1>3
  <1>5. "COMPLETED" \in Statuses \ {"none"}
    BY DEF Statuses
  <1> QED BY <1>1, <1>2, <1>4, <1>5, WriteSafe

LEMMA ReconcileTransactionSafe ==
    ASSUME IInv, NEW w \in Workers, NEW i \in Intents, ReconcileTransaction(w, i)
    PROVE  IInv'
  <1> DEFINE first == [Idle EXCEPT !.at = "retrieve", !.intent = i, !.ours = row[i]]
  <1>1. first \in Job /\ first.at = "retrieve" /\ first.intent = i
    BY IdleTyped DEF IInv, TypeOK, Job, Idle
  <1>2. /\ job' \in [Workers -> Job] /\ job'[w] = first
        /\ \A v \in Workers \ {w} : job'[v] = job[v]
    BY <1>1, MoveTyped DEF ReconcileTransaction, Start
  <1>3. UNCHANGED <<intent, key, row, postings, cache, replies, calls, faults>>
    BY DEF ReconcileTransaction, StripeSame, DatabaseSame
  <1>4. JobSound(w)'
    BY <1>1, <1>2, <1>3 DEF JobSound, Shown, ReconcileTransaction
  <1> QED BY <1>2, <1>3, <1>4, QuietSafe, CountTyped

(* Only a PENDING row is corrected, and a row's intent has a status.         *)
LEMMA Corrected ==
    ASSUME NEW ours \in Statuses, NEW theirs \in IntentStatuses \ {"none"},
           Reconciled(ours, theirs) # ours
    PROVE  ours = "PENDING"
  BY DEF Reconciled, Statuses

LEMMA RetrieveSafe ==
    ASSUME IInv, NEW w \in Workers, Retrieve(w)
    PROVE  IInv'
  <1> DEFINE i == job[w].intent
             theirs == intent[i]
  <1>1. UNCHANGED <<intent, key, row, postings, cache, replies, calls, faults>>
    BY DEF Retrieve, StripeSame, DatabaseSame
  <1>2. job[w] \in Job /\ i \in Intents /\ row[i] # "none"
    BY DEF IInv, TypeOK, JobSound, Shown, Retrieve, At
  <1>3. theirs \in IntentStatuses \ {"none"}
    BY <1>2 DEF IInv, TypeOK, RowsHaveIntents
  <1>4. CASE Reconciled(job[w].ours, theirs) # job[w].ours
    <2>1. job[w].ours = "PENDING"
      BY <1>2, <1>3, <1>4, Corrected DEF Job
    <2>2. job' = [job EXCEPT ![w].at = "fix", ![w].theirs = theirs]
      BY <1>4 DEF Retrieve
    <2>3. /\ job' \in [Workers -> Job] /\ \A v \in Workers \ {w} : job'[v] = job[v]
          /\ job'[w].at = "fix" /\ job'[w].intent = i
          /\ job'[w].ours = "PENDING" /\ job'[w].theirs = theirs
      BY <1>2, <1>3, <2>1, <2>2 DEF IInv, TypeOK, Job
    <2>4. JobSound(w)'
      BY <1>1, <1>2, <1>3, <2>3 DEF JobSound, Captured, Shown, IntentStatuses
    <2> QED BY <1>1, <2>3, <2>4, QuietSafe, CountTyped
  <1>5. CASE Done(w)
    BY <1>1, <1>5, DoneSound, QuietSafe, CountTyped
  <1> QED BY <1>4, <1>5 DEF Retrieve

LEMMA FixSafe ==
    ASSUME IInv, NEW w \in Workers, Fix(w)
    PROVE  IInv'
  <1> DEFINE i == job[w].intent
             status == Reconciled(job[w].ours, job[w].theirs)
  <1>1. /\ i \in Intents /\ row[i] # "none" /\ job[w].ours = "PENDING"
        /\ job[w].theirs \in {"succeeded", "canceled", "requires_payment_method"}
        /\ job[w].theirs = "succeeded" => intent[i] = "succeeded"
    BY DEF IInv, JobSound, Captured, Shown, Fix, At
  <1>2. /\ status \in Statuses \ {"none"}
        /\ status = "COMPLETED" => intent[i] = "succeeded"
    BY <1>1 DEF Reconciled, Statuses
  <1>3. /\ row' = [row EXCEPT ![i] = status] /\ Done(w)
        /\ UNCHANGED <<intent, key, postings, cache, replies, calls, faults>>
    BY DEF Fix, StripeSame
  <1>4. postings' \in [Intents -> Nat]
    BY <1>3 DEF IInv, TypeOK
  <1> HIDE DEF status
  <1> QED BY <1>1, <1>2, <1>3, <1>4, WriteSafe

-------------------------------------------------------------------------------
(* Steps of Stripe and Redis, which move no handler. *)
LEMMA ExternalSafe ==
    ASSUME IInv, TypeOK', Stays, UNCHANGED <<job, row, postings>>,
           WebhookFindsRow', CacheIsFaithful', UNCHANGED replies
    PROVE  IInv'
  <1>1. \A v \in Workers : JobSound(v)'
    BY OthersSound DEF IInv
  <1>2. RowsHaveIntents' /\ RepliesHaveRows' /\ CreditedIfPaid'
    BY DEF IInv, RowsHaveIntents, RepliesHaveRows, CreditedIfPaid, Stays
  <1> QED BY <1>1, <1>2 DEF IInv

LEMMA BuyerSafe ==
    ASSUME IInv, NEW i \in Intents, Pay(i) \/ Cancel(i)
    PROVE  IInv'
  <1>1. PICK status \in {"succeeded", "canceled"} :
          /\ intent[i] = "requires_payment_method"
          /\ intent' = [intent EXCEPT ![i] = status]
          /\ status = "succeeded" => i \in replies
    BY DEF Pay, Cancel
  <1>2. UNCHANGED <<key, row, postings, cache, replies, job, calls, faults>>
    BY DEF Pay, Cancel
  <1>3. /\ intent' \in [Intents -> IntentStatuses] /\ intent'[i] = status
        /\ \A j \in Intents \ {i} : intent'[j] = intent[j]
    BY <1>1 DEF IInv, TypeOK, IntentStatuses
  <1>4. TypeOK'
    BY <1>2, <1>3 DEF IInv, TypeOK
  <1>5. Stays
    BY <1>1, <1>2, <1>3 DEF Stays
  <1>6. WebhookFindsRow'
    BY <1>1, <1>2, <1>3 DEF IInv, WebhookFindsRow, RepliesHaveRows
  <1>7. CacheIsFaithful'
    BY <1>2 DEF IInv, CacheIsFaithful
  <1> QED BY <1>2, <1>4, <1>5, <1>6, <1>7, ExternalSafe

LEMMA ExpireSafe ==
    ASSUME IInv, NEW k \in Keys, Expire(k)
    PROVE  IInv'
  <1>1. /\ cache' = [cache EXCEPT ![k] = 0]
        /\ UNCHANGED <<intent, key, row, postings, replies, job, calls>>
    BY DEF Expire, StripeSame, DatabaseSame
  <1>2. faults' \in 0 .. MaxFaults
    BY CountTyped DEF Expire
  <1>3. TypeOK' /\ CacheIsFaithful'
    BY <1>1, <1>2 DEF IInv, TypeOK, CacheIsFaithful
  <1>4. Stays /\ WebhookFindsRow'
    BY <1>1 DEF IInv, Stays, WebhookFindsRow
  <1> QED BY <1>1, <1>3, <1>4, ExternalSafe

LEMMA CrashSafe ==
    ASSUME IInv, NEW w \in Workers, Crash(w)
    PROVE  IInv'
  <1>1. Done(w) /\ UNCHANGED <<intent, key, row, postings, cache, replies, calls>>
    BY DEF Crash, StripeSame, DatabaseSame
  <1>2. faults' \in 0 .. MaxFaults
    BY CountTyped DEF Crash
  <1> QED BY <1>1, <1>2, DoneSound, QuietSafe, CountTyped

LEMMA StutterSafe ==
    ASSUME IInv, UNCHANGED vars
    PROVE  IInv'
  <1>1. TypeOK' /\ Stays /\ WebhookFindsRow' /\ CacheIsFaithful'
    BY DEF vars, IInv, TypeOK, Stays, WebhookFindsRow, CacheIsFaithful
  <1> QED BY <1>1, ExternalSafe DEF vars

LEMMA Inductive ==
    ASSUME IInv, [Next]_vars
    PROVE  IInv'
  <1>1. ASSUME NEW w \in Workers, Step(w) PROVE IInv'
    BY <1>1, GetCachedSafe, CreateIntentSafe, CreateIntentFailsSafe,
       InsertTransactionSafe, SetCachedSafe, ReplySafe, CheckSettleableSafe, SettleSafe,
       RetrieveSafe, FixSafe DEF Step
  <1>2. CASE Next
    BY <1>1, <1>2, CreatePaymentSafe, CrashSafe, HandlePaymentSuccessSafe,
       ReconcileTransactionSafe, BuyerSafe, ExpireSafe DEF Next
  <1> QED BY <1>2, StutterSafe

-------------------------------------------------------------------------------
(* What every handler relies on holds whenever it relies on it. *)
THEOREM PaymentInvariance == Spec => []IInv
  BY Initially, Inductive, PTL DEF Spec

(* Every variable keeps its type; in particular a handler has an intent once *)
(* it is past its creation. *)
THEOREM PaymentTypeCorrect == Spec => []TypeOK
  <1>1. IInv => TypeOK
    BY DEF IInv
  <1> QED BY <1>1, PaymentInvariance, PTL

(* The webhook never meets a captured payment without its row, so skipping   *)
(* such events loses nothing (webhook.service.ts:43-50).                     *)
THEOREM WebhookAlwaysFindsRow == Spec => []WebhookFindsRow
  <1>1. IInv => WebhookFindsRow
    BY DEF IInv
  <1> QED BY <1>1, PaymentInvariance, PTL

(* A cached answer is one that a request with this very key was given.       *)
THEOREM CacheAlwaysFaithful == Spec => []CacheIsFaithful
  <1>1. IInv => CacheIsFaithful
    BY DEF IInv
  <1> QED BY <1>1, PaymentInvariance, PTL

(* Nothing is credited that Stripe has not captured, whoever settles first:  *)
(* the webhook by its event or the reconciler by what it read.               *)
THEOREM NothingCreditedUnpaid == Spec => []CreditedIfPaid
  <1>1. IInv => CreditedIfPaid
    BY DEF IInv
  <1> QED BY <1>1, PaymentInvariance, PTL
===============================================================================
