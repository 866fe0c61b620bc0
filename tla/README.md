# TLA+ model of the payment platform

The platform takes payments through Stripe, books them in a double-entry ledger
in PostgreSQL, pays sellers out, handles disputes, and asks a fraud engine and an
investigation agent for their opinion. Its hard part is not the arithmetic. It is
that every handler is a sequence of awaited statements against PostgreSQL, Redis
and Stripe, that any number of handlers run at once, and that the process may die
between any two statements. The modules here model the handlers at that grain.

Paths are relative to the repository, with `src/` in front where a definition is
traced (`PROJECT.json`, "map").

## The system

| Component | State it keeps | Operations | What is hard |
|---|---|---|---|
| Ledger `src/ledger` | Account, Transaction, Entry | createTransaction, settleTransaction (releasePayout and reversePayout pass entry lists to the first) | balance check against concurrent debits, lock order and lock mode, rollback half way |
| Payout `src/payout` | Payout rows and their status | create, eligible, process, retry, force-retry, reverse | claim by optimistic lock; Stripe, the row and the ledger updated one after the other; crashes; idempotency keys |
| Dispute `src/dispute` | Dispute rows; writes Payout and Seller | open, review, won, lost, refunded | status read, validated, and written later by id; a reversal in the middle |
| Payment intake `src/payment`, `src/idempotency`, `src/stripe` | PENDING transactions, Redis keys | createPayment | requests with one key overlapping; retries of a lost Stripe answer |
| Webhooks `src/webhook` | none of its own | payment_intent.succeeded, account.updated, charge.dispute.created | duplicates, delay, a settlement racing itself |
| Reconciliation `src/reconciliation` | none of its own | reconcileTransaction in an hourly and a nightly loop, reconcilePayouts | writes from stale reads |
| Queue `src/queue` | BullMQ jobs | scheduler, worker | at-least-once jobs, jobs added twice |
| Seller `src/seller` | Seller rows | register, onboarding link, sync | syncs written out of order |
| Fraud client `src/fraud` | none | score, decide | fail-open default |
| Fraud engine `fraud-engine/app` | counters | check, explain | tiers and their bounds, the order of the YAML |
| Investigation graph `fraud-engine/agent` | a run's state, InvestigationRun and its audit entries | start, collect, reason, tools, synthesize, audit | a loop bounded by two limits in different units, failures of model, API and database, degraded verdicts |
| MCP server and API `fraud-engine/agent` | answers, trails and tasks in flight, in memory | investigate_transaction, investigation_audit, /investigate, /investigate/stream | identical calls at once, cancellation, restarts |
| Case retrieval `fraud-engine/agent/rag`, `scripts` | table Case, the index file | search, index, backfill | two indexers that must agree, batches, several backfills |
| Evaluation `fraud-engine/eval` | fixtures in the shared database | truncate, seed, resolve, run, score | runners that overlap, stale fixtures, the exit code |
| Reads `src/investigation`, `src/admin` | none | aggregates | windows |

They meet in the database. Payment intake creates a PENDING transaction, a
webhook settles it (ledger), the reconciler may change its status as well. A
payout of a COMPLETED transaction reads the escrow balance, asks Stripe, posts to
the ledger. A dispute changes the payout's status under the payout's handlers,
runs `reversePayout`, and posts a refund. Nothing but a row lock inside the
ledger, two conditional updates of the payout and one unique index orders them.

The second half is Python. A flagged payout is investigated: a graph collects what
NestJS knows (the seller's profile among it), asks the fraud engine to recompute the
score, searches past cases, and writes a verdict and its trail to PostgreSQL. The MCP
server and the agent API start such runs; the backfill script turns finished ones into
cases; the evaluation seeds fixtures into the same database and puts them to the graph.

What makes each correct: the ledger never overdraws, never deadlocks and posts
atomically; a payout has one handler at a time, and its status, the books and
Stripe agree up to the handler that is under way; a verdict against a seller
follows a reversal that succeeded; a paid intent has a row and is not forgotten. An
investigation ends, says when its verdict was not reasoned to, and is not paid for
twice under one key; a case search returns the nearest cases; an evaluation scores
what it seeded.
`PROJECT.json` lists, under "hazards", the lines where these are most at risk; what no
property covers beside them is listed under "Not modelled".

## Modules

Each component has a module with its state and one action per awaited statement
or call, and a second one, `...Properties`, with what is claimed of it.
In every component module an operator that stands right before another one of the same
parameters, with a name that says what is wrong with it (`TooWeakLock` before
`AccountLock`), is a mutant: a bug the properties have to catch. No action uses
it.

### AbstractLedger, Ledger, LedgerProperties, MCLedger, Sums, LedgerProofs

`AbstractLedger` is what callers rely on: a posting happens at once, and only if
every debited account can pay or may go negative.

`Ledger` has sessions in place of calls. `CreateTransaction` and
`SettleTransaction` begin one after the checks on the entries; then come
`ReadStatus` and `CountEntries` (settlements only), `LockAccount` and
`CheckBalance` for each debited account in ascending order, `InsertEntries`,
`UpdateStatus` and `Commit`. `AccountMissing` is the throw when an account does
not exist, `Abort` a timeout, a lost connection or a deadlock's victim. Row locks are modelled:
`SELECT ... FOR NO KEY UPDATE` on debited accounts, the `FOR KEY SHARE` a foreign
key takes on every touched account, and PostgreSQL's conflict table for the modes
the code meets. The Entry table is kept as the sums and counts the SQL reads of it. At READ
COMMITTED a session sees committed rows only, so uncommitted ones are not
state.

`MCLedger` gives it the four accounts of `prisma/seed.ts`, in the order it
creates them, the four entry lists the services pass and three the code must refuse
(unbalanced, and a missing credited or debited account).

`Sums` has the facts about the community modules' sum of a function that the proofs of the
ledger and of the fixtures need.

### Money, Payout, PayoutProperties, PayoutProofs

A worker runs one handler of `payout.service.ts`. `CreatePayout`/`InsertPayout`,
`MarkEligible`/`Gate`/`Grant`, `ReadForProcessing`, `Claim`, `CheckEscrow`, `Transfer`,
`PersistTransfer`, `Release`, `MarkPaid`, `ReversePayout`/`PullBack`/`Undo`/
`MarkReversed` follow its awaits; `RetryPayout` and `ForceRetry`/`ResetAttempts`
lead into `ReadForProcessing`. `Crash` may come before any statement. The ledger is
the abstract one (`Books`), which the refinement theorem of `Ledger` justifies.
Stripe is external: it keeps the outcome of each idempotency key and repeats it,
and its answer may be lost. What the gate's reads amount to (seller flags, balance,
fraud decision) is one step, because only the conditional update after them has an
effect.

`Money` is the arithmetic of a payout's amounts: both `calculateFee`s, the default
percentage and `assertMinorUnits`. `CalculateFee` works in hundredths of a cent, since the
code rounds to those; percentages are whole hundredths of a percent. `createPayout` splits
`Amount` with it (`Split`); a row is inserted only if both shares are whole cents
(`Storable`: the columns are integers), Stripe refuses a transfer of nothing or less, and a
posting is made only of amounts that the ledger's assertions accept (`Accountable`).

### Dispute, DisputeProperties, DisputeProofs

Extends `Payout`: agents are workers that also run dispute handlers, one statement
per step; where the code calls `payoutService.reversePayout` the agent runs that
handler's steps. `OpenDispute`/`CreateDispute`/`Freeze`, `StartReview`,
`ResolveWon`/`LookAtFrozen`/`Thaw`, `ResolveAgainstSeller`/`FindPayout`/`StartReversal`/
`ReversalStep`/`ReadSellerBalance`/`BlockSeller`/`PostRefund`, `WriteVerdict`,
`AgentCrash`. The database transaction of `resolveLost` is left out on purpose:
the reversal it seems to wrap uses another connection, so all that it contains is
the last update. `PostRefund` posts, fails and ends the handler, or finds no escrow account or
no debit to refund, posts nothing, and has REFUNDED written all the same.

### Payment, PaymentProperties, PaymentProofs

Workers run `createPayment` (`GetCached`, `CreateIntent` or `CreateIntentFails`,
`InsertTransaction`, `SetCached`, `Reply`), the webhook (`HandlePaymentSuccess`,
`CheckSettleable`, `Settle`) and `reconcileTransaction` (`ReconcileTransaction`, `Retrieve`,
`Fix`). Stripe's intents and Redis are state; buyers pay only intents their client was
told of. `withRetry` is in `CreateIntentFails`: an attempt whose answer was lost
leaves an intent behind, and the next attempt makes another. The settlement is the
two points of `Ledger` that matter to a status: what it reads and what it commits.

### CaseCorpus, Investigation, InvestigationCalls, Deduplication, InvestigationProofs

Each extends the one before. `CaseCorpus` has the persisted runs (`rows`), the table
Case and the backfill script: `ReadExisting`, `FetchRunRows`, one `EmbedBatch` for
each transaction, `KillBackfill` anywhere between.

`Investigation` runs the graph as a task. One action is one node, which is one
superstep of LangGraph; the nodes of `agent/nodes.py` await a model or an API once, and
nothing else reads a run's state before the node returns. `CollectNode`, `ReasonNode`,
`ToolsNode` and `SynthesizeNode` are the nodes that succeed, `FetchRaises`,
`ReasonFails`, `SynthesisFails` and `SynthesisRaises` the ways in which they do not,
`RouteAfterReason` the router. `AuditNode` is the transaction of `persist_investigation_run`,
`AuditFails` its rollback, `CloseConnection`/`CloseRaises` its finally clause. A message
is kept as whether it asks for tools, a reply as one of six kinds that
`synthesize_node` tells apart (`Parsed`): a conclusion, one that admits or denies that
it is degraded, one without a verdict, an empty object, prose. One that admits or denies may
give any reason (`OwnReasons`), null and the codes of `nodes.py` included: `Reason` keeps an earlier
failure's, and else takes an admission's own (`Admitted`). The payload has its own two fields
`degraded` and `reason`, which `SelfDescribing` sets only where the model has not.

`InvestigationCalls` adds who asks: `Replay`, `Join` and `Investigate` are the three ways
through `investigate_transaction`, which has no await between its lookup and its
`create_task`; `Post` is a request to the API; `Wake` is the code behind the await with
its finally clause; `Cancel` passes a cancellation on to the awaited task, as asyncio
does; `Restart` empties one of the two processes. `Finish` makes the answer; `ResultInvalid` is the
answer that cannot be made, since a field the model wrote is not of its type: the trail is
kept by then, the answer is not, and the call fails.

`Deduplication` is what a host is promised, with two variables and three actions.

### CaseSearch, InvestigationProperties

`CaseSearch` is pure: signals are pairs, and `FindSimilarCases` is the tool with its bounded
limit, the Jaccard rank rounded to four digits and the tie broken by id.
`InvestigationProperties` says of it what the ranking is for, without the rounding.

The vocabulary of signals is written three times in the code, and three times here: the store's
`QuerySignals` with `RiskBucket`; the indexer's `SignalsFromToolCalls`, `IndexerRiskLevel`,
`TextBlob`, `IndexerKeywords` and `IndexedSignals` (it imports the store's bucket); the script's
`CallSignals`, `RiskBucketFromScore`, `BackfillRiskLevel`, `BackfillBlob`, `BackfillKeywords` and
`BackfilledSignals`, lowered by `normalize_signals`. Each is as stored: the index file has
`decision:BLOCK`, the table `decision:block`, a query `decision:BLOCK`. Letter cases are the tables
`Upper` and `Lower` over the words of the samples. A payload is its fields: texts, lists of texts,
pieces of evidence; a text is the set of keywords it mentions, each may be null, a list too, and
a piece of evidence may be no object. Keywords put together from the end of one text and the
beginning of the next are not modelled.

### FraudRules, Scenarios, Evaluation, EvaluationProperties, FraudRulesProofs, EvaluationProofs

`FraudRules` is the engine in hundredths: each rule's tiers, the first that matches, the
capped sum, the decision, the rule the explanation names. `Scenarios` is the six fixtures
of `eval/seed.py` as sets of payouts with an age, the profile that `admin.service.ts` computes of them
some hours later, and the scripted judge of `run_mocked.py`.

`Evaluation` is the runners. Each step is a statement or a call: `ReadMarked` (the
transactions, then the accounts), `Truncate`, `Build` (a transaction for each scenario),
`Resolve` (`--no-seed`), `CheckMissing`, `Invoke` or, for the scripted judge,
`GetTransactionContext` and `GetSellerRiskProfile`, `Report`. A fixture is kept as its owner, its
hour of birth and which of its two parts is left: the rows the truncation finds by
`Transaction.description`, and those it finds by `Account.name`. `Expected` in
`EvaluationProperties` is the table of verdicts of `eval/golden.jsonl`.

## Runs

| Run | Result | What it shows |
|---|---|---|
| `ledger` | passes | two sessions, all seven entry lists, five calls |
| `ledger_double_settlement` | violated | two deliveries of a webhook post twice |
| `payout` | passes | two workers, two payout ids of one transaction, six calls |
| `payout_two_transfers` | violated | a retry after a lost answer sends the money again |
| `payout_orphan` | violated | a transfer that reconciliation cannot see |
| `dispute` | passes | an agent and a worker, two payouts, one dispute, seven calls |
| `dispute_unpays` | violated | a freeze turns PAID into PENDING |
| `payment` | passes | two workers, one key, two intents, three calls, one fault |
| `payment_same_key` | violated | one key, two transactions |
| `payment_unbooked` | violated | COMPLETED without entries |
| `investigation` | passes | two callers, two tasks, two backfills; nine worlds of faults, restarts and cancellations |
| `evaluation` | passes | a live and a scripted runner, three scenarios, fresh and stale |

A violated run checks one sentence of the documents or comments, quoted under
"findings", and its counterexample is a behaviour of the code.

### Properties

* Ledger. `NeverOverdrawn` and `FundsReserved`: the check made under the lock is
  still true at the commit. `Conserved`: committed rows sum to zero. `NoWaitCycle`:
  no set of sessions waits for itself; with the lock mode `FOR UPDATE` it would.
  `CallsEnd`: a call ends without the timeout. `PostsAtomically`: `Ledger`
  implements `AbstractLedger`.
* Payout. `ClaimIsExclusive`, `BooksMatchStatus` (the release is in the books
  exactly for PAID and REVERSED, never twice), `TransferBeforeBooks`,
  `LegalTransitions` (as an action property, over all interleavings),
  `OneActivePayout`, `ClaimsResolve`.
* Dispute. `VerdictNeedsReversal`, `ReversalBacked`, `OneActivePayout` also with
  freezes and thaws, `HandlersEnd`. `ClaimIsExclusive`, `BooksMatchStatus` and
  `LegalTransitions` do not hold beside disputes: `dispute_unpays` shows why.
* Payment. `WebhookFindsRow`: the case "webhook before payment intent" that the
  README describes cannot come from a payment made through `createPayment`.
  `CacheIsFaithful`, `CreditedIfPaid`, `PaidLeavesPending`.

* Investigation. `NeverCutShort`: the cap comes before the recursion limit.
  `FailuresAreMarked`: a verdict that was not reasoned to says so, in the row and in
  the answer, and a failed call of the model stays the reason in the answer whatever the model
  says of itself later. The converse is false of the code and not claimed: a model may give
  `LLM_UNAVAILABLE` as its own reason. `AnswersMatchRecord`: an answer's id names a row with its transaction,
  verdict and trail. `InFlightIsOwned` and `CallsEnd`: no key stays blocked, and every call
  is answered whoever cancels. `Deduplicates`: the tool implements `Deduplication`.
  `BackfillReportHolds`: what a backfill reports stays true though it read the table once.
* Case search. `SameSignals`: indexer and script, each with its own code, store the same
  signals of a run that the indexer can read, except that the table has decisions in lower case
  (`AsInTable`), and every signal that the store makes of one of the run's own queries is on the
  run's case in the index. `SearchReturnsBest`: no case left out
  is closer than one returned, which the rounded rank could have broken.
* Evaluation. `WholeOrGone`: truncations and seeds that interleave leave no half
  fixture; it holds because the transactions are read before the accounts.
  `DocumentedScores`: the engine recomputes the score each builder's comment derives,
  with the payout counted once. `MockedSeparates`, `CleanSweep`, `RiskRaisesScore`.

`DocumentedScores`, `RiskRaisesScore`, `SameSignals` and `SearchReturnsBest` speak of
constants: TLC evaluates them over the samples of the MC modules, whatever the state. The
last three name the samples that go wrong (`Misjudged`, `Misread`, `Misled`), a set that TLC
computes once, and say of every step that it is empty.

### Bounds

`MaxCalls` bounds how many handlers are called. The lifecycle create, eligible,
process, open, review, refund takes six, and one more call (an administrator's reversal)
makes the ledger reverse twice and block the seller, which is why `dispute` has seven; a
payout needs three, and the other three of `payout` are retries, a second
payout, a force-retry or a reversal running into them. Two concurrent
handlers suffice for each property: each relates two handlers, or one and a row. Three calls in
`payment` are two requests with one key and a delivery, or one request and a
duplicated delivery; reconciliation is not counted. `MaxFaults` bounds crashes and
lost cache entries there, which `PaidLeavesPending` needs: a process that dies for ever reconciles
nothing. In `Ledger`, `Payout` and `Dispute` crashes are not counted. `Amount` = 2, half of it as the
fee (`PlatformFeePercent` = 5000, the fewest cents that split evenly), and `Funds` = 2 make
the escrow suffice for one payout, so that a second one has to be refused;
`dispute` has funds for two and earlier fees, so that a second reversal is not
refused and the seller goes into debt. `MaxAttempts` = 2 lets the retry limit be
reached. Deadlock checking is off: when the calls are used up, everything stops.

`MCWorlds` of `MCInvestigation` lists what may happen in one behaviour (faults, calls of
the tool and the API, backfills, restarts, cancellations), because all of it at once is too much
to enumerate: one task with two faults has every combination of failures in one run of
the graph; two tasks have one fault, a cancellation or a restart, which is what the
properties about keys relate; two backfills race an investigation. `MaxIterations` = 2
and `RecursionLimit` = 7 are the tightest pair that the assumption 2 * cap + 3 <= limit
allows; the code has 8 and LangGraph's 25. `MCEvaluation` takes three of the six scenarios, which are the
three verdicts; all six are in `DocumentedScores`. `Clock` has the hours 0 and 48: a
fixture is fresh, or no payout of it is left in any window. The samples of requests stand
on both sides of every tier, those of queries have every bucket, a blank finding, and
words in either case. Of the persisted runs one half has each of those queries as its call, the
other every payload of null, empty and filled fields, with a keyword of its own in each field, so that
a field which one of the two forgets shows.

### Fairness

`Ledger` assumes strong fairness of each session's steps: PostgreSQL queues the
waiters of a row lock, so a lock that is free again and again is granted. Payout,
Dispute and Payment assume weak fairness of a handler's next step: Node.js
resumes it when its statement is answered, and every request has a timeout.
Payment also assumes that the nightly job reaches every row, with strong fairness
since it shares the workers with other handlers. No fairness is assumed of
requests, buyers, deliveries or faults.

`InvestigationCalls` assumes weak fairness of each task's next step and of each waiter's
wake-up: the event loop runs what is ready, and what a node awaits ends by itself: httpx
has timeouts of 10 and 5 seconds, and the model's client has its own. The statements and the close of
asyncpg have no timeout in this code; there the fairness is the assumption that PostgreSQL
answers or its connection breaks. `Evaluation`
claims no liveness and assumes no fairness.

## Proofs

`tlapm` proves the theorems of seven modules and the lemmas of an eighth, each for every value
of the constants that the named assumptions allow: any number of sessions, workers, accounts,
payouts and postings, any amounts, any bound on the calls. Together they state every safety
and action property that a passing run checks.

**LedgerProofs** (assumptions `AccountsAssumption`, `PostingsAssumption`,
`BoundAssumption`). `NeverOverdrawn` is not inductive: a commit subtracts a debit that a
balance check allowed several statements before. The inductive invariant `IInv` says
what connects the two:

- `FundsReserved`: what a session has checked still covers its debit, and the session
  holds the lock of every account it has checked;
- `LocksExclusive`: no two sessions hold the update lock of one account, so the
  commit of one leaves what another has checked alone;
- `LockedNext`: the account whose balance is read next is locked already;
- `CheckedAll`: a session past its loop has checked every account it debits;
- `Accepted`: a session works for a call that passed the checks on its entries;
- `TypeOK` and `NeverOverdrawn` themselves.

From `Invariance` follow `TypeCorrect`, `NoOverdraft` and `ReservedUntilEnd`.
`MoneyConserved` adds that a commit changes the balances by a posting that `Accepted` knows
to be balanced, so that the sum over all accounts (finitely many, as the entries of
a posting) stays zero. `NoDeadlock` rests on `Ascending`: a session locks its accounts in the order of
their ids, so what it waits for is above all it holds. In a set of sessions that wait for
each other, the one that waits for the greatest account would have to be waited for by a
session that holds it and waits for a greater one.
`ImplementsAbstractLedger` is the refinement: the initial states map to initial states,
a commit is an atomic posting that covers its debits (by `FundsReserved` and
`CheckedAll`), and every other statement is a stutter.

**Sums**. A sum over a finite set is a fold, a recursive function chosen with CHOOSE, and
facts about it call for an induction over sets, which the library states with an operator
as parameter. Each is proved by a least counterexample instead: were there a finite subset
for which the fact fails, there would be one of least cardinality, and taking the member
that the fold takes leads to a smaller one. So it is proved that the chosen function exists
(`UnfoldingExists`), that a sum is any member and the sum of the rest (`SumRemove`), and what a
changed function adds (`SumOfChanges`).

**PayoutProofs** (assumption `PayoutAssumption`). The update statements of the payout
handlers name a row by its id alone, except the claim and the grant, so what they do to
the row is right only if it still has the status under which the handler was admitted.
`IInv` is `TypeOK` with `Safe`: the three invariants `ClaimIsExclusive`,
`BooksMatchStatus` and `TransferBeforeBooks`, the partial unique index (`IndexHolds`),
and `JobSound` for each worker, which says what a handler between two statements may
rely on: it claimed the row from ELIGIBLE or FAILED, nothing is released before it posts
and one release after, the transfer it is about to record or has recorded was moved by
Stripe, and a reversal works on a row that is PAID or REVERSED.

`SafeStep` splits the argument once for all handlers: a step writes one row and one
job; if it leaves what the owner of the row relies on, and leaves the row and the
writer in order, the invariant survives. The step lemmas (`ClaimSafe`, `TransferSafe`,
...) discharge its hypotheses action by action; `QuietSafe`, `OwnerSafe` and `FailSafe`
serve those with the same shape. From `PayoutInvariance` follow `PayoutTypeCorrect`,
`ExclusiveClaims`, `ReleasedOnce`, `TransferFirst`, `OneActive` (two distinct active
rows of one transaction contradict the index) and `LegalSteps` (each status write
starts from the status that `IInv` knows).

`NeverRefusedForAmounts` is about the moment nobody wants the ledger to throw: Stripe has
moved the money. With a percentage that is not negative, it never throws because of the
row's amounts, at any amount and percentage and in any interleaving. `MoneySound`
carries it beside `IInv`: a row that exists has shares of whole cents, and Stripe has moved
something only if the seller's share is positive; `MovedFirst` takes from `IInv` that a
handler which is about to post has both behind it. The rest is arithmetic of `Money`,
proved once for all values: `SplitIsExact` (the shares have the sum that was split, and the
fee is rounded by at most half a hundredth of a cent), `SharesInBounds` (up to a hundred
percent nobody's share is negative), `FeesAgree` (where the two `calculateFee`s both yield
whole cents, they agree). `DefaultFeeInCents` says what the rounding costs: the comment of
`money.util.ts` has the fee rounded to the nearest cent, but amounts are cents already, and
at five percent only a multiple of twenty cents has shares that the columns take. The
hypothesis on the percentage is needed: the DTO has no lower bound, and TLC, run on
`Amount` = 2 with minus fifty percent, finds the transfer made and the ledger refusing the
negative fee.

**DisputeProofs** (assumptions `PayoutAssumption`, `DisputeAssumption`). Most of
`PayoutProofs`' invariant is false here: a freeze writes the status of a payout that a
payout handler owns. What is left carries the reversal. `DisputeInv` is `DisputeTypeOK`
with `RowsBacked` (`ReversalBacked`, the index, and `PaidTransferred`: a PAID row names a
transfer, so that its reversal starts at Stripe), `JobBacked` for each worker (a handler at
the posting of a reversal has pulled the money back, one at its last statement has also
posted it) and `DeskBacked` for each agent (an agent past the reversal it called has its
effect, one inside it has a handler at one of its statements). `Grows` is why others do
not disturb them: recorded transfers, pulled and undone money stay. From
`DisputeInvariance` follow `DisputeTypeCorrect`, `NoVerdictWithoutReversal`,
`ReversalsAreBacked` and `OneActiveInDisputes`.

**PaymentProofs** (assumption `PaymentAssumption`). `WebhookFindsRow` needs that clients
know only intents with a row (`RepliesHaveRows`), and that needs `JobSound`: a request
that is about to cache or send an answer has created the intent under its own key and
inserted the row, a settling webhook has seen the capture and the row, a reconciler that
read `succeeded` acts on a captured payment. `Stays` (intents keep their key, captures and
rows stay) keeps it true for the handlers that do not move. From `PaymentInvariance`
follow `PaymentTypeCorrect`, `WebhookAlwaysFindsRow`, `CacheAlwaysFaithful` and
`NothingCreditedUnpaid`.

**InvestigationProofs** (assumption `InvestigationAssumption`). `Inv` has two halves.
`GraphInv` says how many supersteps a task at each node may have used, given its
iterations (`PacedAt`): two for each iteration and one for each node outside the loop, so that
the cap ends the loop while the recursion limit is still ahead; a lemma for each shape of step
(`NodeMoves`, `TaskGoes`) and one case for each node. `CallsInv` ties keys, tasks and
callers together. `InFlightIsOwned` alone is not inductive, since a waking owner clears the
entry of its key and this must be the entry of its own task: `OwnersHold`, `OwnTasks` and
`WaitersAwait` say so, `OnlyInFlight` that a task the server works on is the one in
flight and its key has no answer, which is what the refinement needs. From
`InvestigationInvariant` follow `NeverCutShortAlways`, `InFlightIsOwnedAlways` and
`ToolDeduplicates`: beginning a task is `Begin`, a task that stops working is `End`, a restart
of the server is `Forget`, all else is a stutter.

What an answer says (further assumptions `CorpusAssumption`, `CallsAssumption`). `Told` states for
each node what the run's state may claim by then: which failures have been met, whether the verdict
was reasoned to, whether its row is written. `TellInv` is `RowsTell`, `TasksAgree`, `KeysTell`
and `CallersTold`: the row, the task that wrote it, the entry of its key and every caller who
waits for or has got it tell the same. Rows are only added (`RowsGrow`), so who agreed goes on to.
From it follow `AnswersMatchRecordAlways` and `FailuresAreMarkedAlways`; the latter rests on what `ToldAt`
carries from node to node, that a trail with a failed call has its reason, which no later
admission replaces, and that the payload says something of both. `CorpusInv` and
`Progress` say of each backfill that its candidates are distinct and were no cases when it read the
table, that those it has embedded are in the corpus, and that embedded and waiting ones
together are the candidates; `BackfillReportHoldsAlways` follows since the corpus only grows.
`AgentTypeCorrect` needs all of these (`BoundInv`): an id that a task, a key or a backfill
holds names what it should.

Case search (assumption `SearchAssumption`). `SearchReturnsBestAlways`: the tool sorts by
rounded rank and then by id, which is a strict total order as ids are distinct, so that each case
has one place (`PlacesFill`). `RoundingKeepsOrder` is why the rounding is harmless: two different quotients
with denominators below a hundred differ by more than a ten-thousandth, so their
four digits are in order. The assumption is that a query and a case
have fewer than a hundred signals together; `store.py` sets no limit, but an indexed case
has at most a few dozen, and a query those of its findings.
`SameSignalsAlways` goes through the copies one by one: a call gives the script and the store
the same (`CallAsQuery`), all calls give the indexer their union (`AllCallsAsQueries`), the two
blobs mention the same if no list is null (`SameBlob`), and all that the indexer stores but
decisions is in lower case already (`LetterCase`, `StoredInLowerCase`), so lowering changes nothing
else. It holds for every set of runs; a list of keywords, a field or a bound that one copy changes
breaks a lemma.

**FraudRulesProofs**. `RiskRaisesEveryScore` for all requests, not only the samples: the six rules
are spelled out (`Scores`), each is monotone in its figure, and so is the capped sum.

**EvaluationProofs** (assumptions `EvaluationAssumption`, `FreshAssumption`, `GoldenAssumption`).
`WholeOrGone` is not inductive: a truncation deletes what it looked up several
statements ago, by scenario and owner, and another runner may have seeded since. `IInv` adds:

- `Runs`: a runner's record is sound: its counts within its cases, a case with a slip
  not among those that passed (`SlipsKept`), and no exit with 0 after a slip (`Honest`);
- `Owned`: a fixture that is there has an owner who built it and will not build it again;
- `SeenBuilt`: nor will the owner of what a runner has looked up, so a fixture that is gone
  never comes back under the same owner;
- `SeenWhole`: since the transactions are looked up before the accounts, of a fixture that
  is still there whoever has seen the transactions has seen the accounts; if only the
  accounts were seen, the foreign key refuses their deletion.

From it follow `EvaluationTypeCorrect`, `NoOrphanRows` and `ZeroMeansCleanSweep`.
`ScoresAsDocumented` counts: the payouts of each fixture that are in the window
(`BurstCounts`, with `Sums`), for each of the hours the fixture stays fresh, which
`FreshAssumption` limits to the two that a payout 22 hours old leaves; from the counts come the
tiers and the capped sum. `MockedSeparatesAlways` adds the scripted judge's verdict on each
fixture, `Playing` (such a runner seeds all it is judged on, so what it looks up is its own) and
`AllRight`: what was judged right stays so, since a fixture only ages or goes, and does not return to a
runner that has results (`Settled`). `GoldenAssumption` says that the golden cases carry the verdicts of
`golden.jsonl`; how many there are and in which order is free.

Only model-checked: the liveness properties `CallsEnd` (of the ledger and of the
investigations), `ClaimsResolve`, `HandlersEnd` and `PaidLeavesPending`, since fairness and
ENABLED are out of the prover's reach. The runs that find a violation have no theorem beside them.

## Not modelled

* A COMMIT whose reply is lost: the ledger's caller would see a failure of what has
  happened. `Release` and `PostRefund` take a throw to mean that nothing was posted.
* Widths of integers: amounts are natural numbers.
* The legacy `releasePayout` of the payout service, reached from the queue only.
* Fraud decisions: `Gate` chooses freely. All payouts of a run have one amount and one fee
  percentage, a whole number of hundredths of a percent.
* Several sellers and escrow accounts: one of each; the code locks per account, so
  another one does not interact.
* Partial refunds: a dispute's amount is that of the payout.
* Health, metrics, logging, rate limits, controllers' validation, prompts, telemetry.
* What a model writes, beyond the label and what it says of its degradation; the
  messages that the tools return to it. The synthesis sees the last 6000 characters.
* Embeddings and their distances: the vectors are stored, and only
  `phase2a_analysis.py` reads them. The write of the index file by the indexer, one
  command without concurrency.
* What the runner prints, and its audit of retrievals. `assert_no_contamination`: which texts reach
  the model is not modelled; a marker found there ends the runner, as `Kill` may at any step.
* The notebook and `phase2a_analysis.py`, which read data and write figures.
* The synthetic cases: data, of which only the names matter to the backfill.
* The engine's `/outcomes` and its counters: nothing but a statistic reads them.

### Known and not covered by a property

`PROJECT.json` lists the hazards that bite hardest. These are real as well, and no
property is about them:

* `ledger.service.ts:369` casts sums to integer: more than 2^31-1 cents raise an error
  in the integrity check itself.
* `payout.service.ts:42`: a FAILED payout is retried and paid although a second payout
  of its transaction has been paid. `:108`: a frozen payout is PENDING, and
  `markEligible` makes it ELIGIBLE again while the dispute is open.
* `dispute.service.ts:186`: a handler that dies between the refund posting and the
  REFUNDED status refunds again when repeated (`refunds` counts it). `:70`: two
  resolutions of one dispute both find UNDER_REVIEW.
* `seller.service.ts:80`, `payout.scheduler.ts:16`: planned modules, see below.
* `nodes.py:403`: a model that writes `"degraded": false` keeps it; `FailuresAreMarked`
  excepts it by name. `:311`: the synthesis builds its model outside the try block
  (`SynthesisRaises`). `:394`: a conclusion in the last iteration is marked as cut off.
* `mcp_server.py:218`: a trail's uri names the run key, so it means another run after a
  restart. `api.py:40`: a repeated POST has no key and starts another investigation.
* `backfill_embeddings.py:196`: fallback verdicts become precedents.
  `indexer.py:45`: null findings end one indexer and not the other; `SameSignals` speaks of the
  runs that both can read (`Readable`).
* `mcp_server.py:111`: "Never raises" does not cover the building of the result at `:157`,
  which is outside the try block (`ResultInvalid`); the call ends with an error all the same.
* `nodes.py:393`: a verdict cut off whose model also admits a degradation without a reason has none
  in the answer, and null in the payload.
* `runner.py:166`: fixtures deleted by another runner are investigated all the same.
  `run_mocked.py:196`: it exits with 0 whatever it scored. `:122`: age 0 reads as 999.
* `app/main.py:102`: a counter without a lock; only a statistic reads it.
* `money.util.ts:15`: the fee is rounded to hundredths of cents, which the integer
  column refuses unless they are whole cents (`DefaultFeeInCents`).
  `create-payout.dto.ts:14`: a negative percentage is stored, paid out, and refused by the
  ledger only after the transfer.

## Plan

1. Done: the ledger with its refinement and proofs; payouts with theirs; disputes with theirs; payment
   intake, webhook and reconciliation with theirs; the fraud rules with a proof; investigations, their
   callers and the case corpus with a refinement and proofs; the evaluation with proofs.
2. `PayoutQueue` and `Onboarding`: BullMQ jobs at least once, the scheduler
   without a job key, the legacy release; account syncs out of order.
3. Done: the fee split with its proofs. Left: the casts of `verifyIntegrity`, as pure operators.
4. Disputes with two agents; a run for a verdict overwritten by another one.
5. Proofs for what items 2 to 4 add; those of the present modules are complete up to liveness.
