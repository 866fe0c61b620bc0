------------------------------ MODULE Evaluation ------------------------------
(***************************************************************************)
(* The evaluation of the investigation agent (fraud-engine/eval): runners  *)
(* seed their fixtures into one shared database, put each golden case to   *)
(* the agent and score its verdicts.  A runner is eval/runner.py with a    *)
(* language model, or eval/run_mocked.py with the scripted judge.  Each    *)
(* truncates and seeds on its own, so runners that overlap delete each     *)
(* other's rows.  The rows of a fixture fall into two parts: those found   *)
(* by the marker of a transaction (with its payouts, entries, disputes)    *)
(* and those found by the marker of an account (with its seller).          *)
(***************************************************************************)
EXTENDS Scenarios

CONSTANTS
    Runners,   \* processes, each one evaluation
    Mocked,    \* those of eval/run_mocked.py
    Builders,  \* the scenarios SCENARIO_BUILDERS registers, in its order
    Golden,    \* the cases of eval/golden.jsonl
    Datasets,  \* what --golden may name
    MaxRuns,   \* bound on --runs
    Clock,     \* the hours at which the runners are watched
    Nobody     \* the owner of no rows

ASSUME EvaluationAssumption ==
    /\ Mocked \subseteq Runners /\ Nobody \notin Runners
    /\ Builders \in Seq(DOMAIN ScenarioBuilders) /\ Builders # <<>>
    /\ \A i, j \in DOMAIN Builders : Builders[i] = Builders[j] => i = j
    /\ \A cases \in Datasets \cup {Golden} : cases \in Seq(Range(cases))
    /\ MaxRuns \in Nat \ {0} /\ Clock \subseteq Nat /\ 0 \in Clock

VARIABLES
    fixture,   \* each scenario's rows: who inserted them, when, what is left
    platform,  \* whether npm run prisma:seed has made the platform accounts
    hours,     \* hours passed
    run        \* each runner's progress

vars == <<fixture, platform, hours, run>>

Keys == Range(Builders)
Parts == {"transactions", "accounts"}
Verdicts == {"TRUE_POSITIVE", "FALSE_POSITIVE", "INCONCLUSIVE"}
Triggers == {"BLOCK", "REVIEW", "MANUAL"}
Unlabelled == "UNLABELLED"
Crashed == "ERROR"

Gone == [owner |-> Nobody, born |-> 0, parts |-> {}]

Waiting ==
    [at |-> "start", cases |-> <<>>, runs |-> 1, reads |-> <<>>,
     seen |-> [part \in Parts |-> {}], mapping |-> [k \in Keys |-> Nobody],
     next |-> 1, tries |-> 0, correct |-> 0, results |-> <<>>, slips |-> 0,
     exit |-> 2]

Init ==
    /\ fixture = [k \in Keys |-> Gone]
    /\ platform \in BOOLEAN
    /\ hours = 0
    /\ run = [r \in Runners |-> Waiting]

-------------------------------------------------------------------------------
At(r, place) == run[r].at = place
Become(r, progress) == run' = [run EXCEPT ![r] = progress]
Abort(r) == Become(r, [Waiting EXCEPT !.at = "aborted"])

(* load_golden and _validate_case. *)
ValidCase(case) ==
    /\ case.trigger \in Triggers
    /\ case.verdict \in Verdicts \cup {Unlabelled}
ValidDataset(cases) ==
    /\ cases # <<>>
    /\ \A i \in DOMAIN cases : ValidCase(cases[i])
    /\ \A i, j \in DOMAIN cases : cases[i].id = cases[j].id => i = j

(* Mutant: the accounts are looked up first. *)
TruncateReadsSwapped == <<"accounts", "transactions">>
(* The order in which _truncate_eval_fixtures looks the marked rows up.      *)
TruncateReads == <<"transactions", "accounts">>

(* The command line, and the golden file that is loaded before anything      *)
(* touches the database; run_mocked takes no options.                        *)
Start(r) ==
    /\ At(r, "start")
    /\ \E cases \in IF r \in Mocked THEN {Golden} ELSE Datasets,
          runs \in IF r \in Mocked THEN {1} ELSE 1 .. MaxRuns,
          seed \in IF r \in Mocked THEN {TRUE} ELSE BOOLEAN :
            IF ValidDataset(cases)
            THEN Become(r, [run[r] EXCEPT
                              !.at = IF seed THEN "truncate" ELSE "resolve",
                              !.cases = cases, !.runs = runs,
                              !.reads = TruncateReads])
            ELSE Abort(r)
    /\ UNCHANGED <<fixture, platform, hours>>

Marked(part) == {<<k, fixture[k].owner>> : k \in {k \in Keys : part \in fixture[k].parts}}

ReadMarked(r) ==
    /\ At(r, "truncate") /\ run[r].reads # <<>>
    /\ LET part == Head(run[r].reads)
       IN  Become(r, [run[r] EXCEPT !.reads = Tail(@),
                                    !.seen = [@ EXCEPT ![part] = Marked(part)]])
    /\ UNCHANGED <<fixture, platform, hours>>

(* What is left of a scenario's rows when those a runner has seen are gone.  *)
Remains(r, k) ==
    {part \in fixture[k].parts : <<k, fixture[k].owner>> \notin run[r].seen[part]}

(* Payout and Entry reference Seller and Account: PostgreSQL refuses to      *)
(* delete an account whose transactions stay.                                *)
Restricted(r) ==
    \E k \in Keys : /\ "accounts" \in fixture[k].parts \ Remains(r, k)
                    /\ "transactions" \in Remains(r, k)

Truncate(r) ==
    /\ At(r, "truncate") /\ run[r].reads = <<>>
    /\ IF Restricted(r)
       THEN Abort(r) /\ UNCHANGED fixture
       ELSE /\ Become(r, [run[r] EXCEPT !.at = "build", !.seen = Waiting.seen])
            /\ fixture' = [k \in Keys |-> IF Remains(r, k) = {} THEN Gone
                             ELSE [fixture[k] EXCEPT !.parts = Remains(r, k)]]
    /\ UNCHANGED <<platform, hours>>

(* The next scenario of a loop over SCENARIO_BUILDERS. *)
Turn(r) == Builders[run[r].next]
Advance(r, place, mapping) ==
    IF run[r].next < Len(Builders)
    THEN Become(r, [run[r] EXCEPT !.next = @ + 1, !.mapping = mapping])
    ELSE Become(r, [run[r] EXCEPT !.next = 1, !.mapping = mapping, !.at = place])

(* A builder's transaction commits whole or not at all: it fails without the *)
(* platform accounts, or on Seller.email while another fixture holds it.     *)
Build(r) ==
    /\ At(r, "build")
    /\ IF ~platform \/ "accounts" \in fixture[Turn(r)].parts
       THEN Abort(r) /\ UNCHANGED fixture
       ELSE /\ fixture' = [fixture EXCEPT ![Turn(r)] =
                             [owner |-> r, born |-> hours, parts |-> Parts]]
            /\ Advance(r, "check", [run[r].mapping EXCEPT ![Turn(r)] = r])
    /\ UNCHANGED <<platform, hours>>

(* --no-seed: whatever transaction bears the scenario's marker.              *)
Resolve(r) ==
    /\ At(r, "resolve")
    /\ LET found == IF "transactions" \in fixture[Turn(r)].parts
                    THEN fixture[Turn(r)].owner ELSE Nobody
       IN  Advance(r, "check", [run[r].mapping EXCEPT ![Turn(r)] = found])
    /\ UNCHANGED <<fixture, platform, hours>>

Resolved(r, scenario) == scenario \in Keys /\ run[r].mapping[scenario] # Nobody

CheckMissing(r) ==
    /\ At(r, "check")
    /\ IF \A i \in DOMAIN run[r].cases : Resolved(r, run[r].cases[i].scenario)
       THEN Become(r, [run[r] EXCEPT !.at = "invoke"])
       ELSE Abort(r)
    /\ UNCHANGED <<fixture, platform, hours>>

-------------------------------------------------------------------------------
Case(r) == run[r].cases[run[r].next]
Scenario(r) == Case(r).scenario
Found(r) == fixture[Scenario(r)].owner = run[r].mapping[Scenario(r)]

(* Mutant: the loop over the runs goes once too often. *)
LastRunOffByOne(r) == run[r].tries = run[r].runs
LastRun(r) == run[r].tries + 1 = run[r].runs

Hit(r, verdict) == IF verdict = Case(r).verdict THEN 1 ELSE 0
Slip(r, verdict) ==
    IF Case(r).verdict # Unlabelled /\ Hit(r, verdict) = 0 THEN 1 ELSE 0

(* _invoke_once has a verdict: run_case counts it, and keeps the case's      *)
(* result once it has run often enough.  A crash counts as a wrong verdict.  *)
(* A marker that reaches the model is not caught (assert_no_contamination)   *)
(* and ends the runner here, as Kill may.                                    *)
Score(r, verdict) ==
    IF ~LastRun(r)
    THEN Become(r, [run[r] EXCEPT !.at = "invoke", !.tries = @ + 1,
                                  !.correct = @ + Hit(r, verdict),
                                  !.slips = @ + Slip(r, verdict)])
    ELSE Become(r, [run[r] EXCEPT
            !.at = IF run[r].next < Len(run[r].cases) THEN "invoke" ELSE "report",
            !.next = @ + 1, !.tries = 0, !.correct = 0,
            !.slips = @ + Slip(r, verdict),
            !.results = Append(@, [scenario |-> Scenario(r),
                                   correct |-> run[r].correct + Hit(r, verdict),
                                   labelled |-> Case(r).verdict # Unlabelled])])

(* A language model may answer anything, whatever it has read.               *)
Invoke(r) ==
    /\ At(r, "invoke") /\ r \notin Mocked
    /\ \E verdict \in Verdicts \cup {Crashed} : Score(r, verdict)
    /\ UNCHANGED <<fixture, platform, hours>>

(* The scripted judge's first tool call.  Without a report its next step has *)
(* no seller to ask about and raises; so does its synthesis, and the verdict *)
(* is the fallback.                                                          *)
GetTransactionContext(r) ==
    /\ At(r, "invoke") /\ r \in Mocked
    /\ IF Found(r) THEN Become(r, [run[r] EXCEPT !.at = "profile"])
                   ELSE Score(r, "INCONCLUSIVE")
    /\ UNCHANGED <<fixture, platform, hours>>

(* Its second and third calls, and the verdict.                              *)
GetSellerRiskProfile(r) ==
    /\ At(r, "profile")
    /\ LET f == ScenarioBuilders[Scenario(r)]
           profile == IF Found(r) THEN RiskProfile(f, hours - fixture[Scenario(r)].born)
                                  ELSE NoProfile
       IN  Score(r, Judge(Evaluate(Explain(f.amount, profile)), f.score,
                          Behavioural(profile)))
    /\ UNCHANGED <<fixture, platform, hours>>

(* Mutant: a case passes when one of its runs was right. *)
PassedOnce(result, runs) == result.correct > 0
Passed(result, runs) == result.correct = runs

(* summarise, and the exit code, which main draws from the report;           *)
(* run_mocked prints its report and exits with 0 whatever it says.           *)
Report(r) ==
    /\ At(r, "report")
    /\ LET scored == {i \in DOMAIN run[r].results : run[r].results[i].labelled}
           passed == {i \in scored : Passed(run[r].results[i], run[r].runs)}
           clean == r \in Mocked \/ Cardinality(passed) = Cardinality(scored)
       IN  Become(r, [run[r] EXCEPT !.at = "done", !.exit = IF clean THEN 0 ELSE 1])
    /\ UNCHANGED <<fixture, platform, hours>>

(* A runner is killed. *)
Kill(r) ==
    /\ ~At(r, "done") /\ ~At(r, "aborted") /\ ~At(r, "start")
    /\ Abort(r)
    /\ UNCHANGED <<fixture, platform, hours>>

Tick ==
    /\ \E later \in Clock : later > hours /\ hours' = later
    /\ UNCHANGED <<fixture, platform, run>>

Step(r) ==
    \/ Start(r) \/ ReadMarked(r) \/ Truncate(r) \/ Build(r) \/ Resolve(r)
    \/ CheckMissing(r) \/ Invoke(r) \/ GetTransactionContext(r)
    \/ GetSellerRiskProfile(r) \/ Report(r)

Next == Tick \/ \E r \in Runners : Step(r) \/ Kill(r)

Spec == Init /\ [][Next]_vars
===============================================================================
