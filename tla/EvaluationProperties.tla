------------------------- MODULE EvaluationProperties -------------------------
(***************************************************************************)
(* What an evaluation may be trusted with.                                 *)
(***************************************************************************)
EXTENDS Evaluation

CONSTANTS
    Samples,    \* requests at the bounds of the tiers
    FreshHours  \* hours a fixture keeps the score its builder documents

(* Where a runner is between its statements, and what it carries along.     *)
Progress ==
    [at : {"start", "truncate", "build", "resolve", "check", "invoke",
           "profile", "report", "done", "aborted"},
     cases : Datasets \cup {Golden, <<>>}, runs : Nat \ {0},
     reads : Seq(Parts), seen : [Parts -> SUBSET (Keys \X Runners)],
     mapping : [Keys -> Runners \cup {Nobody}],
     next : Nat \ {0}, tries : Nat, correct : Nat, slips : Nat,
     results : Seq([scenario : Keys, correct : Nat, labelled : BOOLEAN]),
     exit : 0 .. 2]

(* A runner's counts stay within its runs and its cases. *)
EvaluationTypeOK ==
    /\ fixture \in [Keys -> [owner : Runners \cup {Nobody}, born : Clock,
                             parts : SUBSET Parts]]
    /\ platform \in BOOLEAN
    /\ hours \in Clock
    /\ run \in [Runners -> Progress]
    /\ \A r \in Runners :
          /\ run[r].tries < run[r].runs /\ run[r].correct <= run[r].tries
          /\ Len(run[r].results) <= Len(run[r].cases)
          /\ \A i \in DOMAIN run[r].results :
                run[r].results[i].correct <= run[r].runs

(* seed.py promises a truncation that leaves no orphan rows behind: whatever *)
(* other seeders commit between its statements, and wherever a runner dies,  *)
(* a fixture is there as a whole or it is gone.                              *)
WholeOrGone == \A k \in Keys : fixture[k].parts \in {{}, Parts}

(* The score and the band each builder's comment documents.                 *)
Documented ==
    [fraud_confirmed_by_history |-> <<100, "BLOCK">>,
     high_score_clean_history |-> <<65, "REVIEW">>,
     pending_burst_volume_spike |-> <<100, "BLOCK">>,
     queued_backlog_after_transfer_failures |-> <<60, "REVIEW">>,
     thin_history_single_signal |-> <<35, "REVIEW">>,
     clean_seller_volume_burst |-> <<80, "BLOCK">>]

(* The engine recomputes from a fixture the score and the band that its      *)
(* builder documents, with the payout under investigation counted once, for  *)
(* as long as the fixture is fresh.                                          *)
DocumentedScores ==
    \A k \in DOMAIN ScenarioBuilders : \A h \in 0 .. FreshHours - 1 :
        LET score == Recomputed(ScenarioBuilders[k], h)
        IN  <<score, ScoreToDecision(score)>> = Documented[k]

(* The verdicts of eval/golden.jsonl. *)
Expected ==
    [fraud_confirmed_by_history |-> "TRUE_POSITIVE",
     high_score_clean_history |-> "FALSE_POSITIVE",
     pending_burst_volume_spike |-> "TRUE_POSITIVE",
     queued_backlog_after_transfer_failures |-> "INCONCLUSIVE",
     thin_history_single_signal |-> "INCONCLUSIVE",
     clean_seller_volume_burst |-> "FALSE_POSITIVE"]

(* The oldest payout that a score rests on is made 22 hours before its       *)
(* fixture is, and two hours later it is no longer one of the last day.      *)
ASSUME FreshAssumption == FreshHours \in 0 .. 2

(* The golden cases a run is given carry those verdicts. *)
ASSUME GoldenAssumption ==
    \A i \in DOMAIN Golden : Golden[i].scenario \in DOMAIN Expected =>
        Golden[i].verdict = Expected[Golden[i].scenario]

(* The scripted judge tells the golden cases apart, except for the one whose *)
(* fixture scores as high as its stored score: a fixture that is still there *)
(* and fresh was judged right, whatever other runners did meanwhile.         *)
MockedSeparates ==
    \A r \in Mocked : \A i \in DOMAIN run[r].results :
        LET k == run[r].results[i].scenario
        IN  /\ fixture[k].owner = run[r].mapping[k]
            /\ hours - fixture[k].born < FreshHours
            /\ k # "clean_seller_volume_burst"
            => run[r].results[i].correct = 1

(* runner.py: "Only a clean sweep exits 0".  A runner that exits with 0 has  *)
(* had no wrong verdict and no crash on a labelled case in any of its runs.  *)
CleanSweep == \A r \in Runners \ Mocked : run[r].exit = 0 => run[r].slips = 0

(* A request is riskier when one of its figures is worse. *)
Worse(req) ==
    {[req EXCEPT !.amount = @ + 1], [req EXCEPT !.count24h = @ + 1],
     [req EXCEPT !.total24h = @ + 1], [req EXCEPT !.failed = @ + 1],
     [req EXCEPT !.disputes = @ + 1]}
      \cup {[req EXCEPT !.age = age] : age \in {req.age - 1} \cap Nat}

(* Requests that a worse figure scores less, or that are flagged without a   *)
(* rule to name.                                                             *)
Misjudged ==
    {req \in Samples :
        \/ \E worse \in Worse(req) : Evaluate(worse) < Evaluate(req)
        \/ Decide(req) # "ALLOW" /\ Dominant(req) = {}}

(* The first tier that matches is the highest: a figure that gets worse      *)
(* never lowers a score, and a flagged request has a rule to name, so that   *)
(* build_explanation does not fail.                                          *)
RiskRaisesScore == [][Misjudged = {}]_vars
===============================================================================
