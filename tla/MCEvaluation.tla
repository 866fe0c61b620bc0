----------------------------- MODULE MCEvaluation -----------------------------
(***************************************************************************)
(* A runner with a language model beside one with the scripted judge, over *)
(* three of the six scenarios.                                             *)
(***************************************************************************)
EXTENDS EvaluationProperties

CONSTANTS live, mocked

MCRunners == {live, mocked}
MCMocked == {mocked}
MCBuilders == <<"fraud_confirmed_by_history", "high_score_clean_history",
                "thin_history_single_signal">>

GoldenCase(id, scenario, trigger, verdict) ==
    [id |-> id, scenario |-> scenario, trigger |-> trigger, verdict |-> verdict]

MCGolden ==
    <<GoldenCase(1, "fraud_confirmed_by_history", "BLOCK", "TRUE_POSITIVE"),
      GoldenCase(2, "high_score_clean_history", "BLOCK", "FALSE_POSITIVE"),
      GoldenCase(5, "thin_history_single_signal", "MANUAL", "INCONCLUSIVE")>>

(* Also a case that awaits its label, a scenario nobody registers, and a     *)
(* file with a duplicate id.                                                 *)
MCDatasets ==
    {MCGolden,
     <<MCGolden[1], GoldenCase(6, "thin_history_single_signal", "MANUAL", Unlabelled)>>,
     <<GoldenCase(7, "unregistered", "BLOCK", "TRUE_POSITIVE")>>,
     <<MCGolden[1], MCGolden[1]>>}

MCSamples ==
    [amount : {4999, 5000, 9999, 10000}, count24h : {0, 4, 5, 9, 10},
     total24h : {0, 9999, 15000, 39999, 45001}, failed : {0, 1, 2, 4, 5},
     age : {0, 7, 30}, disputes : 0 .. 3]
===============================================================================
