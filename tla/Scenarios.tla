------------------------------ MODULE Scenarios ------------------------------
(***************************************************************************)
(* The fixtures of fraud-engine/eval/seed.py as the agent's tools see      *)
(* them, what the engine recomputes from them, and the scripted judge of   *)
(* eval/run_mocked.py.  Ages of payouts are in hours, of sellers in days,  *)
(* at the time the fixture is inserted; scores are in hundredths.          *)
(***************************************************************************)
EXTENDS FraudRules, Sequences, Functions

Payout(status, amount, age) == [status |-> status, amount |-> amount, age |-> age]

(* Payouts of one amount and status, one for each age. *)
Burst(status, amount, ages) == {Payout(status, amount, h) : h \in ages}

Fixture(age, disputes, history, amount, decision, score) ==
    [age |-> age, disputes |-> disputes, history |-> history,
     amount |-> amount, decision |-> decision, score |-> score]

FraudConfirmedByHistory ==
    Fixture(3, 1, Burst("PAID", 12000, {4, 7, 10, 13, 16}), 45000, "BLOCK", 100)

HighScoreCleanHistory == Fixture(4 * 365, 0, {}, 45000, "BLOCK", 85)

PendingBurstVolumeSpike ==
    Fixture(210, 0, Burst("FAILED", 8000, {72, 96})
                      \cup Burst("PENDING", 9000, {2, 5, 8, 12, 18}),
            9000, "BLOCK", 95)

QueuedBacklogAfterTransferFailures ==
    Fixture(400, 0, Burst("FAILED", 16000, {72, 96})
                      \cup Burst("PENDING", 16000, {6, 11, 19}),
            4800, "REVIEW", 60)

ThinHistorySingleSignal == Fixture(5, 0, {}, 9600, "REVIEW", 35)

CleanSellerVolumeBurst ==
    Fixture(3 * 365, 0,
            Burst("PAID", 4200, {24 * d : d \in {60, 90, 120, 150}})
              \cup Burst("PAID", 4400, {24 * 31 + 2 * i : i \in 0 .. 7})
              \cup Burst("PAID", 4500, {2 * i : i \in 1 .. 11}),
            4500, "BLOCK", 80)

ScenarioBuilders ==
    [fraud_confirmed_by_history |-> FraudConfirmedByHistory,
     high_score_clean_history |-> HighScoreCleanHistory,
     pending_burst_volume_spike |-> PendingBurstVolumeSpike,
     queued_backlog_after_transfer_failures |-> QueuedBacklogAfterTransferFailures,
     thin_history_single_signal |-> ThinHistorySingleSignal,
     clean_seller_volume_burst |-> CleanSellerVolumeBurst]

-------------------------------------------------------------------------------
(* The risk profile NestJS computes of a fixture's seller some hours later.  *)
Main(f) == Payout("PENDING", f.amount, 0)

InWindow(f, hours) ==
    {p \in f.history \cup {Main(f)} : p.age + hours < 24}

(* Mutant: the payout under investigation is left in the window's volume.    *)
ExcludedNothing(f) == {}
(* excludePayoutId: the payout under investigation. *)
Excluded(f) == {Main(f)}

Total(payouts) == SumFunction([p \in payouts |-> p.amount])

RiskProfile(f, hours) ==
    [velocity |-> Cardinality(InWindow(f, hours)),
     volume |-> Total(InWindow(f, hours) \ Excluded(f)),
     failed |-> Cardinality({p \in f.history : p.status = "FAILED"}),
     age |-> (24 * f.age + hours) \div 24,
     disputes |-> f.disputes]

(* What get_fraud_score_explanation posts to /check/explain. *)
Explain(amount, profile) ==
    [amount |-> amount, count24h |-> profile.velocity, total24h |-> profile.volume,
     failed |-> profile.failed, age |-> profile.age, disputes |-> profile.disputes]

Recomputed(f, hours) == Evaluate(Explain(f.amount, RiskProfile(f, hours)))

-------------------------------------------------------------------------------
(* The scripted judge.  A profile that could not be read leaves its history  *)
(* empty and forwards zeros; among the behavioural signals an age that is    *)
(* missing, or zero, counts as 999 days.                                     *)
NoProfile == [velocity |-> 0, volume |-> 0, failed |-> 0, age |-> 0, disputes |-> 0]

Behavioural(profile) ==
    Cardinality({signal \in {"velocity", "age", "disputes", "failed"} :
           \/ signal = "velocity" /\ profile.velocity >= 5
           \/ signal = "age" /\ profile.age \in 1 .. 6
           \/ signal = "disputes" /\ profile.disputes >= 1
           \/ signal = "failed" /\ profile.failed >= 2})

(* Mutant: the stored score has to confirm the recomputed one.               *)
ContradictsInverted(recomputed, stored) == stored < recomputed
Contradicts(recomputed, stored) == recomputed < stored

Judge(recomputed, stored, behavioural) ==
    IF recomputed > BlockAbove /\ behavioural >= 2 THEN "TRUE_POSITIVE"
    ELSE IF Contradicts(recomputed, stored) /\ behavioural = 0 THEN "FALSE_POSITIVE"
    ELSE "INCONCLUSIVE"
===============================================================================
