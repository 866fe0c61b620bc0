------------------------------ MODULE FraudRules ------------------------------
(***************************************************************************)
(* The fraud engine's rules (fraud-engine/app/rules/engine.py with the     *)
(* values of config/rules.yaml) and the decision app/main.py draws from    *)
(* their sum.  Scores are in hundredths: each is a multiple of 0.05, so    *)
(* rounding the sum to two places, as the code does, changes nothing.      *)
(***************************************************************************)
EXTENDS Integers, FiniteSetsExt

Rules == {"velocity", "amount_threshold", "daily_volume", "failed_history",
          "new_account", "dispute_rate"}

(* The tiers of a rule, <<bound, score>>, in the order the YAML lists them. *)
Tiers ==
    [velocity         |-> <<<<10, 40>>, <<5, 20>>>>,
     amount_threshold |-> <<<<10000, 50>>, <<5000, 20>>>>,
     daily_volume     |-> <<<<50000, 40>>, <<20000, 15>>>>,
     failed_history   |-> <<<<5, 50>>, <<2, 20>>>>,
     new_account      |-> <<<<7, 15>>, <<30, 5>>>>,
     dispute_rate     |-> <<<<3, 50>>, <<1, 15>>>>]

Weight == [rule \in Rules |-> 1]
AllowBelow == 30
BlockAbove == 70

Requests == [amount : Nat, count24h : Nat, total24h : Nat, failed : Nat,
             age : Nat, disputes : Nat]

(* The volume of the day is the total the caller passes, plus the payout.   *)
Volume(req) == req.total24h + req.amount

Observed(req) ==
    [velocity |-> req.count24h, amount_threshold |-> req.amount,
     daily_volume |-> Volume(req), failed_history |-> req.failed,
     new_account |-> req.age, dispute_rate |-> req.disputes]

(* Mutant: an age is compared the way the other figures are. *)
ReachesAtLeast(req, rule, bound) == Observed(req)[rule] >= bound
Reaches(req, rule, bound) ==
    IF rule = "new_account" THEN Observed(req)[rule] < bound
                            ELSE Observed(req)[rule] >= bound

Hits(req, rule) ==
    {i \in 1 .. 2 : Reaches(req, rule, Tiers[rule][i][1])}

Triggered(req) == {rule \in Rules : Hits(req, rule) # {}}

(* The first tier that matches decides. *)
RuleScore(req, rule) ==
    IF rule \in Triggered(req) THEN Tiers[rule][Min(Hits(req, rule))][2] ELSE 0

Weighted(req, rule) == RuleScore(req, rule) * Weight[rule]

RawScore(req) ==
    Weighted(req, "velocity") + Weighted(req, "amount_threshold")
      + Weighted(req, "daily_volume") + Weighted(req, "failed_history")
      + Weighted(req, "new_account") + Weighted(req, "dispute_rate")

Evaluate(req) == IF RawScore(req) > 100 THEN 100 ELSE RawScore(req)

ScoreToDecision(score) ==
    IF score >= BlockAbove THEN "BLOCK"
    ELSE IF score >= AllowBelow THEN "REVIEW" ELSE "ALLOW"

Decide(req) == ScoreToDecision(Evaluate(req))

(* build_explanation names the dominant rule of a flagged request: max()    *)
(* raises ValueError, and /check answers 500, when no rule has triggered.   *)
Dominant(req) ==
    {rule \in Triggered(req) :
        \A other \in Triggered(req) : RuleScore(req, other) <= RuleScore(req, rule)}

===============================================================================
