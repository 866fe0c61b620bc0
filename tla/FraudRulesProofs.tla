--------------------------- MODULE FraudRulesProofs ---------------------------
(***************************************************************************)
(* What the fraud engine's rules do for every request, not only for those  *)
(* at the bounds of the tiers.                                             *)
(***************************************************************************)
EXTENDS EvaluationProperties, TLAPS

(* The first of at most two tiers. *)
LEMMA FirstTier ==
    ASSUME NEW H \in SUBSET (1 .. 2)
    PROVE  /\ 1 \in H => Min(H) = 1
           /\ 1 \notin H /\ 2 \in H => Min(H) = 2
  <1>1. ASSUME NEW least \in H, \A other \in H : least <= other
        PROVE  Min(H) = least
    <2>1. \A x \in H : (\A y \in H : x <= y) => x = least
      BY <1>1
    <2> QED BY <1>1, <2>1 DEF Min
  <1>2. 1 \in H => Min(H) = 1
    BY <1>1
  <1>3. 1 \notin H /\ 2 \in H => Min(H) = 2
    BY <1>1
  <1> QED BY <1>2, <1>3

(* A rule scores its first tier, else its second, else nothing.              *)
LEMMA ScoreOfRule ==
    ASSUME NEW req, NEW rule \in Rules
    PROVE  RuleScore(req, rule) =
             IF Reaches(req, rule, Tiers[rule][1][1]) THEN Tiers[rule][1][2]
             ELSE IF Reaches(req, rule, Tiers[rule][2][1]) THEN Tiers[rule][2][2] ELSE 0
  <1>1. Hits(req, rule) \in SUBSET (1 .. 2)
    BY DEF Hits
  <1>2. 1 \in Hits(req, rule) <=> Reaches(req, rule, Tiers[rule][1][1])
    BY DEF Hits
  <1>3. 2 \in Hits(req, rule) <=> Reaches(req, rule, Tiers[rule][2][1])
    BY DEF Hits
  <1>4. Hits(req, rule) # {} <=> 1 \in Hits(req, rule) \/ 2 \in Hits(req, rule)
    BY <1>1
  <1> QED BY <1>1, <1>2, <1>3, <1>4, FirstTier DEF RuleScore, Triggered

(* The six rules, spelled out. *)
LEMMA Scores ==
    ASSUME NEW req \in Requests
    PROVE  /\ RuleScore(req, "velocity") = IF req.count24h >= 10 THEN 40
                                           ELSE IF req.count24h >= 5 THEN 20 ELSE 0
           /\ RuleScore(req, "amount_threshold") =
                IF req.amount >= 10000 THEN 50 ELSE IF req.amount >= 5000 THEN 20 ELSE 0
           /\ RuleScore(req, "daily_volume") =
                IF Volume(req) >= 50000 THEN 40
                ELSE IF Volume(req) >= 20000 THEN 15 ELSE 0
           /\ RuleScore(req, "failed_history") = IF req.failed >= 5 THEN 50
                                                 ELSE IF req.failed >= 2 THEN 20 ELSE 0
           /\ RuleScore(req, "new_account") = IF req.age < 7 THEN 15
                                              ELSE IF req.age < 30 THEN 5 ELSE 0
           /\ RuleScore(req, "dispute_rate") = IF req.disputes >= 3 THEN 50
                                               ELSE IF req.disputes >= 1 THEN 15 ELSE 0
  BY ScoreOfRule DEF Rules, Reaches, Observed, Tiers

(* The sum, without the record of weights.                                   *)
LEMMA Sum ==
    ASSUME NEW req
    PROVE  RawScore(req) =
             RuleScore(req, "velocity") * 1 + RuleScore(req, "amount_threshold") * 1
               + RuleScore(req, "daily_volume") * 1 + RuleScore(req, "failed_history") * 1
               + RuleScore(req, "new_account") * 1 + RuleScore(req, "dispute_rate") * 1
  BY DEF RawScore, Weighted, Weight, Rules

(* A request no better than another in any figure scores no less.            *)
LEMMA WorseScoresHigher ==
    ASSUME NEW req \in Requests, NEW other \in Requests,
           other.amount >= req.amount, other.count24h >= req.count24h,
           other.total24h >= req.total24h, other.failed >= req.failed,
           other.age <= req.age, other.disputes >= req.disputes
    PROVE  Evaluate(other) >= Evaluate(req)
  <1>1. /\ req.amount \in Nat /\ req.count24h \in Nat /\ req.total24h \in Nat
        /\ req.failed \in Nat /\ req.age \in Nat /\ req.disputes \in Nat
        /\ other.amount \in Nat /\ other.count24h \in Nat /\ other.total24h \in Nat
        /\ other.failed \in Nat /\ other.age \in Nat /\ other.disputes \in Nat
    BY DEF Requests
  <1>2. /\ RuleScore(other, "velocity") >= RuleScore(req, "velocity")
        /\ RuleScore(other, "amount_threshold") >= RuleScore(req, "amount_threshold")
        /\ RuleScore(other, "daily_volume") >= RuleScore(req, "daily_volume")
        /\ RuleScore(other, "failed_history") >= RuleScore(req, "failed_history")
        /\ RuleScore(other, "new_account") >= RuleScore(req, "new_account")
        /\ RuleScore(other, "dispute_rate") >= RuleScore(req, "dispute_rate")
    BY <1>1, Scores DEF Volume
  <1>3. \A rule \in Rules : RuleScore(req, rule) \in Nat /\ RuleScore(other, rule) \in Nat
    BY Scores DEF Rules
  <1>4. RawScore(other) >= RawScore(req) /\ RawScore(other) \in Nat /\ RawScore(req) \in Nat
    BY <1>2, <1>3, Sum DEF Rules
  <1> QED BY <1>4 DEF Evaluate

(* A score is a number. *)
LEMMA EvaluatesToInt ==
    ASSUME NEW req \in Requests
    PROVE  Evaluate(req) \in Int
  <1>1. \A rule \in Rules : RuleScore(req, rule) \in Nat
    BY Scores DEF Rules
  <1>2. RawScore(req) \in Nat
    BY <1>1, Sum DEF Rules
  <1> QED BY <1>2 DEF Evaluate

(* Whatever is flagged has a rule that scores highest.                       *)
LEMMA FlaggedHasDominant ==
    ASSUME NEW req \in Requests, Decide(req) # "ALLOW"
    PROVE  Dominant(req) # {}
  <1>1. \A rule \in Rules : RuleScore(req, rule) \in Nat
    BY Scores DEF Rules
  <1>2. \E rule \in Rules : RuleScore(req, rule) > 0
    <2>1. RawScore(req) >= 30
      BY <1>1, Sum DEF Rules, Decide, ScoreToDecision, Evaluate, AllowBelow, BlockAbove
    <2> QED BY <1>1, <2>1, Sum DEF Rules
  <1>3. PICK top \in Rules : \A rule \in Rules : RuleScore(req, rule) <= RuleScore(req, top)
    BY <1>1 DEF Rules
  <1>4. top \in Triggered(req)
    BY <1>1, <1>2, <1>3 DEF RuleScore
  <1>5. top \in Dominant(req)
    BY <1>3, <1>4 DEF Dominant, Triggered
  <1> QED BY <1>5

(* No figure that gets worse ever lowers the score, and build_explanation    *)
(* always has a rule to name, for every request.                             *)
THEOREM RiskRaisesEveryScore ==
    ASSUME Samples \subseteq Requests
    PROVE  RiskRaisesScore
  <1>1. ASSUME NEW req \in Samples
        PROVE  req \notin Misjudged
    <2>1. req \in Requests
      OBVIOUS
    <2>2. ASSUME NEW worse \in Worse(req)
          PROVE  ~(Evaluate(worse) < Evaluate(req))
      <3>1. /\ worse \in Requests
            /\ worse.amount >= req.amount /\ worse.count24h >= req.count24h
            /\ worse.total24h >= req.total24h /\ worse.failed >= req.failed
            /\ worse.age <= req.age /\ worse.disputes >= req.disputes
        BY <2>1, <2>2 DEF Worse, Requests
      <3>2. Evaluate(worse) >= Evaluate(req)
        BY <2>1, <3>1, WorseScoresHigher
      <3>3. Evaluate(worse) \in Int /\ Evaluate(req) \in Int
        BY <2>1, <3>1, EvaluatesToInt
      <3> QED BY <3>2, <3>3
    <2> QED BY <2>1, <2>2, FlaggedHasDominant DEF Misjudged
  <1>2. Misjudged = {}
    BY <1>1 DEF Misjudged
  <1> QED BY <1>2, PTL DEF RiskRaisesScore
===============================================================================
