------------------------------ MODULE CaseSearch ------------------------------
(***************************************************************************)
(* Past cases as signals (fraud-engine/agent/rag): those a query asks for, *)
(* those the two indexers draw from a persisted investigation, and the     *)
(* search that ranks cases by the signals they share with a query.  A      *)
(* signal "rule:velocity" is the pair <<"rule", "velocity">>.              *)
(***************************************************************************)
EXTENDS Integers, FiniteSets

(* The letter cases of the words whose case the code changes.                *)
Upper == [BLOCK |-> "BLOCK", block |-> "BLOCK", REVIEW |-> "REVIEW", high |-> "HIGH",
          HIGH |-> "HIGH", medium |-> "MEDIUM"]
Lower == [BLOCK |-> "block", REVIEW |-> "review", HIGH |-> "high", MEDIUM |-> "medium",
          Velocity |-> "velocity"]
InUpper(word) == IF word \in DOMAIN Upper THEN Upper[word] ELSE word
InLower(word) == IF word \in DOMAIN Lower THEN Lower[word] ELSE word

CONSTANT Absent   \* an argument or a column that is null

(* _risk_bucket; scores are in hundredths. *)
RiskBucket(score) ==
    IF score >= 85 THEN "critical"
    ELSE IF score >= 70 THEN "high" ELSE IF score >= 30 THEN "medium" ELSE "low"
RiskSignals(score) == IF score = Absent THEN {} ELSE {<<"risk", RiskBucket(score)>>}

DecisionSignals(decision) ==
    IF decision = Absent THEN {} ELSE {<<"decision", InUpper(decision)>>}

(* A finding is <<prefix, name>>; without a prefix it becomes a rule, and a  *)
(* blank one nothing.                                                        *)
FindingSignals(findings) ==
    {<<IF f[1] = "" THEN "rule" ELSE f[1], InLower(f[2])>> :
        f \in {f \in findings : f # <<"", "">>}}

(* build_query_signals of the store. *)
QuerySignals(query) ==
    DecisionSignals(query.decision) \cup RiskSignals(query.score)
      \cup FindingSignals(query.findings)

-------------------------------------------------------------------------------
(* A persisted investigation: its calls of find_similar_cases, the risk      *)
(* level of its column and of its payload, and the texts of the payload.  A  *)
(* text is the set of rules it mentions.  A text may be null, a list of      *)
(* texts or of evidence too, and a piece of evidence may be no dict.         *)
Mentioned(text) == IF text = Absent THEN {} ELSE text

(* The indexer of the JSON file.  Its _risk_bucket is the store's.           *)
SignalsFromToolCalls(calls) ==
    {<<"decision", InUpper(call.decision)>> :
        call \in {c \in calls : c.decision # Absent}}
      \cup {<<"risk", RiskBucket(call.score)>> : call \in {c \in calls : c.score # Absent}}
      \cup {IF f[1] = "" THEN <<"rule", InLower(f[2])>> ELSE <<f[1], InLower(f[2])>> :
               f \in (UNION {call.findings : call \in calls}) \ {<<"", "">>}}

(* A list that is null ends the indexer. *)
Readable(payload) ==
    Absent \notin {payload.key_findings, payload.recommended_actions, payload.evidence}

TextBlob(payload) ==
    LET dicts == {item \in payload.evidence : item.dict}
        texts == {payload.summary}
                   \cup payload.key_findings \cup payload.recommended_actions
                   \cup {item.source : item \in dicts} \cup {item.fact : item \in dicts}
                   \cup {item.significance : item \in dicts}
    IN  UNION {Mentioned(text) : text \in texts}

IndexerKeywords == {"amount_threshold", "velocity", "failed_history", "new_account",
                    "dispute_rate", "active_dispute", "ledger_imbalanced",
                    "ledger_inconsistency", "insufficient_escrow", "seller_blocked"}

IndexerRiskLevel(run) ==
    InUpper(IF run.level # Absent THEN run.level
            ELSE IF run.payload.level # Absent THEN run.payload.level ELSE "MEDIUM")

(* build_case_from_run, of a run whose payload it can read. *)
IndexedSignals(run) ==
    SignalsFromToolCalls(run.calls) \cup {<<"risk", InLower(IndexerRiskLevel(run))>>}
      \cup {<<"rule", keyword>> : keyword \in IndexerKeywords \cap TextBlob(run.payload)}

-------------------------------------------------------------------------------
(* The backfill script, which has a copy of everything.                      *)
RiskBucketFromScore(score) ==
    IF score >= 85 THEN "critical"
    ELSE IF score >= 70 THEN "high" ELSE IF score >= 30 THEN "medium" ELSE "low"

CallSignals(call) ==
    (IF call.decision # Absent THEN {<<"decision", InUpper(call.decision)>>} ELSE {})
      \cup (IF call.score # Absent
            THEN {<<"risk", RiskBucketFromScore(call.score)>>} ELSE {})
      \cup {<<IF f[1] = "" THEN "rule" ELSE f[1], InLower(f[2])>> :
               f \in {f \in call.findings : f # <<"", "">>}}

(* Mutant: the significance of evidence is not searched. *)
SearchedInSourceAndFact == {"source", "fact"}
(* What is searched of a piece of evidence.                                  *)
SearchedInEvidence == {"source", "fact", "significance"}

OrEmpty(list) == IF list = Absent THEN {} ELSE list

BackfillBlob(payload) ==
    LET texts == {payload.summary}
                   \cup (UNION {OrEmpty(payload[k]) :
                                  k \in {"key_findings", "recommended_actions"}})
                   \cup {item[k] : item \in {item \in OrEmpty(payload.evidence) : item.dict},
                                   k \in SearchedInEvidence}
    IN  UNION {Mentioned(text) : text \in texts}

BackfillKeywords == {"amount_threshold", "velocity", "failed_history", "new_account",
                     "dispute_rate", "active_dispute", "ledger_imbalanced",
                     "ledger_inconsistency", "insufficient_escrow", "seller_blocked"}

(* _run_to_row *)
BackfillRiskLevel(run) ==
    IF run.level # Absent THEN InUpper(run.level)
    ELSE IF run.payload.level # Absent THEN InUpper(run.payload.level) ELSE "MEDIUM"

(* normalize_signals *)
Normalized(signals) == {<<signal[1], InLower(signal[2])>> : signal \in signals}

(* _signals_from_run *)
BackfilledSignals(run) ==
    Normalized((UNION {CallSignals(call) : call \in run.calls})
                 \cup {<<"risk", InLower(BackfillRiskLevel(run))>>}
                 \cup {<<"rule", keyword>> :
                         keyword \in BackfillKeywords \cap BackfillBlob(run.payload)})

-------------------------------------------------------------------------------
(* SEED_CASES, numbered in the order of their ids. *)
SeedCases ==
    {[id |-> 1, signals |-> {<<"decision", "REVIEW">>, <<"rule", "active_dispute">>,
        <<"rule", "dispute_rate">>, <<"risk", "high">>, <<"dispute", "active">>}],
     [id |-> 2, signals |-> {<<"decision", "REVIEW">>, <<"rule", "amount_threshold">>,
        <<"risk", "medium">>, <<"seller", "established">>, <<"disputes", "none">>,
        <<"ledger", "balanced">>}],
     [id |-> 3, signals |-> {<<"rule", "ledger_imbalanced">>,
        <<"rule", "ledger_inconsistency">>, <<"risk", "critical">>,
        <<"ledger", "imbalanced">>}],
     [id |-> 4, signals |-> {<<"data", "missing">>, <<"data", "partial">>,
        <<"risk", "medium">>, <<"verdict", "inconclusive">>}],
     [id |-> 5, signals |-> {<<"decision", "BLOCK">>, <<"rule", "new_account">>,
        <<"rule", "amount_threshold">>, <<"risk", "high">>, <<"seller", "new">>}],
     [id |-> 6, signals |-> {<<"decision", "BLOCK">>, <<"rule", "velocity">>,
        <<"rule", "failed_history">>, <<"risk", "high">>,
        <<"pattern", "velocity_spike">>}]}

(* The index file next to them; one that is missing, or no JSON, is ignored. *)
AllCases(index) == SeedCases \cup (IF index.readable THEN index.cases ELSE {})

Shared(query, case) == QuerySignals(query) \cap case.signals
Either(query, case) == QuerySignals(query) \cup case.signals

(* Mutant: the signals shared are counted, not weighed. *)
SimilarityByCount(query, case) == Cardinality(Shared(query, case))
(* In ten-thousandths, rounded. *)
Similarity(query, case) ==
    (20000 * Cardinality(Shared(query, case)) + Cardinality(Either(query, case)))
      \div (2 * Cardinality(Either(query, case)))

RanksBefore(query, a, b) ==
    \/ Similarity(query, a) > Similarity(query, b)
    \/ Similarity(query, a) = Similarity(query, b) /\ a.id < b.id

Matching(query, stored) == {case \in stored : Shared(query, case) # {}}

(* LocalCaseStore.search: the best cases in order, up to the limit.          *)
Place(query, stored, case) ==
    Cardinality({other \in stored : RanksBefore(query, other, case)}) + 1

Kept(query, limit, matching) ==
    {case \in matching : Place(query, matching, case) <= limit}

Ordered(query, kept) ==
    [i \in 1 .. Cardinality(kept) |->
        CHOOSE case \in kept : Place(query, kept, case) = i]

Search(query, limit, stored) ==
    Ordered(query, Kept(query, limit, Matching(query, stored)))

(* find_similar_cases, whose limit a model chooses. *)
MaxLimit == 5
BoundedLimit(limit) ==
    IF limit > MaxLimit THEN MaxLimit ELSE IF limit < 0 THEN 0 ELSE limit

FindSimilarCases(query, limit, index) ==
    Search(query, BoundedLimit(limit), AllCases(index))
===============================================================================
