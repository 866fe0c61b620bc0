---------------------------- MODULE MCInvestigation ----------------------------
(***************************************************************************)
(* Callers of one MCP server and one API, two backfills, and samples for   *)
(* the search.  MCWorlds spends the bounds where they show something: one  *)
(* task with two faults; two tasks with one; two tasks with a cancellation *)
(* or a restart; two backfills, which race an investigation; and a         *)
(* misspelt provider.                                                      *)
(***************************************************************************)
EXTENDS InvestigationProperties

CONSTANTS alice, bob, first, second

MCCallers == {alice, bob}
MCBackfills == {first, second}
MCTask == 1 .. 2

(* A call without a key; one whose key is the word that the first falls back *)
(* to, so that both have one run key; and one about another transaction.     *)
MCRequests ==
    {[txn |-> 1, trigger |-> "BLOCK", key |-> NoKey],
     [txn |-> 1, trigger |-> "MANUAL", key |-> "BLOCK"],
     [txn |-> 2, trigger |-> "MANUAL", key |-> "retry"]}

World(p, f, t, n, b, r, c) ==
    [provider |-> p, faults |-> f, tools |-> t, posts |-> n, backfills |-> b,
     restarts |-> r, cancels |-> c]

MCWorlds ==
    {World("known", 2, 1, 0, 0, 0, 0), World("known", 2, 0, 1, 0, 0, 0),
     World("known", 1, 2, 0, 0, 0, 0), World("known", 0, 2, 0, 0, 0, 1),
     World("known", 0, 2, 0, 0, 1, 0), World("known", 0, 0, 1, 0, 1, 1),
     World("known", 0, 0, 1, 2, 0, 0), World("known", 1, 0, 1, 1, 0, 0),
     World("unknown", 0, 1, 1, 0, 0, 0)}

MCStaticCases == <<"velocity_spike", "active_dispute">>

(* A reason a model may write: null, one of agent/nodes.py, one of its own. *)
MCOwnReasons == {NoReason, "LLM_UNAVAILABLE", "no data"}

MCReplies == {"conclusion", "admission", "denial", "untitled", "empty", "prose"}

MCLimits == {-1, 0, 2, 9}

MCQueries ==
    [decision : {Absent, "block", "REVIEW"}, score : {Absent, 29, 30, 70, 85},
     findings : SUBSET {<<"", "Velocity">>, <<"", "amount_threshold">>,
                        <<"ledger", "imbalanced">>, <<"", "">>}]

(* Texts: null, one about nothing, one about two rules. *)
MCTexts == {Absent, {}, {"velocity", "seller_blocked"}}
MCLists == {Absent, {}, {Absent, {"new_account"}}}

MCEvidence ==
    {Absent, {}}
      \cup {{item} : item \in [dict : BOOLEAN, source : {{}, {"dispute_rate"}}, fact : MCTexts,
                               significance : {Absent, {"failed_history"}}]}

MCPayloads ==
    [level : {Absent, "medium", "HIGH"}, summary : MCTexts, key_findings : MCLists,
     recommended_actions : MCLists, evidence : MCEvidence]

SomePayload ==
    [level |-> "high", summary |-> {"velocity"}, key_findings |-> {},
     recommended_actions |-> {}, evidence |-> {}]

(* Every call that a query can be, alone; two calls; and every payload.      *)
MCRuns ==
    [calls : {{query} : query \in MCQueries}, level : {Absent, "HIGH"},
     payload : {SomePayload}]
      \cup [calls : {{}, {[decision |-> "REVIEW", score |-> 85, findings |-> {}],
                         [decision |-> "block", score |-> Absent,
                          findings |-> {<<"", "Velocity">>}]}},
            level : {Absent, "high"}, payload : MCPayloads]

MCIndexes ==
    {[readable |-> FALSE, cases |-> {}],
     [readable |-> TRUE,
      cases |-> {[id |-> 7, signals |-> {<<"decision", "BLOCK">>, <<"risk", "critical">>}],
                 [id |-> 8, signals |-> {<<"risk", "medium">>, <<"rule", "velocity">>}]}]}
===============================================================================
