------------------------------ MODULE CaseCorpus ------------------------------
(***************************************************************************)
(* The corpus of past cases (table Case) and the script that fills it from *)
(* the static cases and the persisted investigations                       *)
(* (fraud-engine/scripts/backfill_embeddings.py).  A case is identified by *)
(* where it comes from: <<"seed", name>> or <<"run", id>>.                 *)
(***************************************************************************)
EXTENDS Integers, FiniteSets, SequencesExt

CONSTANTS
    Backfills,    \* processes that run the script
    StaticCases,  \* the names of SEED_CASES and SYNTHETIC_CASES, in order
    BatchSize,    \* --batch-size
    Limits,       \* what --limit may say: a number, or more than any bound
    None          \* SQL NULL

ASSUME CorpusAssumption ==
    /\ BatchSize \in Nat \ {0} /\ Limits \subseteq Nat
    /\ StaticCases \in Seq(Range(StaticCases)) /\ IsInjective(StaticCases)

VARIABLES
    rows,      \* InvestigationRun with its audit entries, in the order of id
    cases,     \* the caseIds of Case
    backfill   \* each process's progress

corpusVars == <<cases, backfill>>

NotRunning == [at |-> "idle", limit |-> 0, existing |-> {}, candidates |-> <<>>,
               todo |-> <<>>, embedded |-> 0, total |-> 0]

CorpusInit ==
    /\ rows = <<>>
    /\ cases = {}
    /\ backfill = [b \in Backfills |-> NotRunning]

-------------------------------------------------------------------------------
AtStep(b, place) == backfill[b].at = place

(* _existing_case_ids: read once, before anything else. *)
ReadExisting(b) ==
    /\ AtStep(b, "idle")
    /\ \E limit \in Limits :
          backfill' = [backfill EXCEPT ![b] =
                         [NotRunning EXCEPT !.at = "fetch", !.limit = limit,
                                            !.existing = cases]]
    /\ UNCHANGED <<rows, cases>>

(* Numbers in ascending order.                                               *)
InOrder(numbers) ==
    CHOOSE list \in [1 .. Cardinality(numbers) -> numbers] :
        \A i, j \in DOMAIN list : i < j => list[i] < list[j]

(* _fetch_run_rows: the runs with a verdict, oldest first, up to the limit.  *)
RunRows(limit) ==
    LET concluded == InOrder({i \in DOMAIN rows : rows[i].payload.label # None})
    IN  SubSeq(concluded, 1, IF limit < Len(concluded) THEN limit ELSE Len(concluded))

(* The static cases, then the runs.                                          *)
AllRows(limit) ==
    [i \in DOMAIN StaticCases |-> <<"seed", StaticCases[i]>>]
      \o [i \in DOMAIN RunRows(limit) |-> <<"run", RunRows(limit)[i]>>]

(* Those of them that do not exist already, in the same order.               *)
Candidates(limit, existing) ==
    LET all == AllRows(limit)
        new == InOrder({i \in DOMAIN all : all[i] \notin existing})
    IN  [n \in DOMAIN new |-> all[new[n]]]

(* With nothing to embed it reports at once. *)
FetchRunRows(b) ==
    /\ AtStep(b, "fetch")
    /\ LET found == Candidates(backfill[b].limit, backfill[b].existing)
       IN  backfill' = [backfill EXCEPT
             ![b].candidates = found, ![b].todo = found,
             ![b].at = IF found = <<>> THEN "reported" ELSE "embed",
             ![b].total = IF found = <<>> THEN Cardinality(backfill[b].existing) ELSE 0]
    /\ UNCHANGED <<rows, cases>>

Batch(b) ==
    SubSeq(backfill[b].todo, 1,
           IF BatchSize < Len(backfill[b].todo) THEN BatchSize ELSE Len(backfill[b].todo))

(* Mutant: the next batch starts one case too late. *)
NextBatchSkipsOne(b) == SubSeq(backfill[b].todo, BatchSize + 2, Len(backfill[b].todo))
NextBatch(b) == SubSeq(backfill[b].todo, BatchSize + 1, Len(backfill[b].todo))

(* One transaction for each batch: Case.caseId is unique, and a case another *)
(* process has inserted meanwhile ends the script.  The last batch is        *)
(* followed by the report: the size of the table as it was read, plus what   *)
(* has been embedded.                                                        *)
EmbedBatch(b) ==
    /\ AtStep(b, "embed")
    /\ IF Range(Batch(b)) \cap cases # {}
       THEN /\ backfill' = [backfill EXCEPT ![b].at = "failed"]
            /\ UNCHANGED cases
       ELSE LET embedded == backfill[b].embedded + Len(Batch(b))
            IN  /\ cases' = cases \cup Range(Batch(b))
                /\ backfill' = [backfill EXCEPT
                     ![b].todo = NextBatch(b), ![b].embedded = embedded,
                     ![b].at = IF NextBatch(b) = <<>> THEN "reported" ELSE "embed",
                     ![b].total = IF NextBatch(b) = <<>>
                                  THEN Cardinality(backfill[b].existing) + embedded
                                  ELSE 0]
    /\ UNCHANGED rows

(* The process dies, or the embedding model fails, before or between batches.*)
KillBackfill(b) ==
    /\ AtStep(b, "fetch") \/ AtStep(b, "embed")
    /\ backfill' = [backfill EXCEPT ![b].at = "failed"]
    /\ UNCHANGED <<rows, cases>>

(* Somebody looks at how it ended, and may run it again. *)
RunAgain(b) ==
    /\ AtStep(b, "failed") \/ AtStep(b, "reported")
    /\ backfill' = [backfill EXCEPT ![b] = NotRunning]
    /\ UNCHANGED <<rows, cases>>

BackfillStep(b) ==
    \/ ReadExisting(b) \/ FetchRunRows(b) \/ EmbedBatch(b) \/ KillBackfill(b)
    \/ RunAgain(b)
===============================================================================
