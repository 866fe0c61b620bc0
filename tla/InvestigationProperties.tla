------------------------ MODULE InvestigationProperties ------------------------
(***************************************************************************)
(* What the callers of the agent, and the readers of what it leaves        *)
(* behind, may rely on.                                                    *)
(***************************************************************************)
EXTENDS InvestigationCalls, CaseSearch

CONSTANTS
    SampleRuns,     \* persisted investigations
    SampleQueries, SampleLimits, SampleIndexes  \* calls of find_similar_cases

(* Every run of the graph keeps its counts, and every id it holds is that of *)
(* a row, of a task, of its own run key.                                     *)
AgentTypeOK ==
    /\ \A t \in Task :
          /\ graph[t].iteration \in 0 .. MaxIterations
          /\ graph[t].steps \in 0 .. 2 * MaxIterations + 3
          /\ graph[t].run \in DOMAIN rows \cup {None}
          /\ graph[t].key \in RunKeys \cup {None}
    /\ \A k \in RunKeys :
          /\ inflight[k] \in Task \cup {None}
          /\ inflight[k] # None => graph[inflight[k]].key = k
    /\ \A b \in Backfills : Range(backfill[b].todo) \subseteq Range(backfill[b].candidates)
    /\ faults >= 0 /\ \A what \in DOMAIN budget : budget[what] >= 0

(* However often the model asks for tools, the cap ends the loop before      *)
(* LangGraph's own limit does, which would throw the context away.           *)
NeverCutShort == \A t \in Task : graph[t].at # "cut"

(* A verdict that was not reasoned to says so: in the payload that is        *)
(* persisted, unless the model itself wrote the contrary into it, and in the *)
(* answer of POST /investigate.  A failed call of the model stays the reason *)
(* whatever the model says of itself later; but the model may write the same *)
(* reason without one (agent/nodes.py takes an admission as it is).          *)
Unreasoned(trail) ==
    \/ "llm_error" \in Range(trail)
    \/ \E i \in 1 .. Len(trail) - 1 :
          trail[i] = "reasoning_tools" /\ trail[i + 1] = "verdict_produced"

FailuresAreMarked ==
    /\ \A i \in DOMAIN rows : Unreasoned(rows[i].trail) =>
          rows[i].payload.degraded # Untold /\ rows[i].payload.reason # Untold
    /\ \A c \in Callers : "trail" \in DOMAIN caller[c].answer =>
          /\ Unreasoned(caller[c].answer.trail) => caller[c].answer.degraded
          /\ "llm_error" \in Range(caller[c].answer.trail) =>
                caller[c].answer.reason = "LLM_UNAVAILABLE"

(* An answer that names a run names the row of its own transaction, with the *)
(* verdict and the whole trail that the caller was given.                    *)
AnswersMatchRecord ==
    /\ \A c \in Callers :
          LET answer == caller[c].answer
          IN  "run" \in DOMAIN answer /\ answer.run # None =>
                /\ rows[answer.run].txn = caller[c].txn
                /\ rows[answer.run].payload.label = answer.label
                /\ "trail" \in DOMAIN answer => answer.trail = rows[answer.run].trail
    /\ \A k \in RunKeys : completed[k] # None /\ completed[k].run # None =>
          trails[k] = rows[completed[k].run].trail

(* Nobody joins a task that no owner will remove: an entry left in flight    *)
(* would answer every later call with the one failure, for ever.             *)
InFlightIsOwned ==
    \A k \in RunKeys : inflight[k] # None =>
        \E c \in Callers : /\ caller[c].at = "waiting" /\ caller[c].owner
                           /\ caller[c].task = inflight[k] /\ caller[c].key = k

(* The tool implements Deduplication.                                        *)
Working(key) ==
    Cardinality({t \in Task : graph[t].mode = "mcp" /\ graph[t].key = key /\ Live(t)})

Abstract == INSTANCE Deduplication
    WITH Keys <- RunKeys, working <- [k \in RunKeys |-> Working(k)],
         settled <- completed

(* At most one investigation works for a run key, none beside a cached       *)
(* answer, and an answer stays what it was until the server restarts.        *)
Deduplicates == Abstract!Spec

(* Every call is answered, whatever fails, and whoever cancels.              *)
CallsEnd == \A c \in Callers : caller[c].at = "waiting" ~> caller[c].at = "idle"

(* What a backfill reports is true when it says so and ever after, although  *)
(* it read the table once and other backfills insert meanwhile: everything   *)
(* it found is in the corpus, and its total counts no case twice.            *)
BackfillReportHolds ==
    \A b \in Backfills : AtStep(b, "reported") =>
        LET known == backfill[b].existing \cup Range(backfill[b].candidates)
        IN  known \subseteq cases /\ backfill[b].total = Cardinality(known)

(* How a signal of the index file is written in the table: a decision in     *)
(* lower case, everything else as it is.                                     *)
AsInTable(signal) ==
    IF signal[1] = "decision" THEN <<"decision", InLower(signal[2])>> ELSE signal

SignalsAgree(run) ==
    Readable(run.payload) =>
        /\ BackfilledSignals(run) = {AsInTable(signal) : signal \in IndexedSignals(run)}
        /\ \A call \in run.calls : QuerySignals(call) \subseteq IndexedSignals(run)

(* A definition of its own, so that TLC computes it once. *)
Misread == {run \in SampleRuns : ~SignalsAgree(run)}

(* backfill_embeddings.py: "Mirrors agent.rag.indexer.build_case_from_run":  *)
(* though each of store, indexer and script has code of its own, both        *)
(* corpora hold the same signals of a run that the indexer can read, as they *)
(* are stored, and a query that an investigation made finds all its signals  *)
(* on that investigation's case.                                             *)
SameSignals == [][Misread = {}]_vars

(* What the rounding of the similarity to four places needs: two sets of     *)
(* signals together smaller than a hundred.                                  *)
Comparable(query, case) ==
    /\ IsFiniteSet(case.signals) /\ IsFiniteSet(QuerySignals(query))
    /\ Cardinality(Either(query, case)) < 100

(* The cases a query can rank: finitely many, each with an id of its own.    *)
Rankable(query, stored) ==
    /\ IsFiniteSet(stored)
    /\ \A a \in stored : a.id \in Int /\ Comparable(query, a)
    /\ \A a, b \in stored : a.id = b.id => a = b

ASSUME SearchAssumption ==
    /\ \A limit \in SampleLimits : limit \in Int
    /\ \A query \in SampleQueries, index \in SampleIndexes :
          Rankable(query, AllCases(index))

Closer(query, a, b) ==
    Cardinality(Shared(query, a)) * Cardinality(Either(query, b))
      > Cardinality(Shared(query, b)) * Cardinality(Either(query, a))

ReturnsBest(query, limit, found, matching) ==
    /\ Range(found) \subseteq matching
    /\ Len(found) = Min({Cardinality(matching), BoundedLimit(limit)})
    /\ \A i \in DOMAIN found :
          /\ \A case \in matching \ Range(found) : ~Closer(query, case, found[i])
          /\ \A j \in 1 .. i - 1 : ~Closer(query, found[i], found[j])
    /\ \A case \in matching : case.signals = QuerySignals(query) /\ found # <<>> =>
          found[1].signals = QuerySignals(query)

FoundBest(query, limit, index) ==
    ReturnsBest(query, limit, FindSimilarCases(query, limit, index),
                Matching(query, AllCases(index)))

Misled ==
    {call \in SampleQueries \X SampleLimits \X SampleIndexes :
        ~FoundBest(call[1], call[2], call[3])}

(* No case left out overlaps with the query more than one that was returned, *)
(* nor does a later one more than an earlier; a case with exactly the        *)
(* query's signals comes first; and the limit is used up.                    *)
SearchReturnsBest == [][Misled = {}]_vars
===============================================================================
