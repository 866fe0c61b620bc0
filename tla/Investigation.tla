---------------------------- MODULE Investigation ----------------------------
(***************************************************************************)
(* One investigation: the graph of fraud-engine/agent/graph.py, run as a   *)
(* task through the nodes of agent/nodes.py, up to the row that            *)
(* agent/persistence/audit.py writes.  A message is reduced to whether it  *)
(* asks for tools, a verdict to its label and to what it says of its own   *)
(* degradation, and an audit entry to its action.                          *)
(***************************************************************************)
EXTENDS CaseCorpus

CONSTANTS
    Task,            \* tasks, numbers: the runs of the graph
    Transactions,
    MaxIterations,   \* MAX_ITERATIONS of agent/config.py
    RecursionLimit,  \* supersteps LangGraph allows one run
    Labels,          \* verdicts the model may give
    OwnReasons,      \* degradation reasons the model may give
    Replies          \* what the synthesis may answer

ASSUME InvestigationAssumption ==
    /\ MaxIterations \in Nat \ {0} /\ RecursionLimit \in Nat
    /\ 2 * MaxIterations + 3 <= RecursionLimit
    /\ None \notin Labels /\ None \notin Task

VARIABLES
    graph,    \* each task's state
    provider, \* whether AGENT_LLM_PROVIDER names a provider
    faults    \* bound: how much may still go wrong

graphVars == <<graph, provider, faults>>

Untold == "untold"       \* a key the payload does not have
NoReason == "none"       \* null

NoPayload == [label |-> None, degraded |-> Untold, reason |-> Untold, empty |-> TRUE]

Unused ==
    [at |-> "unused", mode |-> None, txn |-> None, key |-> None, iteration |-> 0,
     steps |-> 0, degraded |-> FALSE, reason |-> NoReason, wants |-> FALSE,
     payload |-> NoPayload, trail |-> <<>>, run |-> None]

Nodes == {"start", "collect", "reason", "tools", "synthesize", "audit"}
(* Still running: in a node, closing the connection, or about to answer.     *)
Live(t) == graph[t].at \in Nodes \cup {"close", "finish"}
Ended(t) == graph[t].at \in {"done", "failed", "cut", "cancelled"}

GraphInit == graph = [t \in Task |-> Unused]

-------------------------------------------------------------------------------
In(t, node) == graph[t].at = node

(* A node returns the state it leaves, and the next superstep begins, unless *)
(* the run has used all of them up (GraphRecursionError).                    *)
Superstep(t, next, state) ==
    graph' = [graph EXCEPT ![t] =
        [state EXCEPT !.at = IF next \in Nodes /\ graph[t].steps + 1 >= RecursionLimit
                             THEN "cut" ELSE next,
                      !.steps = graph[t].steps + 1]]

Logged(t, actions) == graph[t].trail \o actions

(* Something goes wrong that the code is written to survive, or not.         *)
Fault == faults > 0 /\ faults' = faults - 1
NoFault == UNCHANGED faults
Fail(t) == graph' = [graph EXCEPT ![t].at = "failed"]

StartNode(t) ==
    /\ In(t, "start")
    /\ Superstep(t, "collect", [graph[t] EXCEPT !.iteration = 0,
                                               !.trail = <<"investigation_started">>])
    /\ NoFault
    /\ UNCHANGED <<provider, rows>>

(* Errors of the NestJS API become part of the context.                      *)
CollectNode(t) ==
    /\ In(t, "collect")
    /\ Superstep(t, "reason", [graph[t] EXCEPT !.trail = Logged(t, <<"context_collected">>)])
    /\ NoFault
    /\ UNCHANGED <<provider, rows>>

(* Except for a body that is no JSON: the node, or a tool, raises.           *)
FetchRaises(t) ==
    /\ In(t, "collect") \/ In(t, "tools")
    /\ Fault
    /\ Fail(t)
    /\ UNCHANGED <<provider, rows>>

(* Mutant: a model that asks for tools gets them, cap or not. *)
RouteToolsFirst(iteration, wants) ==
    IF wants THEN "tools" ELSE "synthesize"
(* _route_after_reason: the cap comes before the tool calls.                 *)
RouteAfterReason(iteration, wants) ==
    IF iteration >= MaxIterations THEN "synthesize"
    ELSE IF wants THEN "tools" ELSE "synthesize"

(* get_chat_model: a name nobody knows raises ValueError at the first call.  *)
ModelBuilt == provider = "known"

ReasonNode(t) ==
    /\ In(t, "reason") /\ ModelBuilt
    /\ \E wants \in BOOLEAN :
          LET iteration == graph[t].iteration + 1
          IN  Superstep(t, RouteAfterReason(iteration, wants),
                [graph[t] EXCEPT !.iteration = iteration, !.wants = wants,
                   !.trail = Logged(t, <<IF wants THEN "reasoning_tools" ELSE "reasoning">>)])
    /\ NoFault
    /\ UNCHANGED <<provider, rows>>

(* The provider raises, or none could be built: the node answers             *)
(* INVESTIGATION_COMPLETE itself, and remembers that it was degraded.        *)
ReasonFails(t) ==
    /\ In(t, "reason")
    /\ \/ ModelBuilt /\ Fault
       \/ ~ModelBuilt /\ NoFault
    /\ LET iteration == graph[t].iteration + 1
       IN  Superstep(t, RouteAfterReason(iteration, FALSE),
             [graph[t] EXCEPT !.iteration = iteration, !.wants = FALSE,
                !.degraded = TRUE, !.reason = "LLM_UNAVAILABLE",
                !.trail = Logged(t, <<"llm_error">>)])
    /\ UNCHANGED <<provider, rows>>

ToolsNode(t) ==
    /\ In(t, "tools")
    /\ Superstep(t, "reason", graph[t])
    /\ NoFault
    /\ UNCHANGED <<provider, rows>>

-------------------------------------------------------------------------------
(* _fallback_verdict *)
FallbackVerdict ==
    [label |-> "INCONCLUSIVE", degraded |-> "true", reason |-> "LLM_UNAVAILABLE",
     empty |-> FALSE]

(* The synthesis call raises. *)
SynthesisFails(t) ==
    /\ In(t, "synthesize") /\ ModelBuilt
    /\ Fault
    /\ Superstep(t, "audit",
         [graph[t] EXCEPT
            !.payload = FallbackVerdict,
            !.degraded = TRUE, !.reason = "LLM_UNAVAILABLE",
            !.trail = Logged(t, <<"llm_error", "verdict_produced">>)])
    /\ UNCHANGED <<provider, rows>>

(* What a reply parses to.  A reply of prose is replaced by a fallback; a    *)
(* model may speak of its own degradation and give any reason for it, those  *)
(* of agent/nodes.py included, or leave the label out.                       *)
Parsed(reply) ==
    {[label |-> label, degraded |-> degraded, reason |-> reason,
      empty |-> reply = "empty"] :
        label \in CASE reply = "prose" -> {"INCONCLUSIVE"}
                    [] reply \in {"empty", "untitled"} -> {None}
                    [] OTHER -> Labels,
        degraded \in CASE reply \in {"prose", "admission"} -> {"true"}
                       [] reply = "denial" -> {"false"}
                       [] OTHER -> {Untold},
        reason \in CASE reply = "prose" -> {"OUTPUT_UNPARSEABLE"}
                     [] reply \in {"admission", "denial"} -> {Untold} \cup OwnReasons
                     [] OTHER -> {Untold}}

(* A reasoning leg that failed before is not forgotten. *)
Sticky(t) == graph[t].degraded

CutOff(t) == graph[t].iteration >= MaxIterations

Degraded(t, verdict) == Sticky(t) \/ verdict.degraded = "true" \/ CutOff(t)

(* verdict.get: the reason of an admission. *)
Admitted(verdict) == IF verdict.reason = Untold THEN NoReason ELSE verdict.reason

(* Mutant: what the model admits replaces a failure before it. *)
ReasonOfTheLast(t, verdict) ==
    IF verdict.degraded = "true" THEN Admitted(verdict)
    ELSE IF graph[t].reason # NoReason THEN graph[t].reason
    ELSE IF CutOff(t) THEN "ITERATIONS_EXHAUSTED" ELSE NoReason
(* The earlier reason wins; an admission brings its own, whatever it says.   *)
Reason(t, verdict) ==
    IF graph[t].reason # NoReason THEN graph[t].reason
    ELSE IF verdict.degraded = "true" THEN Admitted(verdict)
    ELSE IF CutOff(t) THEN "ITERATIONS_EXHAUSTED" ELSE NoReason

(* setdefault: a payload that says anything of its degradation keeps it, and *)
(* an empty one no longer is.                                                *)
SelfDescribing(verdict, degraded, reason) ==
    IF degraded
    THEN [verdict EXCEPT !.degraded = IF @ = Untold THEN "true" ELSE @,
                         !.reason = IF @ = Untold THEN reason ELSE @, !.empty = FALSE]
    ELSE verdict

SynthesizeNode(t) ==
    /\ In(t, "synthesize") /\ ModelBuilt
    /\ \E reply \in Replies : \E verdict \in Parsed(reply) :
          LET degraded == Degraded(t, verdict)
              reason == Reason(t, verdict)
          IN  /\ Superstep(t, "audit",
                   [graph[t] EXCEPT
                      !.payload = SelfDescribing(verdict, degraded, reason),
                      !.degraded = degraded, !.reason = reason,
                      !.trail = Logged(t, <<"verdict_produced">>)])
              /\ IF reply = "conclusion" THEN NoFault ELSE Fault
    /\ UNCHANGED <<provider, rows>>

(* The reply is JSON but no object, and has no get; or no model could be     *)
(* built, which this node, unlike the other, does not catch.                 *)
SynthesisRaises(t) ==
    /\ In(t, "synthesize")
    /\ \/ ModelBuilt /\ Fault
       \/ ~ModelBuilt /\ NoFault
    /\ Fail(t)
    /\ UNCHANGED <<provider, rows>>

-------------------------------------------------------------------------------
(* Mutant: the entries are persisted without the final one. *)
PersistedTrailShort(trail) == Front(trail)
PersistedTrail(trail) == trail

(* audit_node and persist_investigation_run: the run and its entries commit  *)
(* in one transaction, or nothing does and the run goes on without an id.    *)
AuditNode(t) ==
    /\ In(t, "audit")
    /\ LET trail == Logged(t, <<"investigation_complete">>)
       IN  /\ rows' = Append(rows, [txn |-> graph[t].txn, payload |-> graph[t].payload,
                                    trail |-> PersistedTrail(trail)])
           /\ Superstep(t, "close", [graph[t] EXCEPT !.trail = trail, !.run = Len(rows) + 1])
    /\ NoFault
    /\ UNCHANGED provider

(* No DATABASE_URL, no connection, or a transaction that is rolled back.     *)
AuditFails(t) ==
    /\ In(t, "audit")
    /\ Fault
    /\ \E connected \in BOOLEAN :
          Superstep(t, IF connected THEN "close" ELSE "finish",
                    [graph[t] EXCEPT !.trail = Logged(t, <<"investigation_complete">>)])
    /\ UNCHANGED <<provider, rows>>

CloseConnection(t) ==
    /\ In(t, "close")
    /\ graph' = [graph EXCEPT ![t].at = "finish"]
    /\ NoFault
    /\ UNCHANGED <<provider, rows>>

(* close() raises out of the finally clause, and the run fails although its  *)
(* row is committed.                                                         *)
CloseRaises(t) ==
    /\ In(t, "close")
    /\ Fault
    /\ Fail(t)
    /\ UNCHANGED <<provider, rows>>

NodeStep(t) ==
    \/ StartNode(t) \/ CollectNode(t) \/ FetchRaises(t) \/ ReasonNode(t)
    \/ ReasonFails(t) \/ ToolsNode(t) \/ SynthesisFails(t) \/ SynthesizeNode(t)
    \/ SynthesisRaises(t) \/ AuditNode(t) \/ AuditFails(t) \/ CloseConnection(t)
    \/ CloseRaises(t)
===============================================================================
