-------------------------- MODULE InvestigationProofs --------------------------
(***************************************************************************)
(* Proofs about investigations, for any number of tasks, callers and keys: *)
(* the cap ends the loop before LangGraph's limit does, no key stays in    *)
(* flight without its owner, and the MCP tool implements Deduplication.    *)
(***************************************************************************)
EXTENDS InvestigationProperties, TLAPS, FiniteSetTheorems, SequenceTheorems

(* The record of a task has its fields and no other.                         *)
IsState(s) ==
    s = [at |-> s.at, mode |-> s.mode, txn |-> s.txn, key |-> s.key,
         iteration |-> s.iteration, steps |-> s.steps, degraded |-> s.degraded,
         reason |-> s.reason, wants |-> s.wants, payload |-> s.payload,
         trail |-> s.trail, run |-> s.run]

(* graph is a function to such records: an EXCEPT changes what it names and  *)
(* nothing else.                                                             *)
GraphShape ==
    /\ graph = [t \in Task |-> graph[t]]
    /\ \A t \in Task : IsState(graph[t])

(* What a step may leave of a task's record besides its place and counts.    *)
SameTask(s, r) ==
    /\ s.mode = r.mode /\ s.txn = r.txn /\ s.key = r.key /\ s.run = r.run
    /\ s.degraded = r.degraded /\ s.reason = r.reason /\ s.payload = r.payload
    /\ s.trail = r.trail

(* Superstep, spelled out: where the task goes, and that nothing else of the *)
(* graph moves.                                                              *)
LEMMA SuperstepEffect ==
    ASSUME GraphShape, NEW t \in Task, NEW next, NEW state, IsState(state),
           Superstep(t, next, state)
    PROVE  /\ GraphShape'
           /\ \A u \in Task \ {t} : graph'[u] = graph[u]
           /\ graph'[t].at = IF next \in Nodes /\ graph[t].steps + 1 >= RecursionLimit
                             THEN "cut" ELSE next
           /\ graph'[t].steps = graph[t].steps + 1
           /\ graph'[t].iteration = state.iteration
           /\ SameTask(graph'[t], state)
  <1> DEFINE place == IF next \in Nodes /\ graph[t].steps + 1 >= RecursionLimit
                      THEN "cut" ELSE next
  <1>0. PICK left : left = [state EXCEPT !.at = place, !.steps = graph[t].steps + 1]
    OBVIOUS
  <1>1. graph' = [graph EXCEPT ![t] = left]
    BY <1>0 DEF Superstep
  <1>2. /\ left.at = place /\ left.steps = graph[t].steps + 1
        /\ left.iteration = state.iteration /\ SameTask(left, state) /\ IsState(left)
    <2> HIDE DEF place
    <2> QED BY <1>0 DEF IsState, SameTask
  <1>3. graph'[t] = left /\ \A u \in Task \ {t} : graph'[u] = graph[u]
    BY <1>1 DEF GraphShape
  <1>4. GraphShape'
    BY <1>1, <1>2, <1>3 DEF GraphShape
  <1> QED BY <1>2, <1>3, <1>4

-------------------------------------------------------------------------------
(* Every place of a task but "cut".                                          *)
Places == Nodes \cup {"unused", "close", "finish", "done", "failed", "cancelled"}

(* Where a task is bounds the supersteps it has used by the iterations it    *)
(* has made: two for each, and the nodes before and after the loop.          *)
PacedAt(at, steps, iteration) ==
    /\ at \in Places
    /\ steps \in Nat /\ iteration \in 0 .. MaxIterations
    /\ steps <= 3 + 2 * iteration
    /\ at = "start" => steps = 0
    /\ at = "collect" => steps = 1 /\ iteration = 0
    /\ at = "reason" => steps <= 2 + 2 * iteration /\ iteration < MaxIterations
    /\ at = "tools" => steps <= 1 + 2 * iteration /\ iteration < MaxIterations
    /\ at = "synthesize" => steps <= 1 + 2 * iteration
    /\ at = "audit" => steps <= 2 + 2 * iteration

Paced(s) == PacedAt(s.at, s.steps, s.iteration)

(* The actions an audit entry may have.                                      *)
Entries ==
    {"investigation_started", "context_collected", "reasoning", "reasoning_tools",
     "llm_error", "verdict_produced", "investigation_complete"}

EndsInTools(trail) == trail # <<>> /\ trail[Len(trail)] = "reasoning_tools"

(* What the trail of a task that goes to a place says of it: a failed call   *)
(* of the model is remembered; no verdict is entered, and no row written,    *)
(* before its node; the cap alone leads from tool calls to the synthesis;    *)
(* and from the verdict on, one that was not reasoned to is marked.  The     *)
(* model may admit a failure of the same name, so the trail says more than   *)
(* the reason does.                                                          *)
ToldAt(at, s) ==
    /\ s.trail \in Seq(Entries)
    /\ "llm_error" \in Range(s.trail) => s.reason = "LLM_UNAVAILABLE" /\ s.degraded
    /\ s.reason # Untold
    /\ at \in {"unused", "start"} => s.trail = <<>>
    /\ at \in {"start", "collect", "reason", "tools", "synthesize"} =>
          "verdict_produced" \notin Range(s.trail)
    /\ at \in Nodes \cup {"unused"} => s.run = None
    /\ at = "synthesize" /\ EndsInTools(s.trail) => s.iteration >= MaxIterations
    /\ at \in {"audit", "close", "finish", "done"} /\ Unreasoned(s.trail) =>
          s.degraded /\ s.payload.degraded # Untold /\ s.payload.reason # Untold

Told(s) == ToldAt(s.at, s)

(* An entry at the end of a trail.                                           *)
LEMMA EntryLogged ==
    ASSUME NEW trail \in Seq(Entries), NEW entry \in Entries
    PROVE  LET new == trail \o <<entry>>
           IN  /\ new \in Seq(Entries) /\ Len(new) = Len(trail) + 1
               /\ Range(new) = Range(trail) \cup {entry}
               /\ new[Len(new)] = entry /\ new # <<>>
               /\ \A i \in 1 .. Len(trail) : new[i] = trail[i]
  <1> DEFINE new == trail \o <<entry>>
  <1>1. /\ new \in Seq(Entries) /\ Len(new) = Len(trail) + 1
        /\ new[Len(new)] = entry /\ new # <<>>
        /\ \A i \in 1 .. Len(trail) : new[i] = trail[i]
    OBVIOUS
  <1>2. DOMAIN new = 1 .. Len(trail) + 1 /\ DOMAIN trail = 1 .. Len(trail)
        /\ Len(trail) \in Nat
    BY <1>1
  <1> HIDE DEF new
  <1>3. Range(new) = Range(trail) \cup {entry}
    <2>1. ASSUME NEW x \in Range(new)
          PROVE  x \in Range(trail) \cup {entry}
      <3>1. PICK i \in DOMAIN new : x = new[i]
        BY DEF Range
      <3>2. i \in 1 .. Len(trail) \/ i = Len(new)
        BY <1>1, <1>2
      <3> QED BY <1>1, <1>2, <3>1, <3>2 DEF Range
    <2>2. ASSUME NEW x \in Range(trail)
          PROVE  x \in Range(new)
      <3>1. PICK i \in DOMAIN trail : x = trail[i]
        BY DEF Range
      <3>2. i \in DOMAIN new /\ new[i] = x
        BY <1>1, <1>2, <3>1
      <3> QED BY <3>2 DEF Range
    <2>3. entry \in Range(new)
      <3>1. Len(new) \in DOMAIN new
        BY <1>1, <1>2
      <3> QED BY <1>1, <3>1 DEF Range
    <2> QED BY <2>1, <2>2, <2>3
  <1> QED BY <1>1, <1>3 DEF new

(* Two entries at once.                                                      *)
LEMMA TwoLogged ==
    ASSUME NEW trail \in Seq(Entries), NEW a \in Entries, NEW b \in Entries
    PROVE  LET new == trail \o <<a, b>>
           IN  new \in Seq(Entries) /\ Range(new) = Range(trail) \cup {a, b}
  <1> DEFINE new == trail \o <<a, b>>
  <1>1. /\ new \in Seq(Entries) /\ Len(new) = Len(trail) + 2
        /\ new[Len(trail) + 1] = a /\ new[Len(trail) + 2] = b
        /\ \A i \in 1 .. Len(trail) : new[i] = trail[i]
    OBVIOUS
  <1>2. DOMAIN new = 1 .. Len(trail) + 2 /\ DOMAIN trail = 1 .. Len(trail)
        /\ Len(trail) \in Nat
    BY <1>1
  <1> HIDE DEF new
  <1>3. ASSUME NEW x \in Range(new)
        PROVE  x \in Range(trail) \cup {a, b}
    <2>1. PICK i \in DOMAIN new : x = new[i]
      BY DEF Range
    <2>2. i \in 1 .. Len(trail) \/ i = Len(trail) + 1 \/ i = Len(trail) + 2
      BY <1>2
    <2> QED BY <1>1, <1>2, <2>1, <2>2 DEF Range
  <1>4. ASSUME NEW x \in Range(trail)
        PROVE  x \in Range(new)
    <2>1. PICK i \in DOMAIN trail : x = trail[i]
      BY DEF Range
    <2>2. i \in DOMAIN new /\ new[i] = x
      BY <1>1, <1>2, <2>1
    <2> QED BY <2>2 DEF Range
  <1>5. a \in Range(new) /\ b \in Range(new)
    <2>1. Len(trail) + 1 \in DOMAIN new /\ Len(trail) + 2 \in DOMAIN new
      BY <1>2
    <2> QED BY <1>1, <2>1 DEF Range
  <1> QED BY <1>1, <1>3, <1>4, <1>5 DEF new

(* What the verdict's entry can reveal: a failed call before it, or tool     *)
(* calls just before it.                                                     *)
LEMMA VerdictLogged ==
    ASSUME NEW trail \in Seq(Entries), "verdict_produced" \notin Range(trail),
           Unreasoned(trail \o <<"verdict_produced">>)
    PROVE  "llm_error" \in Range(trail) \/ EndsInTools(trail)
  <1> DEFINE new == trail \o <<"verdict_produced">>
  <1>1. /\ Range(new) = Range(trail) \cup {"verdict_produced"}
        /\ Len(new) = Len(trail) + 1 /\ Len(trail) \in Nat
        /\ \A i \in 1 .. Len(trail) : new[i] = trail[i]
    BY EntryLogged DEF Entries
  <1> HIDE DEF new
  <1>2. CASE "llm_error" \in Range(new)
    BY <1>1, <1>2
  <1>3. CASE "llm_error" \notin Range(new)
    <2>1. PICK i \in 1 .. Len(new) - 1 :
             new[i] = "reasoning_tools" /\ new[i + 1] = "verdict_produced"
      BY <1>3 DEF Unreasoned, new
    <2>2. i \in 1 .. Len(trail) /\ trail[i] = "reasoning_tools"
      BY <1>1, <2>1
    <2>3. ASSUME i < Len(trail)
          PROVE  FALSE
      <3>1. i + 1 \in DOMAIN trail /\ trail[i + 1] = "verdict_produced"
        BY <1>1, <2>1, <2>2, <2>3
      <3> QED BY <3>1 DEF Range
    <2>4. i = Len(trail)
      BY <1>1, <2>2, <2>3
    <2> QED BY <1>1, <2>2, <2>4 DEF EndsInTools
  <1> QED BY <1>2, <1>3

(* The last entry reveals nothing more.                                      *)
LEMMA CompletionLogged ==
    ASSUME NEW trail \in Seq(Entries), Unreasoned(trail \o <<"investigation_complete">>)
    PROVE  Unreasoned(trail)
  <1> DEFINE new == trail \o <<"investigation_complete">>
  <1>1. /\ Range(new) = Range(trail) \cup {"investigation_complete"}
        /\ Len(new) = Len(trail) + 1 /\ Len(trail) \in Nat
        /\ new[Len(new)] = "investigation_complete"
        /\ \A i \in 1 .. Len(trail) : new[i] = trail[i]
    BY EntryLogged DEF Entries
  <1> HIDE DEF new
  <1>2. CASE "llm_error" \in Range(new)
    BY <1>1, <1>2 DEF Unreasoned
  <1>3. CASE "llm_error" \notin Range(new)
    <2>1. PICK i \in 1 .. Len(new) - 1 :
             new[i] = "reasoning_tools" /\ new[i + 1] = "verdict_produced"
      BY <1>3 DEF Unreasoned, new
    <2>2. i + 1 # Len(new)
      BY <1>1, <2>1
    <2>3. i \in 1 .. Len(trail) - 1
      BY <1>1, <2>1, <2>2
    <2>4. trail[i] = "reasoning_tools" /\ trail[i + 1] = "verdict_produced"
      BY <1>1, <2>1, <2>3
    <2> QED BY <2>3, <2>4 DEF Unreasoned
  <1> QED BY <1>2, <1>3

(* The inductive part about the graph.                                       *)
GraphInv == GraphShape /\ \A t \in Task : Paced(graph[t]) /\ Told(graph[t])

(* What every step of a live task does: it keeps GraphInv, the other tasks   *)
(* and its own identity.                                                     *)
TaskMoves(t) ==
    /\ GraphInv'
    /\ Live(t)
    /\ \A u \in Task \ {t} : graph'[u] = graph[u]
    /\ graph'[t].mode = graph[t].mode /\ graph'[t].key = graph[t].key
    /\ graph'[t].txn = graph[t].txn
    /\ graph'[t].at # "unused"

(* A task that has a row keeps what the row holds; one that has none may     *)
(* write it.                                                                 *)
Records(t) ==
    \/ /\ rows' = rows /\ graph'[t].run = graph[t].run
       /\ graph[t].run # None => /\ graph'[t].payload = graph[t].payload
                                 /\ graph'[t].trail = graph[t].trail
    \/ /\ rows' = Append(rows, [txn |-> graph'[t].txn, payload |-> graph'[t].payload,
                                trail |-> graph'[t].trail])
       /\ graph'[t].run = Len(rows) + 1 /\ graph'[t].at = "close"

(* A superstep to a place that is paced, and told of, does the first.        *)
LEMMA NodeMoves ==
    ASSUME GraphInv, NEW t \in Task, NEW next, NEW state, IsState(state),
           Superstep(t, next, state), Live(t), next \notin {"unused", "start"},
           state.mode = graph[t].mode, state.key = graph[t].key,
           state.txn = graph[t].txn,
           PacedAt(next, graph[t].steps + 1, state.iteration), ToldAt(next, state)
    PROVE  TaskMoves(t) /\ graph'[t].at = next /\ SameTask(graph'[t], state)
  <1>1. /\ GraphShape'
        /\ \A u \in Task \ {t} : graph'[u] = graph[u]
        /\ graph'[t].at = IF next \in Nodes /\ graph[t].steps + 1 >= RecursionLimit
                          THEN "cut" ELSE next
        /\ graph'[t].steps = graph[t].steps + 1
        /\ graph'[t].iteration = state.iteration
        /\ SameTask(graph'[t], state)
    <2>1. GraphShape BY DEF GraphInv
    <2> QED BY <2>1, SuperstepEffect
  <1>2. next \in Nodes => graph[t].steps + 1 < RecursionLimit
    BY InvestigationAssumption DEF PacedAt, Nodes
  <1>3. graph'[t].at = next
    BY <1>1, <1>2, InvestigationAssumption DEF PacedAt
  <1>4. Paced(graph'[t])
    BY <1>1, <1>3 DEF Paced
  <1>5. Told(graph'[t])
    BY <1>1, <1>3 DEF Told, ToldAt, SameTask
  <1>6. GraphInv'
    BY <1>1, <1>4, <1>5 DEF GraphInv
  <1> QED BY <1>1, <1>3, <1>6 DEF TaskMoves, SameTask

(* A step to an end of the task, or between its last two places.             *)
LEMMA TaskGoes ==
    ASSUME GraphInv, NEW t \in Task, Live(t),
           NEW place \in {"failed", "finish", "done", "cancelled"},
           place \in {"finish", "done"} => graph[t].at \in {"close", "finish"},
           graph' = [graph EXCEPT ![t].at = place]
    PROVE  TaskMoves(t) /\ graph'[t].at = place /\ SameTask(graph'[t], graph[t])
  <1> DEFINE left == [graph[t] EXCEPT !.at = place]
  <1>1. /\ IsState(left) /\ left.at = place /\ left.steps = graph[t].steps
        /\ left.iteration = graph[t].iteration /\ SameTask(left, graph[t])
    BY DEF GraphInv, GraphShape, IsState, SameTask
  <1>2. graph' = [graph EXCEPT ![t] = left]
    OBVIOUS
  <1> HIDE DEF left
  <1>3. graph'[t] = left /\ \A u \in Task \ {t} : graph'[u] = graph[u]
    BY <1>2 DEF GraphInv, GraphShape
  <1>4. GraphShape'
    BY <1>1, <1>2, <1>3 DEF GraphInv, GraphShape
  <1>5. Paced(left)
    BY <1>1 DEF GraphInv, Paced, PacedAt, Places
  <1>6. Told(left)
    BY <1>1 DEF GraphInv, Told, ToldAt, SameTask, Nodes
  <1> QED BY <1>1, <1>3, <1>4, <1>5, <1>6 DEF GraphInv, TaskMoves, SameTask

(* And so does every node of the graph, one case for each action; only the   *)
(* audit writes a row.                                                       *)
LEMMA NodeStepMoves ==
    ASSUME GraphInv, NEW t \in Task, NodeStep(t)
    PROVE  TaskMoves(t) /\ Records(t)
  <1>1. IsState(graph[t]) /\ Told(graph[t])
    BY DEF GraphInv, GraphShape
  <1>p. Paced(graph[t])
    BY DEF GraphInv
  <1>0. /\ graph[t].trail \in Seq(Entries)
        /\ graph[t].at \in Nodes => graph[t].run = None
    BY <1>1 DEF Told, ToldAt
  <1>2. CASE StartNode(t)
    <2>0. PICK left :
            left = [graph[t] EXCEPT !.iteration = 0,
                       !.trail = <<"investigation_started">>]
      OBVIOUS
    <2>1. IsState(left)
      BY <1>1, <2>0 DEF IsState
    <2>i. left.iteration = 0
      BY <1>1, <2>0 DEF IsState
    <2>2. Superstep(t, "collect", left) /\ graph[t].at = "start" /\ rows' = rows
      BY <2>0, <1>2 DEF StartNode, In
    <2>3. PacedAt("collect", graph[t].steps + 1, left.iteration)
      BY <1>p, <2>i, <2>2, InvestigationAssumption DEF Paced, PacedAt, Places, Nodes
    <2>4. /\ left.mode = graph[t].mode /\ left.txn = graph[t].txn
          /\ left.key = graph[t].key /\ left.run = graph[t].run
          /\ left.reason = graph[t].reason /\ left.degraded = graph[t].degraded
          /\ left.trail = <<"investigation_started">>
      BY <1>1, <2>0 DEF IsState
    <2>5. graph[t].trail = <<>>
      BY <1>1, <2>2 DEF Told, ToldAt, Range
    <2>6. left.trail \in Seq(Entries) /\ Range(left.trail) = {"investigation_started"}
      BY <2>4 DEF Entries, Range
    <2>7. ToldAt("collect", left)
      BY <1>0, <1>1, <2>2, <2>4, <2>5, <2>6 DEF Told, ToldAt, Nodes
    <2>8. TaskMoves(t) /\ SameTask(graph'[t], left)
      BY <2>1, <2>2, <2>3, <2>4, <2>7, NodeMoves DEF Live, Nodes
    <2> QED BY <1>0, <2>2, <2>4, <2>8 DEF Records, SameTask, Nodes
  <1>3. CASE CollectNode(t)
    <2>0. PICK left :
            left = [graph[t] EXCEPT !.trail = Logged(t, <<"context_collected">>)]
      OBVIOUS
    <2>1. /\ IsState(left) /\ left.iteration = graph[t].iteration
          /\ left.mode = graph[t].mode /\ left.txn = graph[t].txn
          /\ left.key = graph[t].key /\ left.run = graph[t].run
          /\ left.reason = graph[t].reason /\ left.degraded = graph[t].degraded
          /\ left.trail = graph[t].trail \o <<"context_collected">>
      BY <1>1, <2>0 DEF IsState, Logged
    <2>2. Superstep(t, "reason", left) /\ graph[t].at = "collect" /\ rows' = rows
      BY <2>0, <1>3 DEF CollectNode, In
    <2>i. left.iteration = 0 /\ graph[t].steps = 1
      BY <1>p, <2>1, <2>2 DEF Paced, PacedAt
    <2>3. PacedAt("reason", graph[t].steps + 1, left.iteration)
      BY <2>i, InvestigationAssumption DEF PacedAt, Places, Nodes
    <2>4. /\ left.trail \in Seq(Entries)
          /\ Range(left.trail) = Range(graph[t].trail) \cup {"context_collected"}
      BY <1>0, <2>1, EntryLogged DEF Entries
    <2>5. ToldAt("reason", left)
      BY <1>0, <1>1, <2>1, <2>2, <2>4 DEF Told, ToldAt, Nodes
    <2>6. TaskMoves(t) /\ SameTask(graph'[t], left)
      BY <2>1, <2>2, <2>3, <2>5, NodeMoves DEF Live, Nodes
    <2> QED BY <1>0, <2>1, <2>2, <2>6 DEF Records, SameTask, Nodes
  <1>4. CASE FetchRaises(t)
    <2>1. graph[t].at \in {"collect", "tools"} /\ rows' = rows
            /\ graph' = [graph EXCEPT ![t].at = "failed"]
      BY <1>4 DEF FetchRaises, Fail, In
    <2>2. TaskMoves(t) /\ SameTask(graph'[t], graph[t])
      BY <2>1, TaskGoes DEF Live, Nodes
    <2> QED BY <2>1, <2>2 DEF Records, SameTask
  <1>5. CASE ReasonNode(t)
    <2>1. PICK wants \in BOOLEAN :
             Superstep(t, RouteAfterReason(graph[t].iteration + 1, wants),
               [graph[t] EXCEPT
                  !.iteration = graph[t].iteration + 1, !.wants = wants,
                  !.trail = Logged(t, <<IF wants THEN "reasoning_tools" ELSE "reasoning">>)])
      BY <1>5 DEF ReasonNode
    <2> DEFINE entry == IF wants THEN "reasoning_tools" ELSE "reasoning"
               next == RouteAfterReason(graph[t].iteration + 1, wants)
    <2>0. PICK left :
            left = [graph[t] EXCEPT !.iteration = graph[t].iteration + 1,
                       !.wants = wants, !.trail = Logged(t, <<entry>>)]
      OBVIOUS
    <2>2. Superstep(t, next, left) /\ graph[t].at = "reason" /\ rows' = rows
      BY <2>0, <1>5, <2>1 DEF ReasonNode, In
    <2>3. entry \in {"reasoning_tools", "reasoning"}
      OBVIOUS
    <2>4. next \in {"tools", "synthesize"}
            /\ (next = "tools" => graph[t].iteration + 1 < MaxIterations)
            /\ (next = "synthesize" =>
                   entry = "reasoning" \/ graph[t].iteration + 1 >= MaxIterations)
      BY <1>p, InvestigationAssumption DEF RouteAfterReason, Paced, PacedAt
    <2> HIDE DEF next, entry
    <2>5. /\ IsState(left) /\ left.iteration = graph[t].iteration + 1
          /\ left.mode = graph[t].mode /\ left.txn = graph[t].txn
          /\ left.key = graph[t].key /\ left.run = graph[t].run
          /\ left.reason = graph[t].reason /\ left.degraded = graph[t].degraded
          /\ left.trail = graph[t].trail \o <<entry>>
      BY <1>1, <2>0 DEF IsState, Logged
    <2>i. left.iteration = graph[t].iteration + 1
      BY <2>5
    <2>6. PacedAt(next, graph[t].steps + 1, left.iteration)
      BY <1>p, <2>i, <2>2, <2>4, InvestigationAssumption DEF Paced, PacedAt, Places, Nodes
    <2>7. /\ left.trail \in Seq(Entries)
          /\ Range(left.trail) = Range(graph[t].trail) \cup {entry}
          /\ left.trail[Len(left.trail)] = entry
      BY <1>0, <2>3, <2>5, EntryLogged DEF Entries
    <2>8. ToldAt(next, left)
      BY <1>0, <1>1, <2>2, <2>3, <2>4, <2>5, <2>7 DEF Told, ToldAt, Nodes, EndsInTools
    <2>9. TaskMoves(t) /\ SameTask(graph'[t], left)
      BY <2>2, <2>4, <2>5, <2>6, <2>8, NodeMoves DEF Live, Nodes
    <2> QED BY <1>0, <2>2, <2>5, <2>9 DEF Records, SameTask, Nodes
  <1>6. CASE ReasonFails(t)
    <2> DEFINE next == RouteAfterReason(graph[t].iteration + 1, FALSE)
    <2>0. PICK left :
            left = [graph[t] EXCEPT !.iteration = graph[t].iteration + 1,
                       !.wants = FALSE, !.degraded = TRUE,
                       !.reason = "LLM_UNAVAILABLE", !.trail = Logged(t, <<"llm_error">>)]
      OBVIOUS
    <2>1. /\ IsState(left) /\ left.iteration = graph[t].iteration + 1
          /\ left.mode = graph[t].mode /\ left.txn = graph[t].txn
          /\ left.key = graph[t].key /\ left.run = graph[t].run
          /\ left.reason = "LLM_UNAVAILABLE" /\ left.degraded
          /\ left.trail = graph[t].trail \o <<"llm_error">>
      BY <1>1, <2>0 DEF IsState, Logged
    <2>2. Superstep(t, next, left) /\ graph[t].at = "reason" /\ rows' = rows
      BY <2>0, <1>6 DEF ReasonFails, In
    <2>3. next = "synthesize"
      BY DEF RouteAfterReason
    <2> HIDE DEF next
    <2>i. left.iteration = graph[t].iteration + 1
      BY <2>1
    <2>4. PacedAt(next, graph[t].steps + 1, left.iteration)
      BY <1>p, <2>i, <2>2, <2>3, InvestigationAssumption DEF Paced, PacedAt, Places, Nodes
    <2>5. /\ left.trail \in Seq(Entries)
          /\ Range(left.trail) = Range(graph[t].trail) \cup {"llm_error"}
          /\ left.trail[Len(left.trail)] = "llm_error"
      BY <1>0, <2>1, EntryLogged DEF Entries
    <2>6. ToldAt(next, left)
      BY <1>0, <1>1, <2>1, <2>2, <2>3, <2>5
      DEF Told, ToldAt, Nodes, EndsInTools, Untold
    <2>7. TaskMoves(t) /\ SameTask(graph'[t], left)
      BY <2>1, <2>2, <2>3, <2>4, <2>6, NodeMoves DEF Live, Nodes
    <2> QED BY <1>0, <2>1, <2>2, <2>7 DEF Records, SameTask, Nodes
  <1>7. CASE ToolsNode(t)
    <2>1. Superstep(t, "reason", graph[t]) /\ graph[t].at = "tools" /\ rows' = rows
      BY <1>7 DEF ToolsNode, In
    <2>2. PacedAt("reason", graph[t].steps + 1, graph[t].iteration)
      BY <1>p, <2>1, InvestigationAssumption DEF Paced, PacedAt, Places, Nodes
    <2>3. ToldAt("reason", graph[t])
      BY <1>1, <2>1 DEF Told, ToldAt, Nodes
    <2>4. TaskMoves(t) /\ SameTask(graph'[t], graph[t])
      BY <1>1, <2>1, <2>2, <2>3, NodeMoves DEF Live, Nodes
    <2> QED BY <2>1, <2>4 DEF Records, SameTask
  <1>8. CASE SynthesisFails(t)
    <2>0. PICK left :
            left = [graph[t] EXCEPT !.payload = FallbackVerdict, !.degraded = TRUE,
                       !.reason = "LLM_UNAVAILABLE",
                       !.trail = Logged(t, <<"llm_error", "verdict_produced">>)]
      OBVIOUS
    <2>1. /\ IsState(left) /\ left.iteration = graph[t].iteration
          /\ left.mode = graph[t].mode /\ left.txn = graph[t].txn
          /\ left.key = graph[t].key /\ left.run = graph[t].run
          /\ left.reason = "LLM_UNAVAILABLE" /\ left.degraded
          /\ left.payload = FallbackVerdict
          /\ left.trail = graph[t].trail \o <<"llm_error", "verdict_produced">>
      BY <1>1, <2>0 DEF IsState, Logged
    <2>2. Superstep(t, "audit", left) /\ graph[t].at = "synthesize" /\ rows' = rows
      BY <2>0, <1>8 DEF SynthesisFails, In
    <2>i. left.iteration = graph[t].iteration
      BY <2>1
    <2>3. PacedAt("audit", graph[t].steps + 1, left.iteration)
      BY <1>p, <2>i, <2>2, InvestigationAssumption DEF Paced, PacedAt, Places, Nodes
    <2>4. /\ left.trail \in Seq(Entries)
          /\ Range(left.trail)
               = Range(graph[t].trail) \cup {"llm_error", "verdict_produced"}
      BY <1>0, <2>1, TwoLogged DEF Entries
    <2>5. left.payload.degraded # Untold /\ left.payload.reason # Untold
      BY <2>1 DEF FallbackVerdict, Untold
    <2>6. ToldAt("audit", left)
      BY <1>0, <2>1, <2>2, <2>4, <2>5 DEF ToldAt, Nodes, Untold
    <2>7. TaskMoves(t) /\ SameTask(graph'[t], left)
      BY <2>1, <2>2, <2>3, <2>6, NodeMoves DEF Live, Nodes
    <2> QED BY <1>0, <2>1, <2>2, <2>7 DEF Records, SameTask, Nodes
  <1>9. CASE SynthesizeNode(t)
    <2>r. PICK reply \in Replies : \E verdict \in Parsed(reply) :
             Superstep(t, "audit",
               [graph[t] EXCEPT
                  !.payload = SelfDescribing(verdict, Degraded(t, verdict), Reason(t, verdict)),
                  !.degraded = Degraded(t, verdict), !.reason = Reason(t, verdict),
                  !.trail = Logged(t, <<"verdict_produced">>)])
      BY <1>9 DEF SynthesizeNode
    <2>1. PICK verdict \in Parsed(reply) :
             Superstep(t, "audit",
               [graph[t] EXCEPT
                  !.payload = SelfDescribing(verdict, Degraded(t, verdict), Reason(t, verdict)),
                  !.degraded = Degraded(t, verdict), !.reason = Reason(t, verdict),
                  !.trail = Logged(t, <<"verdict_produced">>)])
      BY <2>r
    <2> DEFINE payload == SelfDescribing(verdict, Degraded(t, verdict), Reason(t, verdict))
               degraded == Degraded(t, verdict)
               reason == Reason(t, verdict)
    <2>0. PICK left :
            left = [graph[t] EXCEPT !.payload = payload, !.degraded = degraded,
                       !.reason = reason, !.trail = Logged(t, <<"verdict_produced">>)]
      OBVIOUS
    <2>2. Superstep(t, "audit", left) /\ graph[t].at = "synthesize" /\ rows' = rows
      BY <2>0, <1>9, <2>1 DEF SynthesizeNode, In
    <2>3. graph[t].reason = "LLM_UNAVAILABLE" => reason = "LLM_UNAVAILABLE"
      BY DEF Reason, NoReason
    <2>4. degraded <=> \/ graph[t].degraded \/ verdict.degraded = "true"
                       \/ graph[t].iteration >= MaxIterations
      BY DEF Degraded, Sticky, CutOff
    <2>5. /\ degraded => payload.degraded # Untold /\ payload.reason # Untold
          /\ reason # Untold
      <3>1. PICK label, told, own, empty :
               verdict = [label |-> label, degraded |-> told, reason |-> own,
                          empty |-> empty]
        BY DEF Parsed
      <3>2. reason # Untold
        BY <1>1 DEF Told, ToldAt, Reason, Admitted, NoReason, Untold
      <3>3. degraded => /\ payload.degraded = IF told = Untold THEN "true" ELSE told
                        /\ payload.reason = IF own = Untold THEN reason ELSE own
        <4> HIDE DEF reason, degraded
        <4>1. degraded => payload = [verdict EXCEPT
                 !.degraded = IF @ = Untold THEN "true" ELSE @,
                 !.reason = IF @ = Untold THEN reason ELSE @, !.empty = FALSE]
          BY DEF SelfDescribing, degraded, reason
        <4> QED BY <3>1, <4>1
      <3> QED BY <3>2, <3>3 DEF Untold
    <2> HIDE DEF payload, degraded, reason
    <2>6. /\ IsState(left) /\ left.iteration = graph[t].iteration
          /\ left.mode = graph[t].mode /\ left.txn = graph[t].txn
          /\ left.key = graph[t].key /\ left.run = graph[t].run
          /\ left.reason = reason /\ left.degraded = degraded /\ left.payload = payload
          /\ left.trail = graph[t].trail \o <<"verdict_produced">>
      BY <1>1, <2>0 DEF IsState, Logged
    <2>i. left.iteration = graph[t].iteration
      BY <2>6
    <2>7. PacedAt("audit", graph[t].steps + 1, left.iteration)
      BY <1>p, <2>i, <2>2, InvestigationAssumption DEF Paced, PacedAt, Places, Nodes
    <2>8. /\ left.trail \in Seq(Entries)
          /\ Range(left.trail) = Range(graph[t].trail) \cup {"verdict_produced"}
      BY <1>0, <2>6, EntryLogged DEF Entries
    <2>9. "verdict_produced" \notin Range(graph[t].trail)
      BY <1>1, <2>2 DEF Told, ToldAt
    <2>10. Unreasoned(left.trail) => degraded
      BY <1>0, <1>1, <2>2, <2>4, <2>6, <2>9, VerdictLogged DEF Told, ToldAt
    <2>11. ToldAt("audit", left)
      BY <1>0, <1>1, <2>2, <2>3, <2>4, <2>5, <2>6, <2>8, <2>10 DEF Told, ToldAt, Nodes
    <2>12. TaskMoves(t) /\ SameTask(graph'[t], left)
      BY <2>2, <2>6, <2>7, <2>11, NodeMoves DEF Live, Nodes
    <2> QED BY <1>0, <2>2, <2>6, <2>12 DEF Records, SameTask, Nodes
  <1>10. CASE SynthesisRaises(t)
    <2>1. graph[t].at = "synthesize" /\ rows' = rows
            /\ graph' = [graph EXCEPT ![t].at = "failed"]
      BY <1>10 DEF SynthesisRaises, Fail, In
    <2>2. TaskMoves(t) /\ SameTask(graph'[t], graph[t])
      BY <2>1, TaskGoes DEF Live, Nodes
    <2> QED BY <2>1, <2>2 DEF Records, SameTask
  <1> DEFINE complete == graph[t].trail \o <<"investigation_complete">>
  <1>c. /\ complete \in Seq(Entries)
        /\ Range(complete) = Range(graph[t].trail) \cup {"investigation_complete"}
        /\ Unreasoned(complete) => Unreasoned(graph[t].trail)
    BY <1>0, EntryLogged, CompletionLogged DEF Entries
  <1>d. ASSUME graph[t].at = "audit", NEW s, s.trail = complete,
               s.reason = graph[t].reason, s.degraded = graph[t].degraded,
               s.payload = graph[t].payload, NEW next \in {"close", "finish"}
        PROVE  ToldAt(next, s)
    <2> HIDE DEF complete
    <2>1. /\ "llm_error" \in Range(graph[t].trail) =>
                graph[t].reason = "LLM_UNAVAILABLE" /\ graph[t].degraded
          /\ graph[t].reason # Untold
          /\ Unreasoned(graph[t].trail) =>
                /\ graph[t].degraded /\ graph[t].payload.degraded # Untold
                /\ graph[t].payload.reason # Untold
      BY <1>1, <1>d DEF Told, ToldAt
    <2>2. s.trail \in Seq(Entries)
          /\ ("llm_error" \in Range(s.trail) => "llm_error" \in Range(graph[t].trail))
          /\ (Unreasoned(s.trail) => Unreasoned(graph[t].trail))
      BY <1>c, <1>d
    <2> QED BY <2>1, <2>2, <1>d DEF ToldAt, Nodes
  <1>11. CASE AuditNode(t)
    <2>0. PICK left : left = [graph[t] EXCEPT !.trail = complete, !.run = Len(rows) + 1]
      OBVIOUS
    <2>1. /\ IsState(left) /\ left.iteration = graph[t].iteration
          /\ left.mode = graph[t].mode /\ left.txn = graph[t].txn
          /\ left.key = graph[t].key /\ left.run = Len(rows) + 1
          /\ left.reason = graph[t].reason /\ left.degraded = graph[t].degraded
          /\ left.payload = graph[t].payload /\ left.trail = complete
      <3> HIDE DEF complete
      <3> QED BY <1>1, <2>0 DEF IsState
    <2>2. /\ Superstep(t, "close", left) /\ graph[t].at = "audit"
          /\ rows' = Append(rows, [txn |-> graph[t].txn, payload |-> graph[t].payload,
                                  trail |-> complete])
      BY <2>0, <1>11 DEF AuditNode, In, Logged, PersistedTrail
    <2> HIDE DEF complete
    <2>i. left.iteration = graph[t].iteration
      BY <2>1
    <2>3. PacedAt("close", graph[t].steps + 1, left.iteration)
      BY <1>p, <2>i, <2>2, InvestigationAssumption DEF Paced, PacedAt, Places, Nodes
    <2>4. ToldAt("close", left)
      BY <1>d, <2>1, <2>2
    <2>5. TaskMoves(t) /\ SameTask(graph'[t], left) /\ graph'[t].at = "close"
      BY <2>1, <2>2, <2>3, <2>4, NodeMoves DEF Live, Nodes
    <2> QED BY <2>1, <2>2, <2>5 DEF Records, SameTask
  <1>12. CASE AuditFails(t)
    <2>0. PICK left : left = [graph[t] EXCEPT !.trail = complete]
      OBVIOUS
    <2>1. /\ IsState(left) /\ left.iteration = graph[t].iteration
          /\ left.mode = graph[t].mode /\ left.txn = graph[t].txn
          /\ left.key = graph[t].key /\ left.run = graph[t].run
          /\ left.reason = graph[t].reason /\ left.degraded = graph[t].degraded
          /\ left.payload = graph[t].payload /\ left.trail = complete
      <3> HIDE DEF complete
      <3> QED BY <1>1, <2>0 DEF IsState
    <2>2. PICK connected \in BOOLEAN :
             Superstep(t, IF connected THEN "close" ELSE "finish", left)
      BY <2>0, <1>12 DEF AuditFails, Logged
    <2>3. graph[t].at = "audit" /\ rows' = rows
      BY <1>12 DEF AuditFails, In
    <2> DEFINE next == IF connected THEN "close" ELSE "finish"
    <2>4. next \in {"close", "finish"}
      OBVIOUS
    <2>5. Superstep(t, next, left)
      BY <2>0, <2>2
    <2> HIDE DEF next, complete
    <2>i. left.iteration = graph[t].iteration
      BY <2>1
    <2>6. PacedAt(next, graph[t].steps + 1, left.iteration)
      BY <1>p, <2>i, <2>3, <2>4, InvestigationAssumption DEF Paced, PacedAt, Places, Nodes
    <2>7. ToldAt(next, left)
      BY <1>d, <2>1, <2>3, <2>4
    <2>8. TaskMoves(t) /\ SameTask(graph'[t], left)
      BY <2>1, <2>3, <2>4, <2>5, <2>6, <2>7, NodeMoves DEF Live, Nodes
    <2> QED BY <1>0, <2>1, <2>3, <2>8 DEF Records, SameTask, Nodes
  <1>13. CASE CloseConnection(t)
    <2>1. graph[t].at = "close" /\ rows' = rows
            /\ graph' = [graph EXCEPT ![t].at = "finish"]
      BY <1>13 DEF CloseConnection, In
    <2>2. TaskMoves(t) /\ SameTask(graph'[t], graph[t])
      BY <2>1, TaskGoes DEF Live
    <2> QED BY <2>1, <2>2 DEF Records, SameTask
  <1>14. CASE CloseRaises(t)
    <2>1. graph[t].at = "close" /\ rows' = rows
            /\ graph' = [graph EXCEPT ![t].at = "failed"]
      BY <1>14 DEF CloseRaises, Fail, In
    <2>2. TaskMoves(t) /\ SameTask(graph'[t], graph[t])
      BY <2>1, TaskGoes DEF Live
    <2> QED BY <2>1, <2>2 DEF Records, SameTask
  <1> QED BY <1>2, <1>3, <1>4, <1>5, <1>6, <1>7, <1>8, <1>9, <1>10, <1>11, <1>12,
             <1>13, <1>14 DEF NodeStep

-------------------------------------------------------------------------------
(* The same about callers.                                                   *)
IsCaller(x) ==
    x = [at |-> x.at, txn |-> x.txn, key |-> x.key, task |-> x.task,
         owner |-> x.owner, cancelled |-> x.cancelled, answer |-> x.answer]

CallsShape ==
    /\ caller = [c \in Callers |-> caller[c]]
    /\ \A c \in Callers : IsCaller(caller[c])
    /\ inflight = [k \in RunKeys |-> inflight[k]]
    /\ completed = [k \in RunKeys |-> completed[k]]

(* A call that waits, and a task the tool runs for a key.                    *)
Waits(c) == caller[c].at = "waiting"
Serves(t, k) == graph[t].mode = "mcp" /\ graph[t].key = k /\ Live(t)

(* A task the MCP server works on is the one in flight for its key, which    *)
(* has no answer yet.                                                        *)
OnlyInFlight ==
    \A t \in Task : graph[t].mode = "mcp" /\ Live(t) =>
        /\ graph[t].key \in RunKeys /\ inflight[graph[t].key] = t
        /\ completed[graph[t].key] = None

(* What is in flight for a key is a task of the tool, begun for that key.    *)
InFlightTasks ==
    \A k \in RunKeys : inflight[k] # None =>
        /\ inflight[k] \in Task /\ graph[inflight[k]].mode = "mcp"
        /\ graph[inflight[k]].key = k /\ graph[inflight[k]].at # "unused"

(* A waiter awaits a task that was started; an owner a task of its own, and  *)
(* the one in flight for its key; who owns none has joined one of the tool.  *)
WaitersAwait ==
    \A c \in Callers : Waits(c) =>
        /\ caller[c].task \in Task /\ graph[caller[c].task].at # "unused"
        /\ caller[c].owner \/ graph[caller[c].task].mode = "mcp"

(* The owner of a task of the tool holds the entry that is in flight for it. *)
OwnersHold ==
    \A c \in Callers :
        Waits(c) /\ caller[c].owner /\ graph[caller[c].task].mode = "mcp" =>
          caller[c].key \in RunKeys /\ inflight[caller[c].key] = caller[c].task

(* No two callers own one task.                                              *)
OwnTasks ==
    \A c, d \in Callers :
        Waits(c) /\ caller[c].owner /\ Waits(d) /\ caller[d].owner /\ c # d =>
          caller[c].task # caller[d].task

(* The inductive part about the calls. InFlightIsOwned alone is not          *)
(* inductive: a wake clears the entry of its own key, and OwnersHold and     *)
(* OwnTasks say that this is the entry of its own task.                      *)
CallsInv ==
    /\ CallsShape /\ OnlyInFlight /\ InFlightTasks /\ WaitersAwait /\ OwnersHold
    /\ OwnTasks /\ InFlightIsOwned

(* The inductive invariant.                                                  *)
Inv == GraphInv /\ CallsInv

(* A step that begins no task, and one that moves no caller.                 *)
TasksKeep ==
    \A u \in Task :
        /\ graph'[u].mode = graph[u].mode /\ graph'[u].key = graph[u].key
        /\ Live(u)' => Live(u)
        /\ graph'[u].at = "unused" <=> graph[u].at = "unused"

CallersKeep ==
    \A c \in Callers :
        /\ caller'[c].at = caller[c].at /\ caller'[c].owner = caller[c].owner
        /\ caller'[c].task = caller[c].task /\ caller'[c].key = caller[c].key

(* A task that moves begins no other.                                        *)
LEMMA MovesKeep ==
    ASSUME NEW t \in Task, TaskMoves(t)
    PROVE  TasksKeep
  <1>1. graph[t].at # "unused"
    BY DEF TaskMoves, Live, Nodes
  <1>2. ASSUME NEW u \in Task, u # t
        PROVE  graph'[u] = graph[u] /\ (Live(u)' => Live(u))
    BY <1>2 DEF TaskMoves, Live
  <1> QED BY <1>1, <1>2 DEF TaskMoves, TasksKeep

(* Steps that start nothing, end no call, and settle a key only when no task *)
(* serves it any longer.                                                     *)
LEMMA QuietSteps ==
    ASSUME CallsInv, TasksKeep, CallersKeep, CallsShape', inflight' = inflight,
           \A k \in RunKeys : completed'[k] = completed[k]
                                \/ \A u \in Task : ~Serves(u, k)'
    PROVE  CallsInv'
  <1>1. OnlyInFlight'
    BY DEF CallsInv, OnlyInFlight, TasksKeep, Serves
  <1>2. InFlightTasks'
    BY DEF CallsInv, InFlightTasks, TasksKeep
  <1>3. WaitersAwait' /\ OwnersHold' /\ OwnTasks'
    BY DEF CallsInv, WaitersAwait, OwnersHold, OwnTasks, TasksKeep, CallersKeep, Waits
  <1>4. InFlightIsOwned'
    <2> SUFFICES ASSUME NEW k \in RunKeys, inflight[k] # None
                 PROVE  \E c \in Callers :
                           /\ caller'[c].at = "waiting" /\ caller'[c].owner
                           /\ caller'[c].task = inflight[k] /\ caller'[c].key = k
      BY DEF InFlightIsOwned
    <2>1. PICK c \in Callers : /\ caller[c].at = "waiting" /\ caller[c].owner
                               /\ caller[c].task = inflight[k] /\ caller[c].key = k
      BY DEF CallsInv, InFlightIsOwned
    <2> QED BY <2>1 DEF CallersKeep
  <1> QED BY <1>1, <1>2, <1>3, <1>4 DEF CallsInv

(* A call that replaces its caller's record. *)
LEMMA CallerBecomes ==
    ASSUME CallsShape, NEW c \in Callers, NEW new, IsCaller(new),
           caller' = [caller EXCEPT ![c] = new]
    PROVE  /\ caller' = [d \in Callers |-> caller'[d]]
           /\ \A d \in Callers : IsCaller(caller'[d])
           /\ caller'[c] = new
           /\ \A d \in Callers \ {c} : caller'[d] = caller[d]
  BY DEF CallsShape

(* An answer from the cache touches nobody else.                             *)
LEMMA ReplayKeeps ==
    ASSUME CallsInv, NEW c \in Callers, Replay(c)
    PROVE  CallsInv'
  <1>1. PICK req \in Requests :
           caller' = [caller EXCEPT ![c] = [Idle EXCEPT !.txn = req.txn,
                        !.key = RunKey(req), !.answer = completed[RunKey(req)]]]
    BY DEF Replay
  <1>2. PICK new : new = [Idle EXCEPT !.txn = req.txn, !.key = RunKey(req),
                                      !.answer = completed[RunKey(req)]]
    OBVIOUS
  <1>3. IsCaller(new) /\ new.at = "idle"
    BY <1>2 DEF Idle, IsCaller
  <1>4. /\ caller' = [d \in Callers |-> caller'[d]]
        /\ \A d \in Callers : IsCaller(caller'[d])
        /\ caller'[c] = new /\ \A d \in Callers \ {c} : caller'[d] = caller[d]
    BY <1>1, <1>2, <1>3, CallerBecomes DEF CallsInv
  <1>5. /\ caller[c].at = "idle"
        /\ UNCHANGED <<graph, inflight, completed>>
    BY DEF Replay, graphVars
  <1>6. CallsShape' /\ OnlyInFlight' /\ InFlightTasks'
    BY <1>4, <1>5 DEF CallsInv, CallsShape, OnlyInFlight, InFlightTasks, Live
  <1>7. WaitersAwait' /\ OwnersHold' /\ OwnTasks'
    BY <1>3, <1>4, <1>5 DEF CallsInv, WaitersAwait, OwnersHold, OwnTasks, Waits
  <1>8. InFlightIsOwned'
    BY <1>4, <1>5 DEF CallsInv, InFlightIsOwned
  <1> QED BY <1>6, <1>7, <1>8 DEF CallsInv

(* A call that joins awaits a task of the tool and owns none.                *)
LEMMA JoinKeeps ==
    ASSUME CallsInv, NEW c \in Callers, Join(c)
    PROVE  CallsInv'
  <1>1. PICK req \in Requests :
           /\ InFlight(RunKey(req)) # None
           /\ caller' = [caller EXCEPT ![c] = [Idle EXCEPT !.at = "waiting",
                           !.txn = req.txn, !.key = RunKey(req),
                           !.task = InFlight(RunKey(req))]]
    BY DEF Join
  <1>2. PICK new : new = [Idle EXCEPT !.at = "waiting", !.txn = req.txn,
                            !.key = RunKey(req), !.task = InFlight(RunKey(req))]
    OBVIOUS
  <1>3. IsCaller(new) /\ new.task = inflight[RunKey(req)] /\ ~new.owner
    BY <1>2 DEF Idle, IsCaller, InFlight
  <1>4. /\ caller' = [d \in Callers |-> caller'[d]]
        /\ \A d \in Callers : IsCaller(caller'[d])
        /\ caller'[c] = new /\ \A d \in Callers \ {c} : caller'[d] = caller[d]
    BY <1>1, <1>2, <1>3, CallerBecomes DEF CallsInv
  <1>5. /\ caller[c].at = "idle"
        /\ UNCHANGED <<graph, inflight, completed>>
    BY DEF Join, graphVars
  <1>6. CallsShape' /\ OnlyInFlight' /\ InFlightTasks'
    BY <1>4, <1>5 DEF CallsInv, CallsShape, OnlyInFlight, InFlightTasks, Live
  <1>7. /\ new.task \in Task /\ graph[new.task].mode = "mcp"
        /\ graph[new.task].at # "unused"
    BY <1>1, <1>3 DEF CallsInv, InFlightTasks, InFlight, RunKeys
  <1>8. WaitersAwait' /\ OwnersHold' /\ OwnTasks'
    BY <1>3, <1>4, <1>5, <1>7
    DEF CallsInv, WaitersAwait, OwnersHold, OwnTasks, Waits
  <1>9. InFlightIsOwned'
    BY <1>4, <1>5 DEF CallsInv, InFlightIsOwned
  <1> QED BY <1>6, <1>8, <1>9 DEF CallsInv

(* A task begins: nobody awaited it, and nothing else becomes its caller's.  *)
LEMMA BeginMoves ==
    ASSUME Inv, NEW c \in Callers, NEW t \in Task, NEW mode, NEW txn, NEW key,
           Begin(c, t, mode, txn, key)
    PROVE  /\ GraphInv'
           /\ \A u \in Task \ {t} : graph'[u] = graph[u]
           /\ graph[t].at = "unused" /\ graph'[t].at = "start"
           /\ graph'[t].mode = mode /\ graph'[t].key = key
           /\ graph'[t].txn = txn /\ graph'[t].run = None
           /\ caller' = [d \in Callers |-> caller'[d]]
           /\ \A d \in Callers : IsCaller(caller'[d])
           /\ \A d \in Callers \ {c} : caller'[d] = caller[d]
           /\ caller'[c].at = "waiting" /\ caller'[c].owner
           /\ caller'[c].task = t /\ caller'[c].key = key
           /\ caller'[c].txn = txn /\ caller'[c].answer = NoAnswer
  <1>1. PICK left : left = [Unused EXCEPT !.at = "start", !.mode = mode,
                                          !.txn = txn, !.key = key]
    OBVIOUS
  <1>2. /\ IsState(left) /\ left.at = "start" /\ left.mode = mode /\ left.key = key
        /\ left.steps = 0 /\ left.iteration = 0 /\ left.txn = txn /\ left.run = None
    BY <1>1 DEF Unused, IsState
  <1>3. graph' = [graph EXCEPT ![t] = left] /\ graph[t].at = "unused"
    BY <1>1 DEF Begin
  <1>4. graph'[t] = left /\ \A u \in Task \ {t} : graph'[u] = graph[u]
    BY <1>3 DEF Inv, GraphInv, GraphShape
  <1>5. GraphShape'
    BY <1>2, <1>3, <1>4 DEF Inv, GraphInv, GraphShape
  <1>6. Paced(left) /\ Told(left)
    <2>1. Paced(left)
      BY <1>2, InvestigationAssumption DEF Paced, PacedAt, Places, Nodes
    <2>2. /\ left.trail = <<>> /\ left.reason = NoReason /\ left.run = None
          /\ Range(left.trail) = {} /\ left.trail \in Seq(Entries)
      BY <1>1 DEF Unused, Range
    <2> QED BY <1>2, <2>1, <2>2 DEF Told, ToldAt, Nodes, NoReason, Untold
  <1>7. GraphInv'
    BY <1>4, <1>5, <1>6 DEF Inv, GraphInv
  <1>8. PICK new : new = [Idle EXCEPT !.at = "waiting", !.txn = txn, !.key = key,
                                      !.task = t, !.owner = TRUE]
    OBVIOUS
  <1>9. /\ IsCaller(new) /\ new.at = "waiting" /\ new.owner /\ new.task = t
        /\ new.key = key /\ new.txn = txn /\ new.answer = NoAnswer
    BY <1>8 DEF Idle, IsCaller
  <1>10. caller' = [caller EXCEPT ![c] = new]
    BY <1>8 DEF Begin
  <1> QED BY <1>2, <1>3, <1>4, <1>7, <1>9, <1>10, CallerBecomes DEF Inv, CallsInv

(* A call that finds nothing begins a task, owns it, and puts it in flight   *)
(* under a key that had none.                                                *)
LEMMA InvestigateKeeps ==
    ASSUME Inv, NEW c \in Callers, Investigate(c)
    PROVE  Inv'
  <1>1. PICK req \in Requests, t \in Task :
           /\ completed[RunKey(req)] = None /\ InFlight(RunKey(req)) = None
           /\ Begin(c, t, "mcp", req.txn, RunKey(req))
           /\ inflight' = [inflight EXCEPT ![RunKey(req)] = t]
    BY DEF Investigate
  <1> DEFINE key == RunKey(req)
  <1>2. key \in RunKeys /\ inflight[key] = None /\ completed[key] = None
    BY <1>1 DEF RunKeys, InFlight
  <1>3. /\ GraphInv'
        /\ \A u \in Task \ {t} : graph'[u] = graph[u]
        /\ graph[t].at = "unused" /\ graph'[t].at = "start"
        /\ graph'[t].mode = "mcp" /\ graph'[t].key = key
        /\ caller' = [d \in Callers |-> caller'[d]]
        /\ \A d \in Callers : IsCaller(caller'[d])
        /\ \A d \in Callers \ {c} : caller'[d] = caller[d]
        /\ caller'[c].at = "waiting" /\ caller'[c].owner
        /\ caller'[c].task = t /\ caller'[c].key = key
    BY <1>1, BeginMoves
  <1>4. caller[c].at = "idle" /\ completed' = completed
    BY DEF Investigate
  <1> HIDE DEF key
  <1>5. /\ inflight' = [k \in RunKeys |-> inflight'[k]] /\ inflight'[key] = t
        /\ \A k \in RunKeys \ {key} : inflight'[k] = inflight[k]
    BY <1>1, <1>2 DEF Inv, CallsInv, CallsShape, key
  <1>6. CallsShape'
    BY <1>3, <1>4, <1>5 DEF Inv, CallsInv, CallsShape
  <1>7. OnlyInFlight'
    BY <1>2, <1>3, <1>4, <1>5, InvestigationAssumption
    DEF Inv, CallsInv, OnlyInFlight, Live
  <1>8. InFlightTasks'
    BY <1>2, <1>3, <1>5 DEF Inv, CallsInv, InFlightTasks
  <1>9. WaitersAwait' /\ OwnTasks'
    BY <1>3, <1>4 DEF Inv, CallsInv, WaitersAwait, OwnTasks, Waits
  <1>10. OwnersHold'
    BY <1>2, <1>3, <1>4, <1>5, InvestigationAssumption
    DEF Inv, CallsInv, WaitersAwait, OwnersHold, Waits
  <1>11. InFlightIsOwned'
    BY <1>3, <1>4, <1>5 DEF Inv, CallsInv, InFlightIsOwned
  <1> QED BY <1>3, <1>6, <1>7, <1>8, <1>9, <1>10, <1>11 DEF Inv, CallsInv

(* A request to the API begins a task that is nobody else's.                 *)
LEMMA PostKeeps ==
    ASSUME Inv, NEW c \in Callers, Post(c)
    PROVE  Inv'
  <1>1. PICK txn \in Transactions, t \in Task, mode \in {"http", "stream"} :
           Begin(c, t, mode, txn, None)
    BY DEF Post
  <1>2. /\ GraphInv'
        /\ \A u \in Task \ {t} : graph'[u] = graph[u]
        /\ graph[t].at = "unused" /\ graph'[t].at = "start"
        /\ graph'[t].mode # "mcp"
        /\ caller' = [d \in Callers |-> caller'[d]]
        /\ \A d \in Callers : IsCaller(caller'[d])
        /\ \A d \in Callers \ {c} : caller'[d] = caller[d]
        /\ caller'[c].owner /\ caller'[c].task = t
    BY <1>1, BeginMoves
  <1>3. caller[c].at = "idle" /\ UNCHANGED <<completed, inflight>>
    BY DEF Post
  <1>4. CallsShape' /\ OnlyInFlight' /\ InFlightTasks'
    BY <1>2, <1>3 DEF Inv, CallsInv, CallsShape, OnlyInFlight, InFlightTasks, Live
  <1>5. WaitersAwait' /\ OwnTasks'
    BY <1>2, <1>3 DEF Inv, CallsInv, WaitersAwait, OwnTasks, Waits
  <1>6. OwnersHold'
    BY <1>2, <1>3 DEF Inv, CallsInv, WaitersAwait, OwnersHold, Waits
  <1>7. InFlightIsOwned'
    BY <1>2, <1>3 DEF Inv, CallsInv, InFlightIsOwned
  <1> QED BY <1>2, <1>4, <1>5, <1>6, <1>7 DEF Inv, CallsInv

(* A wake clears at most the entry of its own task, which has ended.         *)
LEMMA WakeKeeps ==
    ASSUME Inv, NEW c \in Callers, Wake(c)
    PROVE  Inv'
  <1> DEFINE t == caller[c].task
  <1>1. /\ Waits(c) /\ Ended(t)
        /\ UNCHANGED <<graph, completed>>
        /\ inflight' = IF Releases(c) THEN [inflight EXCEPT ![caller[c].key] = None]
                       ELSE inflight
    BY DEF Wake, CanWake, Waits, graphVars
  <1>2. PICK answer :
          caller' = [caller EXCEPT ![c] = [Idle EXCEPT !.txn = caller[c].txn,
                                            !.key = caller[c].key, !.answer = answer]]
    BY DEF Wake
  <1>3. PICK new : new = [Idle EXCEPT !.txn = caller[c].txn, !.key = caller[c].key,
                                      !.answer = answer]
    OBVIOUS
  <1>4. IsCaller(new) /\ new.at = "idle"
    BY <1>3 DEF Idle, IsCaller
  <1>5. /\ caller' = [d \in Callers |-> caller'[d]]
        /\ \A d \in Callers : IsCaller(caller'[d])
        /\ caller'[c] = new /\ \A d \in Callers \ {c} : caller'[d] = caller[d]
    BY <1>2, <1>3, <1>4, CallerBecomes DEF Inv, CallsInv
  <1>6. ~Live(t)
    BY <1>1 DEF Ended, Live, Nodes
  <1>7. CASE Releases(c)
    <2>1. /\ caller[c].owner /\ graph[t].mode = "mcp"
          /\ caller[c].key \in RunKeys /\ inflight[caller[c].key] = t
      BY <1>1, <1>7 DEF Releases, Inv, CallsInv, OwnersHold
    <2>2. /\ inflight' = [k \in RunKeys |-> inflight'[k]]
          /\ inflight'[caller[c].key] = None
          /\ \A k \in RunKeys \ {caller[c].key} : inflight'[k] = inflight[k]
      BY <1>1, <1>7, <2>1 DEF Inv, CallsInv, CallsShape
    <2>3. CallsShape'
      BY <1>1, <1>5, <2>2 DEF Inv, CallsInv, CallsShape
    <2>4. OnlyInFlight'
      BY <1>1, <1>6, <2>1, <2>2 DEF Inv, CallsInv, OnlyInFlight, Live
    <2>5. InFlightTasks'
      BY <1>1, <2>2 DEF Inv, CallsInv, InFlightTasks
    <2>6. WaitersAwait' /\ OwnTasks'
      BY <1>1, <1>4, <1>5 DEF Inv, CallsInv, WaitersAwait, OwnTasks, Waits
    <2>7. OwnersHold'
      BY <1>1, <1>4, <1>5, <2>1, <2>2 DEF Inv, CallsInv, OwnTasks, OwnersHold, Waits
    <2>8. InFlightIsOwned'
      BY <1>1, <1>5, <2>2 DEF Inv, CallsInv, InFlightIsOwned
    <2> QED BY <1>1, <2>3, <2>4, <2>5, <2>6, <2>7, <2>8
            DEF Inv, CallsInv, GraphInv, GraphShape
  <1>8. CASE ~Releases(c)
    <2>1. inflight' = inflight
      BY <1>1, <1>8
    <2>2. CallsShape' /\ OnlyInFlight' /\ InFlightTasks'
      BY <1>1, <1>5, <2>1
      DEF Inv, CallsInv, CallsShape, OnlyInFlight, InFlightTasks, Live
    <2>3. WaitersAwait' /\ OwnersHold' /\ OwnTasks'
      BY <1>1, <1>4, <1>5, <2>1
      DEF Inv, CallsInv, WaitersAwait, OwnersHold, OwnTasks, Waits
    <2>4. ASSUME NEW k \in RunKeys, inflight[k] # None
          PROVE  \E d \in Callers \ {c} :
                    /\ caller[d].at = "waiting" /\ caller[d].owner
                    /\ caller[d].task = inflight[k] /\ caller[d].key = k
      BY <1>8, <2>4 DEF Inv, CallsInv, InFlightIsOwned, InFlightTasks, Releases
    <2>5. InFlightIsOwned'
      BY <1>5, <2>1, <2>4 DEF InFlightIsOwned
    <2> QED BY <1>1, <2>2, <2>3, <2>5 DEF Inv, CallsInv, GraphInv, GraphShape
  <1> QED BY <1>7, <1>8

(* Cancel ends the task awaited, and nothing else.                           *)
LEMMA CancelMoves ==
    ASSUME Inv, NEW c \in Callers, Cancel(c)
    PROVE  /\ GraphInv' /\ TasksKeep /\ CallersKeep /\ CallsShape'
           /\ UNCHANGED <<inflight, completed>>
           /\ \A u \in Task \ {caller[c].task} : graph'[u] = graph[u]
           /\ ~Live(caller[c].task)'
  <1> DEFINE t == caller[c].task
  <1>1. /\ Waits(c) /\ UNCHANGED <<inflight, completed>>
        /\ caller' = [caller EXCEPT ![c].cancelled = TRUE]
        /\ graph' = IF Live(t) THEN [graph EXCEPT ![t].at = "cancelled"] ELSE graph
    BY DEF Cancel, Waits
  <1>2. t \in Task
    BY <1>1 DEF Inv, CallsInv, WaitersAwait
  <1>3. PICK new : new = [caller[c] EXCEPT !.cancelled = TRUE]
    OBVIOUS
  <1>4. /\ IsCaller(new) /\ new.at = caller[c].at /\ new.owner = caller[c].owner
        /\ new.task = caller[c].task /\ new.key = caller[c].key
    <2>1. IsCaller(caller[c])
      BY DEF Inv, CallsInv, CallsShape
    <2> QED BY <1>3, <2>1 DEF IsCaller
  <1>5. caller' = [caller EXCEPT ![c] = new]
    BY <1>1, <1>3
  <1>6. /\ caller' = [d \in Callers |-> caller'[d]]
        /\ \A d \in Callers : IsCaller(caller'[d])
        /\ caller'[c] = new /\ \A d \in Callers \ {c} : caller'[d] = caller[d]
    BY <1>4, <1>5, CallerBecomes DEF Inv, CallsInv
  <1>7. CallsShape' /\ CallersKeep
    BY <1>1, <1>4, <1>6 DEF Inv, CallsInv, CallsShape, CallersKeep
  <1>8. CASE Live(t)
    <2>1. graph' = [graph EXCEPT ![t].at = "cancelled"]
      BY <1>1, <1>8
    <2>2. TaskMoves(t)
      BY <1>2, <1>8, <2>1, TaskGoes DEF Inv
    <2>3. graph'[t].at = "cancelled"
      BY <1>2, <2>1 DEF Inv, GraphInv, GraphShape, IsState
    <2>4. /\ TasksKeep /\ GraphInv'
          /\ \A u \in Task \ {t} : graph'[u] = graph[u]
      BY <1>2, <2>2, MovesKeep DEF TaskMoves
    <2> QED BY <1>1, <1>7, <2>3, <2>4 DEF Live, Nodes
  <1>9. CASE ~Live(t)
    <2>1. graph' = graph
      BY <1>1, <1>9
    <2> QED BY <1>1, <1>7, <1>9, <2>1 DEF Inv, GraphInv, GraphShape, TasksKeep, Live
  <1> QED BY <1>8, <1>9

(* Finish ends its task, and answers no key but its own.                     *)
LEMMA FinishMoves ==
    ASSUME Inv, NEW t \in Task, Finish(t) \/ ResultInvalid(t)
    PROVE  /\ TaskMoves(t) /\ ~Live(t)' /\ UNCHANGED <<caller, inflight>>
           /\ completed' = [k \in RunKeys |-> completed'[k]]
           /\ completed' = completed \/ graph[t].mode = "mcp"
           /\ \A k \in RunKeys : k # graph[t].key => completed'[k] = completed[k]
  <1>1. PICK place \in {"failed", "done"} : graph' = [graph EXCEPT ![t].at = place]
    BY DEF Finish, ResultInvalid, Fail
  <1>2. Live(t) /\ graph[t].at = "finish" /\ UNCHANGED <<caller, inflight>>
    BY DEF Finish, ResultInvalid, In, Live
  <1>3. TaskMoves(t)
    BY <1>1, <1>2, TaskGoes DEF Inv
  <1>4. graph'[t].at = place
    BY <1>1 DEF Inv, GraphInv, GraphShape, IsState
  <1>5. \/ completed' = completed
        \/ /\ graph[t].mode = "mcp"
           /\ completed' = [completed EXCEPT ![graph[t].key] = Answered(t)]
    BY DEF Finish, ResultInvalid
  <1>6. /\ completed' = [k \in RunKeys |-> completed'[k]]
        /\ \A k \in RunKeys : k # graph[t].key => completed'[k] = completed[k]
    BY <1>5 DEF Inv, CallsInv, CallsShape
  <1> QED BY <1>2, <1>3, <1>4, <1>5, <1>6 DEF Live, Nodes

(* A restart cancels the tasks of the process, and touches no other.         *)
Gone(process, t) == Live(t) /\ ServedBy(process, graph[t].mode)

(* What a restart leaves of each task.                                       *)
LEMMA RestartMoves ==
    ASSUME Inv, NEW process \in {"mcp", "api"}, Restart(process), NEW t \in Task
    PROVE  /\ IsState(graph'[t]) /\ Paced(graph'[t]) /\ Told(graph'[t])
           /\ graph'[t].mode = graph[t].mode /\ graph'[t].key = graph[t].key
           /\ graph'[t].at = IF Gone(process, t) THEN "cancelled" ELSE graph[t].at
           /\ Live(t)' <=> Live(t) /\ ~Gone(process, t)
  <1>1. graph'[t] = IF Gone(process, t) THEN [graph[t] EXCEPT !.at = "cancelled"]
                    ELSE graph[t]
    BY DEF Restart, Gone
  <1>2. IsState(graph[t]) /\ Paced(graph[t]) /\ Told(graph[t])
    BY DEF Inv, GraphInv, GraphShape
  <1>3. CASE Gone(process, t)
    <2>1. PICK left : left = [graph[t] EXCEPT !.at = "cancelled"]
      OBVIOUS
    <2>2. graph'[t] = left
      BY <1>1, <1>3, <2>1
    <2>3. /\ IsState(left) /\ left.at = "cancelled" /\ left.steps = graph[t].steps
          /\ left.iteration = graph[t].iteration
          /\ SameTask(left, graph[t])
      BY <1>2, <2>1 DEF IsState, SameTask
    <2>4. Paced(left)
      BY <1>2, <2>3 DEF Paced, PacedAt, Places
    <2>5. Told(left)
      BY <1>2, <2>3 DEF Told, ToldAt, SameTask, Nodes
    <2> QED BY <1>3, <2>2, <2>3, <2>4, <2>5 DEF Live, Nodes, SameTask
  <1>4. CASE ~Gone(process, t)
    BY <1>1, <1>2, <1>4 DEF Live
  <1> QED BY <1>3, <1>4

(* A process restarts: nothing of it is left running, awaited or in flight.  *)
LEMMA RestartKeeps ==
    ASSUME Inv, NEW process \in {"mcp", "api"}, Restart(process)
    PROVE  Inv'
  <1> DEFINE Lost(c) == Waits(c) /\ ServedBy(process, graph[caller[c].task].mode)
  <1>1. /\ graph' = [t \in Task |-> IF Gone(process, t)
                                    THEN [graph[t] EXCEPT !.at = "cancelled"]
                                    ELSE graph[t]]
        /\ caller' = [c \in Callers |->
             IF Lost(c)
             THEN [Idle EXCEPT !.txn = caller[c].txn, !.key = caller[c].key,
                               !.answer = [status |-> "lost"]]
             ELSE caller[c]]
    BY DEF Restart, Waits, Gone
  <1>2. ASSUME NEW t \in Task
        PROVE  /\ IsState(graph'[t]) /\ Paced(graph'[t]) /\ Told(graph'[t])
               /\ graph'[t].mode = graph[t].mode /\ graph'[t].key = graph[t].key
               /\ graph'[t].at = IF Gone(process, t) THEN "cancelled" ELSE graph[t].at
               /\ Live(t)' <=> Live(t) /\ ~Gone(process, t)
    BY RestartMoves
  <1>3. GraphInv'
    <2>1. graph' = [t \in Task |-> graph'[t]]
      BY <1>1
    <2> QED BY <1>2, <2>1 DEF GraphInv, GraphShape
  <1>4. ASSUME NEW c \in Callers
        PROVE  /\ IsCaller(caller'[c])
               /\ Lost(c) => caller'[c].at = "idle"
               /\ ~Lost(c) => caller'[c] = caller[c]
    <2>1. CASE Lost(c)
      <3>1. PICK new : new = [Idle EXCEPT !.txn = caller[c].txn, !.key = caller[c].key,
                                          !.answer = [status |-> "lost"]]
        OBVIOUS
      <3>2. caller'[c] = new
        BY <1>1, <2>1, <3>1
      <3> QED BY <2>1, <3>1, <3>2 DEF IsCaller, Idle
    <2>2. CASE ~Lost(c)
      BY <1>1, <2>2 DEF Inv, CallsInv, CallsShape
    <2> QED BY <2>1, <2>2
  <1>5. caller' = [c \in Callers |-> caller'[c]]
    BY <1>1
  <1>6. CASE process = "mcp"
    <2>1. /\ completed' = [k \in RunKeys |-> None]
          /\ inflight' = [k \in RunKeys |-> None]
      BY <1>6 DEF Restart
    <2>2. CallsShape'
      BY <1>4, <1>5, <2>1 DEF CallsShape
    <2>3. \A t \in Task : graph'[t].mode = "mcp" => ~Live(t)'
      BY <1>2, <1>6 DEF ServedBy, Gone
    <2>4. OnlyInFlight' /\ InFlightTasks' /\ InFlightIsOwned'
      BY <2>1, <2>3 DEF OnlyInFlight, InFlightTasks, InFlightIsOwned
    <2>5. ASSUME NEW c \in Callers, Waits(c)'
          PROVE  /\ caller'[c] = caller[c] /\ Waits(c)
                 /\ caller[c].task \in Task /\ graph[caller[c].task].mode # "mcp"
                 /\ graph[caller[c].task].at # "unused" /\ caller[c].owner
      BY <1>4, <1>6, <2>5 DEF Waits, ServedBy, Inv, CallsInv, WaitersAwait
    <2>6. WaitersAwait'
      BY <1>2, <2>5 DEF WaitersAwait
    <2>7. OwnersHold'
      BY <1>2, <2>5 DEF OwnersHold
    <2>8. OwnTasks'
      BY <2>5 DEF OwnTasks, Inv, CallsInv
    <2> QED BY <1>3, <2>2, <2>4, <2>6, <2>7, <2>8 DEF Inv, CallsInv
  <1>7. CASE process # "mcp"
    <2>1. completed' = completed /\ inflight' = inflight
      BY <1>7 DEF Restart
    <2>2. CallsShape'
      BY <1>4, <1>5, <2>1 DEF CallsShape, Inv, CallsInv
    <2>3. OnlyInFlight'
      BY <1>2, <2>1 DEF OnlyInFlight, Inv, CallsInv
    <2>4. InFlightTasks'
      BY <1>2, <2>1 DEF InFlightTasks, Inv, CallsInv, Live
    <2>5. ASSUME NEW c \in Callers, Waits(c)'
          PROVE  caller'[c] = caller[c] /\ Waits(c)
      BY <1>4, <2>5 DEF Waits
    <2>6. WaitersAwait'
      BY <1>2, <2>5 DEF WaitersAwait, Inv, CallsInv
    <2>7. OwnersHold'
      <3> SUFFICES ASSUME NEW c \in Callers, Waits(c)', caller'[c].owner,
                          graph'[caller'[c].task].mode = "mcp"
                   PROVE  /\ caller'[c].key \in RunKeys
                          /\ inflight'[caller'[c].key] = caller'[c].task
        BY DEF OwnersHold
      <3>1. caller'[c] = caller[c] /\ Waits(c) /\ caller[c].task \in Task
        BY <2>5 DEF Inv, CallsInv, WaitersAwait
      <3>2. graph[caller[c].task].mode = "mcp"
        BY <1>2, <3>1
      <3> QED BY <2>1, <3>1, <3>2 DEF OwnersHold, Inv, CallsInv
    <2>8. OwnTasks'
      BY <2>5 DEF OwnTasks, Inv, CallsInv
    <2>9. InFlightIsOwned'
      <3> SUFFICES ASSUME NEW k \in RunKeys, inflight[k] # None
                   PROVE  \E c \in Callers :
                             /\ caller'[c].at = "waiting" /\ caller'[c].owner
                             /\ caller'[c].task = inflight[k] /\ caller'[c].key = k
        BY <2>1 DEF InFlightIsOwned
      <3>1. PICK c \in Callers : /\ caller[c].at = "waiting" /\ caller[c].owner
                                 /\ caller[c].task = inflight[k] /\ caller[c].key = k
        BY DEF Inv, CallsInv, InFlightIsOwned
      <3>2. graph[caller[c].task].mode = "mcp"
        BY <3>1 DEF Inv, CallsInv, InFlightTasks
      <3>3. ~Lost(c)
        BY <1>7, <3>2 DEF ServedBy
      <3> QED BY <1>4, <3>1, <3>3
    <2> QED BY <1>3, <2>2, <2>3, <2>4, <2>6, <2>7, <2>8, <2>9 DEF Inv, CallsInv
  <1> QED BY <1>6, <1>7

(* Init satisfies the invariant.                                             *)
LEMMA InitEstablishes ==
    ASSUME Init
    PROVE  Inv
  <1>1. graph = [t \in Task |-> Unused] /\ caller = [c \in Callers |-> Idle]
    BY DEF Init, GraphInit
  <1>2. /\ completed = [k \in RunKeys |-> None] /\ inflight = [k \in RunKeys |-> None]
    BY DEF Init
  <1>3. IsState(Unused) /\ Paced(Unused) /\ Told(Unused) /\ Unused.at = "unused"
    <2>1. IsState(Unused) /\ Paced(Unused) /\ Unused.at = "unused"
      BY InvestigationAssumption DEF Unused, IsState, Paced, PacedAt, Places, Nodes
    <2>2. /\ Unused.trail = <<>> /\ Unused.reason = NoReason /\ Unused.run = None
          /\ Range(Unused.trail) = {} /\ Unused.trail \in Seq(Entries)
      BY DEF Unused, Range
    <2> QED BY <2>1, <2>2 DEF Told, ToldAt, NoReason, Untold
  <1>4. IsCaller(Idle) /\ Idle.at = "idle"
    BY DEF Idle, IsCaller
  <1>5. GraphInv
    BY <1>1, <1>3 DEF GraphInv, GraphShape
  <1>6. CallsShape /\ OnlyInFlight /\ InFlightTasks
    BY <1>1, <1>2, <1>3, <1>4 DEF CallsShape, OnlyInFlight, InFlightTasks, Live, Nodes
  <1>7. WaitersAwait /\ OwnersHold /\ OwnTasks /\ InFlightIsOwned
    BY <1>1, <1>2, <1>4 DEF WaitersAwait, OwnersHold, OwnTasks, Waits, InFlightIsOwned
  <1> QED BY <1>5, <1>6, <1>7 DEF Inv, CallsInv

(* A node keeps the invariant.                                               *)
LEMMA NodeStepKeeps ==
    ASSUME Inv, NEW t \in Task, NodeStep(t), UNCHANGED callVars
    PROVE  Inv'
  <1>1. TaskMoves(t)
    BY NodeStepMoves DEF Inv
  <1>2. UNCHANGED <<caller, completed, inflight>>
    BY DEF callVars
  <1>3. TasksKeep /\ CallersKeep /\ CallsShape'
    BY <1>1, <1>2, MovesKeep DEF CallersKeep, Inv, CallsInv, CallsShape
  <1> QED BY <1>1, <1>2, <1>3, QuietSteps DEF TaskMoves, Inv

(* The answer is kept for a key that only the finished task served.          *)
LEMMA FinishKeeps ==
    ASSUME Inv, NEW t \in Task, Finish(t) \/ ResultInvalid(t)
    PROVE  Inv'
  <1>1. /\ TaskMoves(t) /\ ~Live(t)' /\ UNCHANGED <<caller, inflight>>
        /\ completed' = [k \in RunKeys |-> completed'[k]]
        /\ completed' = completed \/ graph[t].mode = "mcp"
        /\ \A k \in RunKeys : k # graph[t].key => completed'[k] = completed[k]
    BY FinishMoves
  <1>2. TasksKeep /\ CallersKeep /\ CallsShape'
    BY <1>1, MovesKeep DEF CallersKeep, Inv, CallsInv, CallsShape
  <1>3. ASSUME NEW k \in RunKeys, completed'[k] # completed[k], NEW u \in Task
        PROVE  ~Serves(u, k)'
    <2>1. k = graph[t].key /\ graph[t].mode = "mcp" /\ Live(t)
      BY <1>1, <1>3 DEF TaskMoves
    <2>2. inflight[k] = t
      BY <2>1 DEF Inv, CallsInv, OnlyInFlight
    <2>3. Serves(u, k)' => Serves(u, k)
      BY <1>2 DEF TasksKeep, Serves
    <2>4. Serves(u, k) => u = t
      BY <2>2 DEF Inv, CallsInv, OnlyInFlight, Serves
    <2> QED BY <1>1, <2>3, <2>4 DEF Serves
  <1>4. CallsInv'
    BY <1>1, <1>2, <1>3, QuietSteps DEF Inv
  <1> QED BY <1>1, <1>4 DEF TaskMoves, Inv

(* A cancellation keeps the invariant.                                       *)
LEMMA CancelKeeps ==
    ASSUME Inv, NEW c \in Callers, Cancel(c)
    PROVE  Inv'
  <1>1. /\ GraphInv' /\ TasksKeep /\ CallersKeep /\ CallsShape'
        /\ UNCHANGED <<inflight, completed>>
    BY CancelMoves
  <1> QED BY <1>1, QuietSteps DEF Inv

(* So does whatever touches neither tasks nor calls.                         *)
LEMMA StutterKeeps ==
    ASSUME Inv, UNCHANGED <<graph, caller, completed, inflight>>
    PROVE  Inv'
  <1>1. GraphInv'
    BY DEF Inv, GraphInv, GraphShape
  <1>2. CallsShape' /\ OnlyInFlight' /\ InFlightTasks'
    BY DEF Inv, CallsInv, CallsShape, OnlyInFlight, InFlightTasks, Live
  <1>3. WaitersAwait' /\ OwnersHold' /\ OwnTasks' /\ InFlightIsOwned'
    BY DEF Inv, CallsInv, WaitersAwait, OwnersHold, OwnTasks, Waits, InFlightIsOwned
  <1> QED BY <1>1, <1>2, <1>3 DEF Inv, CallsInv

(* The invariant is inductive.                                               *)
LEMMA NextKeeps ==
    ASSUME Inv, [Next]_vars
    PROVE  Inv'
  <1>1. ASSUME NEW t \in Task, TaskStep(t)
        PROVE  Inv'
    BY <1>1, NodeStepKeeps, FinishKeeps DEF TaskStep
  <1>2. ASSUME NEW c \in Callers, CallStep(c)
        PROVE  Inv'
    <2>1. CASE Replay(c)
      <3>1. GraphInv'
        BY <2>1 DEF Replay, graphVars, Inv, GraphInv, GraphShape
      <3> QED BY <2>1, <3>1, ReplayKeeps DEF Inv
    <2>2. CASE Join(c)
      <3>1. GraphInv'
        BY <2>2 DEF Join, graphVars, Inv, GraphInv, GraphShape
      <3> QED BY <2>2, <3>1, JoinKeeps DEF Inv
    <2> QED BY <1>2, <2>1, <2>2, InvestigateKeeps, PostKeeps, CancelKeeps DEF CallStep
  <1>3. ASSUME NEW c \in Callers, Wake(c)
        PROVE  Inv'
    BY <1>3, WakeKeeps
  <1>4. ASSUME NEW process \in {"mcp", "api"}, Restart(process)
        PROVE  Inv'
    BY <1>4, RestartKeeps
  <1>5. ASSUME NEW b \in Backfills, CorpusStep(b)
        PROVE  Inv'
    BY <1>5, StutterKeeps DEF CorpusStep, graphVars, callVars
  <1>6. CASE UNCHANGED vars
    BY <1>6, StutterKeeps DEF vars, graphVars, callVars
  <1> QED BY <1>1, <1>2, <1>3, <1>4, <1>5, <1>6 DEF Next

(* Every reachable state satisfies the inductive invariant.                  *)
THEOREM InvestigationInvariant == Spec => []Inv
  <1> QED BY InitEstablishes, NextKeeps, PTL DEF Spec

(* The iteration cap ends every run before LangGraph's recursion limit does, *)
(* whatever the model asks for, provided the limit leaves room for it.       *)
THEOREM NeverCutShortAlways == Spec => []NeverCutShort
  <1>1. Inv => NeverCutShort
    BY DEF Inv, GraphInv, Paced, PacedAt, Places, Nodes, NeverCutShort
  <1> QED BY <1>1, InvestigationInvariant, PTL

(* No key is ever left in flight without the call that will remove it.       *)
THEOREM InFlightIsOwnedAlways == Spec => []InFlightIsOwned
  <1>1. Inv => InFlightIsOwned
    BY DEF Inv, CallsInv
  <1> QED BY <1>1, InvestigationInvariant, PTL

-------------------------------------------------------------------------------
(* The row of a transaction, with a label.                                   *)
RowOf(run, txn, label) ==
    run \in DOMAIN rows /\ rows[run].txn = txn /\ rows[run].payload.label = label

(* Every persisted verdict that was not reasoned to says something of it.    *)
RowsTell ==
    /\ \E S : rows \in Seq(S)
    /\ \A i \in DOMAIN rows :
          Unreasoned(rows[i].trail) =>
             rows[i].payload.degraded # Untold /\ rows[i].payload.reason # Untold

(* The tool's tasks have a run key of their own transaction, the others      *)
(* none; and the row that a task names holds what the task does.             *)
TasksAgree ==
    \A t \in Task :
        /\ graph[t].at = "unused" => graph[t].key = None
        /\ graph[t].at # "unused" =>
              \/ /\ graph[t].mode = "mcp"
                 /\ graph[t].key \in RunKeys /\ graph[t].key[1] = graph[t].txn
              \/ graph[t].mode \in {"http", "stream"} /\ graph[t].key = None
        /\ graph[t].run # None =>
              /\ graph[t].run \in DOMAIN rows
              /\ rows[graph[t].run].txn = graph[t].txn
              /\ rows[graph[t].run].payload = graph[t].payload
              /\ rows[graph[t].run].trail = graph[t].trail

(* An answer the tool keeps, and the trail it keeps beside it.               *)
Recorded(answer, trail, txn) ==
    \E label, run :
        /\ answer = [status |-> "ok", label |-> label, run |-> run]
        /\ run # None => RowOf(run, txn, label) /\ trail = rows[run].trail

KeysTell ==
    /\ trails = [k \in RunKeys |-> trails[k]]
    /\ \A k \in RunKeys : completed[k] # None => Recorded(completed[k], trails[k], k[1])

(* The answer of POST /investigate.                                          *)
Replied(answer, txn, label, run, trail, degraded, reason) ==
    /\ answer = [status |-> "ok", label |-> label, run |-> run, trail |-> trail,
                 degraded |-> degraded, reason |-> reason]
    /\ run # None => RowOf(run, txn, label) /\ rows[run].trail = trail
    /\ Unreasoned(trail) => degraded
    /\ "llm_error" \in Range(trail) => reason = "LLM_UNAVAILABLE"

(* The answers there are: a failure, the stream's, the tool's, and that of   *)
(* POST /investigate, which alone speaks of its degradation.                 *)
Faithful(answer, txn) ==
    \/ \E status : answer = [status |-> status]
    \/ \E label : answer = [status |-> "ok", label |-> label]
    \/ \E trail : Recorded(answer, trail, txn)
    \/ \E label, run, trail, degraded, reason :
          Replied(answer, txn, label, run, trail, degraded, reason)

(* Who waits, waits for an investigation of its own transaction.             *)
CallersTold ==
    \A c \in Callers :
        /\ Waits(c) => caller[c].txn = graph[caller[c].task].txn
        /\ Faithful(caller[c].answer, caller[c].txn)

(* The inductive invariant about what is written down and told.              *)
TellInv == RowsTell /\ TasksAgree /\ KeysTell /\ CallersTold

(* Rows are only ever added.                                                 *)
RowsGrow == \A i \in DOMAIN rows : i \in DOMAIN rows' /\ rows'[i] = rows[i]

(* What an answer says stays true as rows are added.                         *)
LEMMA RecordedStays ==
    ASSUME NEW answer, NEW trail, NEW txn, Recorded(answer, trail, txn), RowsGrow
    PROVE  Recorded(answer, trail, txn)'
  <1>1. PICK label, run :
          /\ answer = [status |-> "ok", label |-> label, run |-> run]
          /\ run # None => RowOf(run, txn, label) /\ trail = rows[run].trail
    BY DEF Recorded
  <1>2. run # None => RowOf(run, txn, label)' /\ trail = rows'[run].trail
    BY <1>1 DEF RowOf, RowsGrow
  <1> QED BY <1>1, <1>2 DEF Recorded

(* Rows are only added, so an answer that was faithful remains so. *)
LEMMA FaithfulStays ==
    ASSUME NEW answer, NEW txn, Faithful(answer, txn), RowsGrow
    PROVE  Faithful(answer, txn)'
  <1>1. CASE \E status : answer = [status |-> status]
    BY <1>1 DEF Faithful
  <1>2. CASE \E label : answer = [status |-> "ok", label |-> label]
    BY <1>2 DEF Faithful
  <1>3. CASE \E trail : Recorded(answer, trail, txn)
    BY <1>3, RecordedStays DEF Faithful
  <1>4. ASSUME NEW label, NEW run, NEW trail, NEW degraded, NEW reason,
               Replied(answer, txn, label, run, trail, degraded, reason)
        PROVE  Faithful(answer, txn)'
    <2>1. Replied(answer, txn, label, run, trail, degraded, reason)'
      BY <1>4 DEF Replied, RowOf, RowsGrow
    <2> QED BY <2>1 DEF Faithful
  <1> QED BY <1>1, <1>2, <1>3, <1>4 DEF Faithful

(* No row, or one more.                                                      *)
LEMMA RowAdded ==
    ASSUME RowsTell, NEW row, rows' = Append(rows, row),
           Unreasoned(row.trail) => row.payload.degraded # Untold
                                    /\ row.payload.reason # Untold
    PROVE  /\ RowsTell' /\ RowsGrow
           /\ Len(rows) + 1 \in DOMAIN rows' /\ rows'[Len(rows) + 1] = row
  <1>1. PICK S : rows \in Seq(S)
    BY DEF RowsTell
  <1>2. /\ Append(rows, row) \in Seq(S \cup {row})
        /\ DOMAIN Append(rows, row) = DOMAIN rows \cup {Len(rows) + 1}
        /\ Append(rows, row)[Len(rows) + 1] = row
        /\ \A i \in DOMAIN rows : Append(rows, row)[i] = rows[i]
    BY <1>1
  <1> QED BY <1>2 DEF RowsTell, RowsGrow

(* A step that writes no row leaves the rows and what they tell alone. *)
LEMMA RowsSame ==
    ASSUME TellInv, rows' = rows
    PROVE  RowsTell' /\ RowsGrow
  BY DEF TellInv, RowsTell, RowsGrow

(* Steps that touch neither rows nor what tasks hold besides their place.    *)
TasksSame == \A u \in Task : SameTask(graph'[u], graph[u])

(* Tasks that keep what they have written agree with rows that stay. *)
LEMMA AgreeStays ==
    ASSUME TellInv, TasksKeep, TasksSame, rows' = rows
    PROVE  TasksAgree'
  BY DEF TellInv, TasksAgree, TasksKeep, TasksSame, SameTask

(* What the tool keeps stays true while it keeps it.                         *)
LEMMA KeysStay ==
    ASSUME TellInv, RowsGrow, UNCHANGED <<completed, trails>>
    PROVE  KeysTell'
  <1>1. ASSUME NEW k \in RunKeys, completed[k] # None
        PROVE  Recorded(completed[k], trails[k], k[1])'
    <2>1. PICK answer, trail : answer = completed[k] /\ trail = trails[k]
      OBVIOUS
    <2>2. Recorded(answer, trail, k[1])
      BY <1>1, <2>1 DEF TellInv, KeysTell
    <2>3. Recorded(answer, trail, k[1])'
      BY <2>2, RecordedStays
    <2> QED BY <2>1, <2>3
  <1> QED BY <1>1 DEF TellInv, KeysTell

(* A caller's answer stays faithful while it has it.                         *)
LEMMA AnswerStays ==
    ASSUME TellInv, RowsGrow, NEW c \in Callers,
           caller'[c].answer = caller[c].answer, caller'[c].txn = caller[c].txn
    PROVE  Faithful(caller[c].answer, caller[c].txn)'
  <1>1. PICK answer, txn : answer = caller[c].answer /\ txn = caller[c].txn
    OBVIOUS
  <1>2. Faithful(answer, txn)
    BY <1>1 DEF TellInv, CallersTold
  <1>3. Faithful(answer, txn)'
    BY <1>2, FaithfulStays
  <1> QED BY <1>1, <1>3

(* What the code after the graph makes of its state is faithful.             *)
LEMMA AnsweredFaithfully ==
    ASSUME Inv, TellInv, NEW t \in Task, graph[t].at \in {"finish", "done"}
    PROVE  /\ Faithful(Answered(t), graph[t].txn)
           /\ graph[t].mode = "mcp" =>
                 Recorded(Answered(t), graph[t].trail, graph[t].txn)
  <1> DEFINE label == graph[t].payload.label
  <1>1. /\ graph[t].run # None => /\ RowOf(graph[t].run, graph[t].txn, label)
                                  /\ rows[graph[t].run].trail = graph[t].trail
        /\ graph[t].mode \in {"mcp", "http", "stream"}
    BY DEF TellInv, TasksAgree, RowOf
  <1>2. Told(graph[t])
    BY DEF Inv, GraphInv
  <1>3. CASE graph[t].mode = "mcp"
    <2>1. Answered(t) = [status |-> "ok", label |-> label, run |-> graph[t].run]
      BY <1>3 DEF Answered
    <2>2. Recorded(Answered(t), graph[t].trail, graph[t].txn)
      BY <1>1, <2>1 DEF Recorded
    <2> QED BY <2>2 DEF Faithful
  <1>4. CASE graph[t].mode = "http"
    <2>1. Answered(t) = [status |-> "ok", label |-> label, run |-> graph[t].run,
                         trail |-> graph[t].trail, degraded |-> graph[t].degraded,
                         reason |-> graph[t].reason]
      BY <1>4 DEF Answered
    <2>2. Replied(Answered(t), graph[t].txn, label, graph[t].run, graph[t].trail,
                  graph[t].degraded, graph[t].reason)
      BY <1>1, <1>2, <2>1 DEF Replied, Told, ToldAt
    <2> QED BY <1>4, <2>2 DEF Faithful
  <1>5. CASE graph[t].mode = "stream"
    <2>1. Answered(t) = [status |-> "ok", label |-> label]
      BY <1>5 DEF Answered
    <2> QED BY <1>5, <2>1 DEF Faithful
  <1> QED BY <1>1, <1>3, <1>4, <1>5

(* A node of the graph: at most a row is added, and its own task names it.   *)
LEMMA NodeStepTells ==
    ASSUME Inv, TellInv, NEW t \in Task, NodeStep(t), UNCHANGED callVars
    PROVE  TellInv'
  <1>1. TaskMoves(t) /\ Records(t)
    BY NodeStepMoves DEF Inv
  <1>2. UNCHANGED <<caller, completed, trails, inflight>>
    BY DEF callVars
  <1>3. /\ RowsTell' /\ RowsGrow
        /\ graph'[t].run # None =>
              /\ graph'[t].run \in DOMAIN rows'
              /\ rows'[graph'[t].run].txn = graph'[t].txn
              /\ rows'[graph'[t].run].payload = graph'[t].payload
              /\ rows'[graph'[t].run].trail = graph'[t].trail
    <2>1. CASE /\ rows' = rows /\ graph'[t].run = graph[t].run
               /\ graph[t].run # None => /\ graph'[t].payload = graph[t].payload
                                         /\ graph'[t].trail = graph[t].trail
      BY <1>1, <2>1, RowsSame DEF TaskMoves, TellInv, TasksAgree
    <2>2. CASE /\ rows' = Append(rows, [txn |-> graph'[t].txn,
                             payload |-> graph'[t].payload, trail |-> graph'[t].trail])
               /\ graph'[t].run = Len(rows) + 1 /\ graph'[t].at = "close"
      <3>1. PICK row : row = [txn |-> graph'[t].txn, payload |-> graph'[t].payload,
                              trail |-> graph'[t].trail]
        OBVIOUS
      <3>2. /\ row.txn = graph'[t].txn /\ row.payload = graph'[t].payload
            /\ row.trail = graph'[t].trail
        BY <3>1
      <3>3. Unreasoned(row.trail) => row.payload.degraded # Untold
                                     /\ row.payload.reason # Untold
        BY <1>1, <2>2, <3>2 DEF TaskMoves, GraphInv, Told, ToldAt
      <3> QED BY <2>2, <3>1, <3>2, <3>3, RowAdded DEF TellInv
    <2> QED BY <1>1, <2>1, <2>2 DEF Records
  <1>4. TasksAgree'
    <2> SUFFICES ASSUME NEW u \in Task
                 PROVE  /\ graph'[u].at = "unused" => graph'[u].key = None
                        /\ graph'[u].at # "unused" =>
                              \/ /\ graph'[u].mode = "mcp" /\ graph'[u].key \in RunKeys
                                 /\ graph'[u].key[1] = graph'[u].txn
                              \/ /\ graph'[u].mode \in {"http", "stream"}
                                 /\ graph'[u].key = None
                        /\ graph'[u].run # None =>
                              /\ graph'[u].run \in DOMAIN rows'
                              /\ rows'[graph'[u].run].txn = graph'[u].txn
                              /\ rows'[graph'[u].run].payload = graph'[u].payload
                              /\ rows'[graph'[u].run].trail = graph'[u].trail
      BY DEF TasksAgree
    <2>1. CASE u = t
      <3>1. graph[t].at # "unused"
        BY <1>1 DEF TaskMoves, Live, Nodes
      <3> QED BY <1>1, <1>3, <2>1, <3>1 DEF TaskMoves, TellInv, TasksAgree
    <2>2. CASE u # t
      BY <1>1, <1>3, <2>2 DEF TaskMoves, TellInv, TasksAgree, RowsGrow
    <2> QED BY <2>1, <2>2
  <1>5. CallersTold'
    <2> SUFFICES ASSUME NEW c \in Callers
                 PROVE  /\ Waits(c)' => caller'[c].txn = graph'[caller'[c].task].txn
                        /\ Faithful(caller[c].answer, caller[c].txn)'
      BY DEF CallersTold
    <2>1. Waits(c)' => caller'[c].txn = graph'[caller'[c].task].txn
      BY <1>1, <1>2 DEF Waits, TaskMoves, TellInv, CallersTold, Inv, CallsInv, WaitersAwait
    <2> QED BY <1>2, <1>3, <2>1, AnswerStays
  <1> QED BY <1>2, <1>3, <1>4, <1>5, KeysStay DEF TellInv

(* The tool keeps the answer of a task under the key of its transaction.     *)
LEMMA FinishTells ==
    ASSUME Inv, TellInv, NEW t \in Task, Finish(t) \/ ResultInvalid(t)
    PROVE  TellInv'
  <1> DEFINE key == graph[t].key
  <1>1. PICK place \in {"failed", "done"} : graph' = [graph EXCEPT ![t].at = place]
    BY DEF Finish, ResultInvalid, Fail
  <1>2. graph[t].at = "finish" /\ Live(t) /\ rows' = rows /\ caller' = caller
    BY DEF Finish, ResultInvalid, In, Live
  <1>3. TaskMoves(t) /\ SameTask(graph'[t], graph[t])
    BY <1>1, <1>2, TaskGoes DEF Inv
  <1>4. TasksKeep /\ TasksSame
    BY <1>3, MovesKeep DEF TasksSame, TaskMoves, SameTask
  <1>5. RowsTell' /\ RowsGrow
    BY <1>2, RowsSame
  <1>6. TasksAgree'
    BY <1>2, <1>4, AgreeStays
  <1>7. CallersTold'
    <2> SUFFICES ASSUME NEW c \in Callers
                 PROVE  /\ Waits(c)' => caller'[c].txn = graph'[caller'[c].task].txn
                        /\ Faithful(caller[c].answer, caller[c].txn)'
      BY DEF CallersTold
    <2>1. Waits(c)' => caller'[c].txn = graph'[caller'[c].task].txn
      BY <1>2, <1>4
      DEF Waits, TasksSame, SameTask, TellInv, CallersTold, Inv, CallsInv, WaitersAwait
    <2> QED BY <1>2, <1>5, <2>1, AnswerStays
  <1>8. CASE UNCHANGED <<completed, trails>>
    BY <1>5, <1>6, <1>7, <1>8, KeysStay DEF TellInv
  <1>9. CASE /\ graph[t].mode = "mcp"
             /\ completed' = [completed EXCEPT ![key] = Answered(t)]
             /\ trails' = [trails EXCEPT ![key] = graph[t].trail]
    <2>1. key \in RunKeys /\ key[1] = graph[t].txn
      BY <1>2, <1>9 DEF TellInv, TasksAgree
    <2>2. PICK answer, trail, txn :
            answer = Answered(t) /\ trail = graph[t].trail /\ txn = graph[t].txn
      OBVIOUS
    <2>3. Recorded(answer, trail, txn)
      BY <1>2, <1>9, <2>2, AnsweredFaithfully
    <2>4. Recorded(answer, trail, txn)'
      BY <1>5, <2>3, RecordedStays
    <2>5. /\ completed'[key] = answer /\ trails'[key] = trail
          /\ trails' = [k \in RunKeys |-> trails'[k]]
          /\ \A k \in RunKeys \ {key} :
                completed'[k] = completed[k] /\ trails'[k] = trails[k]
      BY <1>9, <2>1, <2>2 DEF TellInv, KeysTell, Inv, CallsInv, CallsShape
    <2> HIDE DEF key
    <2>6. ASSUME NEW k \in RunKeys, completed'[k] # None
          PROVE  Recorded(completed[k], trails[k], k[1])'
      <3>1. CASE k = key
        <4>1. completed'[k] = answer /\ trails'[k] = trail /\ k[1] = txn
          BY <2>1, <2>2, <2>5, <3>1
        <4> QED BY <2>4, <4>1
      <3>2. CASE k # key
        <4>1. PICK a, b : a = completed[k] /\ b = trails[k]
          OBVIOUS
        <4>2. completed'[k] = a /\ trails'[k] = b
          BY <2>5, <3>2, <4>1
        <4>3. Recorded(a, b, k[1])
          BY <2>6, <4>1, <4>2 DEF TellInv, KeysTell
        <4>4. Recorded(a, b, k[1])'
          BY <1>5, <4>3, RecordedStays
        <4> QED BY <4>2, <4>4
      <3> QED BY <3>1, <3>2
    <2>7. KeysTell'
      BY <2>5, <2>6 DEF KeysTell
    <2> QED BY <1>5, <1>6, <1>7, <2>7 DEF TellInv
  <1>10. CASE /\ graph[t].mode = "mcp" /\ completed' = completed
              /\ trails' = [trails EXCEPT ![key] = graph[t].trail]
    <2>1. key \in RunKeys /\ completed[key] = None
      <3>1. key \in RunKeys
        BY <1>2, <1>10 DEF TellInv, TasksAgree
      <3> QED BY <1>2, <1>10, <3>1 DEF Inv, CallsInv, OnlyInFlight
    <2>2. /\ trails' = [k \in RunKeys |-> trails'[k]]
          /\ \A k \in RunKeys \ {key} : trails'[k] = trails[k]
      BY <1>10 DEF TellInv, KeysTell
    <2> HIDE DEF key
    <2>3. ASSUME NEW k \in RunKeys, completed'[k] # None
          PROVE  Recorded(completed[k], trails[k], k[1])'
      <3>1. k # key
        BY <1>10, <2>1, <2>3
      <3>2. PICK a, b : a = completed[k] /\ b = trails[k]
        OBVIOUS
      <3>3. completed'[k] = a /\ trails'[k] = b
        BY <1>10, <2>2, <3>1, <3>2
      <3>4. Recorded(a, b, k[1])
        BY <2>3, <3>2, <3>3 DEF TellInv, KeysTell
      <3>5. Recorded(a, b, k[1])'
        BY <1>5, <3>4, RecordedStays
      <3> QED BY <3>3, <3>5
    <2>4. KeysTell'
      BY <2>2, <2>3 DEF KeysTell
    <2> QED BY <1>5, <1>6, <1>7, <2>4 DEF TellInv
  <1> QED BY <1>8, <1>9, <1>10 DEF Finish, ResultInvalid

(* A call that replaces its own record, and nothing of rows, tasks or keys.  *)
LEMMA CallTells ==
    ASSUME Inv, TellInv, NEW c \in Callers,
           UNCHANGED <<rows, graph, completed, trails>>,
           \A d \in Callers \ {c} : caller'[d] = caller[d],
           Waits(c)' => caller'[c].txn = graph[caller'[c].task].txn,
           Faithful(caller[c].answer, caller[c].txn)'
    PROVE  TellInv'
  <1>1. RowsTell' /\ RowsGrow
    BY RowsSame
  <1>2. TasksAgree'
    BY DEF TellInv, TasksAgree
  <1>3. KeysTell'
    BY <1>1, KeysStay
  <1>4. CallersTold'
    <2> SUFFICES ASSUME NEW d \in Callers
                 PROVE  /\ Waits(d)' => caller'[d].txn = graph'[caller'[d].task].txn
                        /\ Faithful(caller[d].answer, caller[d].txn)'
      BY DEF CallersTold
    <2>1. CASE d = c
      BY <2>1
    <2>2. CASE d # c
      BY <1>1, <2>2, AnswerStays DEF Waits, TellInv, CallersTold
    <2> QED BY <2>1, <2>2
  <1> QED BY <1>1, <1>2, <1>3, <1>4 DEF TellInv

(* Who is answered from the cache is told of its own transaction.            *)
LEMMA ReplayTells ==
    ASSUME Inv, TellInv, NEW c \in Callers, Replay(c)
    PROVE  TellInv'
  <1>1. PICK req \in Requests :
           /\ completed[RunKey(req)] # None
           /\ caller' = [caller EXCEPT ![c] = [Idle EXCEPT !.txn = req.txn,
                           !.key = RunKey(req), !.answer = completed[RunKey(req)]]]
    BY DEF Replay
  <1>2. PICK answer : answer = completed[RunKey(req)]
    OBVIOUS
  <1>3. PICK new : new = [Idle EXCEPT !.txn = req.txn, !.key = RunKey(req),
                                      !.answer = answer]
    OBVIOUS
  <1>4. IsCaller(new) /\ new.at = "idle" /\ new.txn = req.txn /\ new.answer = answer
    BY <1>3 DEF Idle, IsCaller
  <1>5. caller'[c] = new /\ \A d \in Callers \ {c} : caller'[d] = caller[d]
    BY <1>1, <1>2, <1>3, <1>4, CallerBecomes DEF Inv, CallsInv
  <1>6. UNCHANGED <<rows, graph, completed, trails>>
    BY DEF Replay, graphVars
  <1>7. RunKey(req) \in RunKeys /\ RunKey(req)[1] = req.txn
    BY DEF RunKeys, RunKey
  <1>8. Recorded(answer, trails[RunKey(req)], req.txn)
    BY <1>1, <1>2, <1>7 DEF TellInv, KeysTell
  <1>9. Faithful(answer, req.txn)
    BY <1>8 DEF Faithful
  <1>10. RowsGrow
    BY <1>6, RowsSame
  <1>11. Faithful(answer, req.txn)'
    BY <1>9, <1>10, FaithfulStays
  <1>12. Faithful(caller[c].answer, caller[c].txn)'
    BY <1>4, <1>5, <1>11
  <1> QED BY <1>4, <1>5, <1>6, <1>12, CallTells DEF Waits

(* Who joins, joins an investigation of its own transaction.                 *)
LEMMA JoinTells ==
    ASSUME Inv, TellInv, NEW c \in Callers, Join(c)
    PROVE  TellInv'
  <1>1. PICK req \in Requests :
           /\ InFlight(RunKey(req)) # None
           /\ caller' = [caller EXCEPT ![c] = [Idle EXCEPT !.at = "waiting",
                           !.txn = req.txn, !.key = RunKey(req),
                           !.task = InFlight(RunKey(req))]]
    BY DEF Join
  <1>2. PICK new : new = [Idle EXCEPT !.at = "waiting", !.txn = req.txn,
                            !.key = RunKey(req), !.task = InFlight(RunKey(req))]
    OBVIOUS
  <1>3. /\ IsCaller(new) /\ new.task = inflight[RunKey(req)]
        /\ new.txn = req.txn /\ new.answer = NoAnswer
    BY <1>2 DEF Idle, IsCaller, InFlight
  <1>4. caller'[c] = new /\ \A d \in Callers \ {c} : caller'[d] = caller[d]
    BY <1>1, <1>2, <1>3, CallerBecomes DEF Inv, CallsInv
  <1>5. UNCHANGED <<rows, graph, completed, trails>>
    BY DEF Join, graphVars
  <1>6. RunKey(req) \in RunKeys /\ RunKey(req)[1] = req.txn
    BY DEF RunKeys, RunKey
  <1>7. /\ new.task \in Task /\ graph[new.task].mode = "mcp"
        /\ graph[new.task].key = RunKey(req) /\ graph[new.task].at # "unused"
    BY <1>1, <1>3, <1>6 DEF Inv, CallsInv, InFlightTasks, InFlight
  <1>8. graph[new.task].txn = new.txn
    BY <1>3, <1>6, <1>7 DEF TellInv, TasksAgree
  <1>9. Faithful(caller[c].answer, caller[c].txn)'
    BY <1>3, <1>4 DEF Faithful, NoAnswer
  <1> QED BY <1>4, <1>5, <1>8, <1>9, CallTells

(* A task that begins has no row, and its caller no answer.                  *)
LEMMA BeginTells ==
    ASSUME Inv, TellInv, NEW c \in Callers, NEW t \in Task, NEW mode, NEW txn, NEW key,
           Begin(c, t, mode, txn, key), UNCHANGED <<completed, trails>>,
           \/ mode = "mcp" /\ key \in RunKeys /\ key[1] = txn
           \/ mode \in {"http", "stream"} /\ key = None
    PROVE  TellInv'
  <1>1. /\ \A u \in Task \ {t} : graph'[u] = graph[u]
        /\ graph[t].at = "unused" /\ graph'[t].at = "start"
        /\ graph'[t].mode = mode /\ graph'[t].key = key
        /\ graph'[t].txn = txn /\ graph'[t].run = None
        /\ \A d \in Callers \ {c} : caller'[d] = caller[d]
        /\ caller'[c].task = t /\ caller'[c].txn = txn /\ caller'[c].answer = NoAnswer
    BY BeginMoves
  <1>2. rows' = rows
    BY DEF Begin
  <1>3. RowsTell' /\ RowsGrow
    BY <1>2, RowsSame
  <1>4. TasksAgree'
    BY <1>1, <1>2 DEF TellInv, TasksAgree
  <1>5. CallersTold'
    <2> SUFFICES ASSUME NEW d \in Callers
                 PROVE  /\ Waits(d)' => caller'[d].txn = graph'[caller'[d].task].txn
                        /\ Faithful(caller[d].answer, caller[d].txn)'
      BY DEF CallersTold
    <2>1. CASE d = c
      BY <1>1, <2>1 DEF Faithful, NoAnswer
    <2>2. CASE d # c
      <3>1. Faithful(caller[d].answer, caller[d].txn)'
        BY <1>1, <1>3, <2>2, AnswerStays
      <3>2. Waits(d)' => caller'[d].txn = graph'[caller'[d].task].txn
        BY <1>1, <2>2 DEF Waits, TellInv, CallersTold, Inv, CallsInv, WaitersAwait
      <3> QED BY <3>1, <3>2
    <2> QED BY <2>1, <2>2
  <1> QED BY <1>3, <1>4, <1>5, KeysStay DEF TellInv

(* Who wakes up is told what its task left behind, or that it failed.        *)
LEMMA WakeTells ==
    ASSUME Inv, TellInv, NEW c \in Callers, Wake(c)
    PROVE  TellInv'
  <1> DEFINE t == caller[c].task
  <1>1. Waits(c) /\ UNCHANGED <<rows, graph, completed, trails>>
    BY DEF Wake, CanWake, Waits, graphVars
  <1>2. PICK answer :
           /\ \/ graph[t].at = "done" /\ answer = Answered(t)
              \/ \E status : answer = [status |-> status]
           /\ caller' = [caller EXCEPT ![c] = [Idle EXCEPT !.txn = caller[c].txn,
                                                 !.key = caller[c].key, !.answer = answer]]
    BY DEF Wake
  <1>3. PICK new, txn : /\ new = [Idle EXCEPT !.txn = caller[c].txn, !.key = caller[c].key,
                                               !.answer = answer]
                        /\ txn = caller[c].txn
    OBVIOUS
  <1>4. IsCaller(new) /\ new.at = "idle" /\ new.txn = txn /\ new.answer = answer
    BY <1>3 DEF Idle, IsCaller
  <1>5. caller'[c] = new /\ \A d \in Callers \ {c} : caller'[d] = caller[d]
    BY <1>2, <1>3, <1>4, CallerBecomes DEF Inv, CallsInv
  <1>6. t \in Task /\ graph[t].txn = txn
    BY <1>1, <1>3 DEF Inv, CallsInv, WaitersAwait, TellInv, CallersTold
  <1>7. Faithful(answer, txn)
    <2>1. CASE graph[t].at = "done" /\ answer = Answered(t)
      <3> HIDE DEF t
      <3>1. Faithful(Answered(t), graph[t].txn)
        BY <1>6, <2>1, AnsweredFaithfully
      <3> QED BY <1>6, <2>1, <3>1
    <2>2. CASE \E status : answer = [status |-> status]
      BY <2>2 DEF Faithful
    <2> QED BY <1>2, <2>1, <2>2
  <1>8. RowsGrow
    BY <1>1, RowsSame
  <1>9. Faithful(answer, txn)'
    BY <1>7, <1>8, FaithfulStays
  <1>10. Faithful(caller[c].answer, caller[c].txn)'
    BY <1>4, <1>5, <1>9
  <1> QED BY <1>1, <1>4, <1>5, <1>10, CallTells DEF Waits

(* A cancellation changes where a task is, and nothing that it holds.        *)
LEMMA CancelTells ==
    ASSUME Inv, TellInv, NEW c \in Callers, Cancel(c)
    PROVE  TellInv'
  <1> DEFINE t == caller[c].task
  <1>1. /\ Waits(c) /\ UNCHANGED <<rows, completed, trails>>
        /\ caller' = [caller EXCEPT ![c].cancelled = TRUE]
        /\ graph' = IF Live(t) THEN [graph EXCEPT ![t].at = "cancelled"] ELSE graph
    BY DEF Cancel, Waits
  <1>2. TasksKeep /\ CallersKeep
    BY CancelMoves
  <1>3. TasksSame
    <2>1. CASE Live(t)
      <3>1. t \in Task
        BY <1>1 DEF Inv, CallsInv, WaitersAwait
      <3>2. TaskMoves(t) /\ SameTask(graph'[t], graph[t])
        BY <1>1, <2>1, <3>1, TaskGoes DEF Inv
      <3> QED BY <3>2 DEF TasksSame, TaskMoves, SameTask
    <2>2. CASE ~Live(t)
      BY <1>1, <2>2 DEF TasksSame, SameTask
    <2> QED BY <2>1, <2>2
  <1>4. RowsTell' /\ RowsGrow
    BY <1>1, RowsSame
  <1>5. TasksAgree'
    BY <1>1, <1>2, <1>3, AgreeStays
  <1>6. ASSUME NEW d \in Callers
        PROVE  caller'[d].answer = caller[d].answer /\ caller'[d].txn = caller[d].txn
    <2>1. PICK new : new = [caller[c] EXCEPT !.cancelled = TRUE]
      OBVIOUS
    <2>2. new.answer = caller[c].answer /\ new.txn = caller[c].txn /\ IsCaller(new)
      <3>1. IsCaller(caller[c])
        BY DEF Inv, CallsInv, CallsShape
      <3> QED BY <2>1, <3>1 DEF IsCaller
    <2>3. caller'[c] = new /\ \A e \in Callers \ {c} : caller'[e] = caller[e]
      BY <1>1, <2>1, <2>2, CallerBecomes DEF Inv, CallsInv
    <2> QED BY <2>2, <2>3
  <1>7. CallersTold'
    <2> SUFFICES ASSUME NEW d \in Callers
                 PROVE  /\ Waits(d)' => caller'[d].txn = graph'[caller'[d].task].txn
                        /\ Faithful(caller[d].answer, caller[d].txn)'
      BY DEF CallersTold
    <2>1. Faithful(caller[d].answer, caller[d].txn)'
      BY <1>4, <1>6, AnswerStays
    <2>2. Waits(d)' => /\ Waits(d) /\ caller'[d].task = caller[d].task
                       /\ caller[d].task \in Task
      BY <1>2 DEF Waits, CallersKeep, Inv, CallsInv, WaitersAwait
    <2>3. Waits(d)' => caller'[d].txn = graph'[caller'[d].task].txn
      BY <1>3, <1>6, <2>2 DEF TasksSame, SameTask, TellInv, CallersTold
    <2> QED BY <2>1, <2>3
  <1> QED BY <1>1, <1>4, <1>5, <1>7, KeysStay DEF TellInv

(* A restart loses answers, and changes none.                                *)
LEMMA RestartTells ==
    ASSUME Inv, TellInv, NEW process \in {"mcp", "api"}, Restart(process)
    PROVE  TellInv'
  <1> DEFINE Lost(c) == Waits(c) /\ ServedBy(process, graph[caller[c].task].mode)
  <1>1. /\ graph' = [t \in Task |-> IF Gone(process, t)
                                    THEN [graph[t] EXCEPT !.at = "cancelled"]
                                    ELSE graph[t]]
        /\ caller' = [c \in Callers |->
             IF Lost(c)
             THEN [Idle EXCEPT !.txn = caller[c].txn, !.key = caller[c].key,
                               !.answer = [status |-> "lost"]]
             ELSE caller[c]]
        /\ rows' = rows
    BY DEF Restart, Waits, Gone
  <1>2. ASSUME NEW t \in Task
        PROVE  /\ SameTask(graph'[t], graph[t])
               /\ graph'[t].at = "unused" <=> graph[t].at = "unused"
    <2>1. CASE Gone(process, t)
      <3>1. PICK left : left = [graph[t] EXCEPT !.at = "cancelled"]
        OBVIOUS
      <3>2. graph'[t] = left
        BY <1>1, <2>1, <3>1
      <3>3. IsState(graph[t])
        BY DEF Inv, GraphInv, GraphShape
      <3>4. left.at = "cancelled" /\ SameTask(left, graph[t])
        BY <3>1, <3>3 DEF IsState, SameTask
      <3>5. graph[t].at # "unused"
        BY <2>1 DEF Gone, Live, Nodes
      <3> QED BY <3>2, <3>4, <3>5
    <2>2. CASE ~Gone(process, t)
      BY <1>1, <2>2 DEF SameTask
    <2> QED BY <2>1, <2>2
  <1>3. RowsTell' /\ RowsGrow
    BY <1>1, RowsSame
  <1>4. TasksAgree'
    <2>1. TasksKeep
      BY <1>2, RestartMoves DEF TasksKeep, SameTask
    <2>2. TasksSame
      BY <1>2 DEF TasksSame
    <2> QED BY <1>1, <2>1, <2>2, AgreeStays
  <1>5. KeysTell'
    <2>1. CASE process = "mcp"
      <3>1. /\ completed' = [k \in RunKeys |-> None] /\ trails' = [k \in RunKeys |-> None]
        BY <2>1 DEF Restart
      <3> QED BY <3>1 DEF KeysTell
    <2>2. CASE process # "mcp"
      <3>1. UNCHANGED <<completed, trails>>
        BY <2>2 DEF Restart
      <3> QED BY <1>3, <3>1, KeysStay
    <2> QED BY <2>1, <2>2
  <1>6. CallersTold'
    <2> SUFFICES ASSUME NEW c \in Callers
                 PROVE  /\ Waits(c)' => caller'[c].txn = graph'[caller'[c].task].txn
                        /\ Faithful(caller[c].answer, caller[c].txn)'
      BY DEF CallersTold
    <2>1. CASE Lost(c)
      <3>1. PICK new : new = [Idle EXCEPT !.txn = caller[c].txn, !.key = caller[c].key,
                                          !.answer = [status |-> "lost"]]
        OBVIOUS
      <3>2. caller'[c] = new /\ new.at = "idle" /\ new.answer = [status |-> "lost"]
        BY <1>1, <2>1, <3>1 DEF Idle
      <3> QED BY <3>2 DEF Waits, Faithful
    <2>2. CASE ~Lost(c)
      <3>1. caller'[c] = caller[c]
        BY <1>1, <2>2
      <3>2. Waits(c)' => caller'[c].txn = graph'[caller'[c].task].txn
        BY <1>2, <3>1
        DEF Waits, SameTask, TellInv, CallersTold, Inv, CallsInv, WaitersAwait
      <3> QED BY <1>3, <3>1, <3>2, AnswerStays
    <2> QED BY <2>1, <2>2
  <1> QED BY <1>3, <1>4, <1>5, <1>6 DEF TellInv

(* So does whatever touches no row, task or call.                            *)
LEMMA StutterTells ==
    ASSUME Inv, TellInv, UNCHANGED <<rows, graph, caller, completed, trails>>
    PROVE  TellInv'
  <1>1. RowsTell' /\ RowsGrow
    BY RowsSame
  <1>2. TasksAgree'
    BY DEF TellInv, TasksAgree
  <1>3. CallersTold'
    <2> SUFFICES ASSUME NEW c \in Callers
                 PROVE  /\ Waits(c)' => caller'[c].txn = graph'[caller'[c].task].txn
                        /\ Faithful(caller[c].answer, caller[c].txn)'
      BY DEF CallersTold
    <2> QED BY <1>1, AnswerStays DEF Waits, TellInv, CallersTold
  <1> QED BY <1>1, <1>2, <1>3, KeysStay DEF TellInv

(* The invariant holds at first, when nothing has been asked.                *)
LEMMA InitTells ==
    ASSUME Init
    PROVE  TellInv
  <1>1. /\ rows = <<>> /\ graph = [t \in Task |-> Unused]
        /\ caller = [c \in Callers |-> Idle]
        /\ completed = [k \in RunKeys |-> None] /\ trails = [k \in RunKeys |-> None]
    BY DEF Init, CorpusInit, GraphInit
  <1>2. RowsTell
    <2>1. rows \in Seq({})
      BY <1>1
    <2> QED BY <1>1, <2>1 DEF RowsTell
  <1>3. Unused.at = "unused" /\ Unused.key = None /\ Unused.run = None
    BY DEF Unused
  <1>4. TasksAgree
    BY <1>1, <1>3 DEF TasksAgree
  <1>5. KeysTell
    BY <1>1 DEF KeysTell
  <1>6. Idle.at = "idle" /\ Idle.answer = [status |-> "none"]
    BY DEF Idle, NoAnswer
  <1>7. CallersTold
    BY <1>1, <1>6 DEF CallersTold, Waits, Faithful
  <1> QED BY <1>2, <1>4, <1>5, <1>7 DEF TellInv

(* Every step keeps it, beside the invariant on tasks and calls.             *)
LEMMA NextTells ==
    ASSUME Inv, TellInv, [Next]_vars
    PROVE  TellInv'
  <1>1. ASSUME NEW t \in Task, TaskStep(t)
        PROVE  TellInv'
    BY <1>1, NodeStepTells, FinishTells DEF TaskStep
  <1>2. ASSUME NEW c \in Callers, Investigate(c)
        PROVE  TellInv'
    <2>1. PICK req \in Requests, t \in Task :
             Begin(c, t, "mcp", req.txn, RunKey(req))
      BY <1>2 DEF Investigate
    <2>2. RunKey(req) \in RunKeys /\ RunKey(req)[1] = req.txn
      BY DEF RunKeys, RunKey
    <2>3. UNCHANGED <<completed, trails>>
      BY <1>2 DEF Investigate
    <2> QED BY <2>1, <2>2, <2>3, BeginTells
  <1>3. ASSUME NEW c \in Callers, Post(c)
        PROVE  TellInv'
    <2>1. PICK txn \in Transactions, t \in Task, mode \in {"http", "stream"} :
             Begin(c, t, mode, txn, None)
      BY <1>3 DEF Post
    <2>2. UNCHANGED <<completed, trails>>
      BY <1>3 DEF Post
    <2> QED BY <2>1, <2>2, BeginTells
  <1>4. ASSUME NEW c \in Callers, CallStep(c)
        PROVE  TellInv'
    BY <1>2, <1>3, <1>4, ReplayTells, JoinTells, CancelTells DEF CallStep
  <1>5. ASSUME NEW c \in Callers, Wake(c)
        PROVE  TellInv'
    BY <1>5, WakeTells
  <1>6. ASSUME NEW process \in {"mcp", "api"}, Restart(process)
        PROVE  TellInv'
    BY <1>6, RestartTells
  <1>7. ASSUME NEW b \in Backfills, CorpusStep(b)
        PROVE  TellInv'
    <2>1. rows' = rows
      BY <1>7 DEF CorpusStep, BackfillStep, ReadExisting, FetchRunRows, EmbedBatch,
                  KillBackfill, RunAgain
    <2> QED BY <1>7, <2>1, StutterTells DEF CorpusStep, graphVars, callVars
  <1>8. CASE UNCHANGED vars
    BY <1>8, StutterTells DEF vars, graphVars, callVars
  <1> QED BY <1>1, <1>4, <1>5, <1>6, <1>7, <1>8 DEF Next

(* Every reachable state satisfies both invariants.                          *)
LEMMA WhatIsTold == Spec => [](Inv /\ TellInv)
  <1>1. Init => TellInv
    BY InitTells
  <1>2. Inv /\ TellInv /\ [Next]_vars => TellInv'
    BY NextTells
  <1> QED BY <1>1, <1>2, InvestigationInvariant, PTL DEF Spec

(* An answer that names a run, and one that the tool keeps, is that of the   *)
(* row: its transaction, its label and its trail.                            *)
THEOREM AnswersMatchRecordAlways == Spec => []AnswersMatchRecord
  <1>1. TellInv => AnswersMatchRecord
    <2> SUFFICES ASSUME TellInv
                 PROVE  AnswersMatchRecord
      OBVIOUS
    <2>1. ASSUME NEW c \in Callers, "run" \in DOMAIN caller[c].answer,
                 caller[c].answer.run # None
          PROVE  /\ rows[caller[c].answer.run].txn = caller[c].txn
                 /\ rows[caller[c].answer.run].payload.label = caller[c].answer.label
                 /\ "trail" \in DOMAIN caller[c].answer =>
                      caller[c].answer.trail = rows[caller[c].answer.run].trail
      <3>1. PICK answer, txn : answer = caller[c].answer /\ txn = caller[c].txn
        OBVIOUS
      <3>2. Faithful(answer, txn)
        BY <3>1 DEF TellInv, CallersTold
      <3>3. CASE \E trail : Recorded(answer, trail, txn)
        BY <2>1, <3>1, <3>3 DEF Recorded, RowOf
      <3>4. CASE \E label, run, trail, degraded, reason :
                    Replied(answer, txn, label, run, trail, degraded, reason)
        BY <2>1, <3>1, <3>4 DEF Replied, RowOf
      <3>5. ASSUME NEW status, answer = [status |-> status]
            PROVE  FALSE
        BY <2>1, <3>1, <3>5
      <3>6. ASSUME NEW label, answer = [status |-> "ok", label |-> label]
            PROVE  FALSE
        BY <2>1, <3>1, <3>6
      <3> QED BY <3>2, <3>3, <3>4, <3>5, <3>6 DEF Faithful
    <2>2. ASSUME NEW k \in RunKeys, completed[k] # None, completed[k].run # None
          PROVE  trails[k] = rows[completed[k].run].trail
      <3>1. Recorded(completed[k], trails[k], k[1])
        BY <2>2 DEF TellInv, KeysTell
      <3>2. PICK label, run :
              /\ completed[k] = [status |-> "ok", label |-> label, run |-> run]
              /\ run # None => trails[k] = rows[run].trail
        BY <3>1 DEF Recorded
      <3>3. completed[k].run = run
        BY <3>2
      <3> QED BY <2>2, <3>2, <3>3
    <2> QED BY <2>1, <2>2 DEF AnswersMatchRecord
  <1> QED BY <1>1, WhatIsTold, PTL

(* A verdict that was not reasoned to says so, in the row and in the answer  *)
(* of POST /investigate; and a failed call of the model stays the reason,    *)
(* whatever the model admits later.                                          *)
THEOREM FailuresAreMarkedAlways == Spec => []FailuresAreMarked
  <1>1. TellInv => FailuresAreMarked
    <2> SUFFICES ASSUME TellInv
                 PROVE  FailuresAreMarked
      OBVIOUS
    <2>1. ASSUME NEW c \in Callers, "trail" \in DOMAIN caller[c].answer
          PROVE  /\ Unreasoned(caller[c].answer.trail) => caller[c].answer.degraded
                 /\ "llm_error" \in Range(caller[c].answer.trail) =>
                       caller[c].answer.reason = "LLM_UNAVAILABLE"
      <3>1. PICK answer, txn : answer = caller[c].answer /\ txn = caller[c].txn
        OBVIOUS
      <3>2. Faithful(answer, txn)
        BY <3>1 DEF TellInv, CallersTold
      <3>3. CASE \E label, run, trail, degraded, reason :
                    Replied(answer, txn, label, run, trail, degraded, reason)
        BY <3>1, <3>3 DEF Replied
      <3>4. ASSUME NEW status, answer = [status |-> status]
            PROVE  FALSE
        BY <2>1, <3>1, <3>4
      <3>5. ASSUME NEW label, answer = [status |-> "ok", label |-> label]
            PROVE  FALSE
        BY <2>1, <3>1, <3>5
      <3>6. ASSUME NEW label, NEW run,
                   answer = [status |-> "ok", label |-> label, run |-> run]
            PROVE  FALSE
        BY <2>1, <3>1, <3>6
      <3> QED BY <3>2, <3>3, <3>4, <3>5, <3>6 DEF Faithful, Recorded
    <2>2. \A i \in DOMAIN rows :
             Unreasoned(rows[i].trail) =>
                rows[i].payload.degraded # Untold /\ rows[i].payload.reason # Untold
      BY DEF TellInv, RowsTell
    <2> QED BY <2>1, <2>2 DEF FailuresAreMarked
  <1> QED BY <1>1, WhatIsTold, PTL

-------------------------------------------------------------------------------
(* Under a strict total order the elements of a finite set have one place    *)
(* each: how many come before, and one.                                      *)
IsOrder(R, S) ==
    /\ \A x \in S : <<x, x>> \notin R
    /\ \A x, y, z \in S : <<x, y>> \in R /\ <<y, z>> \in R => <<x, z>> \in R
    /\ \A x, y \in S : x = y \/ <<x, y>> \in R \/ <<y, x>> \in R

PlaceIn(R, S, x) == Cardinality({y \in S : <<y, x>> \in R}) + 1

(* In a finite strict total order every member has a place of its own, and no place is empty. *)
LEMMA PlacesFill ==
    ASSUME NEW S, IsFiniteSet(S), NEW R, IsOrder(R, S)
    PROVE  /\ Cardinality(S) \in Nat
           /\ \A x \in S : PlaceIn(R, S, x) \in 1 .. Cardinality(S)
           /\ \A x, y \in S : <<x, y>> \in R <=> PlaceIn(R, S, x) < PlaceIn(R, S, y)
           /\ \A i \in 1 .. Cardinality(S) : \E x \in S : PlaceIn(R, S, x) = i
  <1> DEFINE n == Cardinality(S)
             Before(x) == {y \in S : <<y, x>> \in R}
             place == [x \in S |-> PlaceIn(R, S, x)]
  <1>1. n \in Nat /\ IsFiniteSet(1 .. n) /\ Cardinality(1 .. n) = n
    <2>1. n \in Nat
      BY FS_CardinalityType
    <2>2. 1 \in Int /\ n \in Int
      BY <2>1
    <2>3. IsFiniteSet(1 .. n) /\ Cardinality(1 .. n) = IF 1 > n THEN 0 ELSE n - 1 + 1
      BY <2>2, FS_Interval
    <2> HIDE DEF n
    <2> QED BY <2>1, <2>3
  <1>2. \A x \in S : /\ IsFiniteSet(Before(x)) /\ Cardinality(Before(x)) \in Nat
                     /\ place[x] = Cardinality(Before(x)) + 1 /\ place[x] \in 1 .. n
    <2> TAKE x \in S
    <2>1. Before(x) \in SUBSET S /\ x \in S /\ x \notin Before(x)
      BY DEF IsOrder
    <2>2. IsFiniteSet(Before(x)) /\ Cardinality(Before(x)) <= n
          /\ Cardinality(Before(x)) # n
      <3> HIDE DEF Before
      <3> QED BY <2>1, FS_Subset
    <2>3. Cardinality(Before(x)) \in Nat
      BY <2>2, FS_CardinalityType
    <2>4. place[x] = Cardinality(Before(x)) + 1
      BY DEF PlaceIn
    <2> HIDE DEF n, Before, place
    <2> QED BY <1>1, <2>2, <2>3, <2>4
  <1>3. \A x, y \in S : <<x, y>> \in R => place[x] < place[y]
    <2> SUFFICES ASSUME NEW x \in S, NEW y \in S, <<x, y>> \in R
                 PROVE  place[x] < place[y]
      OBVIOUS
    <2>1. Before(x) \in SUBSET Before(y) /\ x \in Before(y) /\ x \notin Before(x)
      BY DEF IsOrder
    <2>2. Cardinality(Before(x)) <= Cardinality(Before(y))
          /\ Cardinality(Before(x)) # Cardinality(Before(y))
      <3>1. IsFiniteSet(Before(y))
        BY <1>2
      <3> HIDE DEF Before
      <3> QED BY <2>1, <3>1, FS_Subset
    <2>3. /\ place[x] = Cardinality(Before(x)) + 1 /\ place[y] = Cardinality(Before(y)) + 1
          /\ Cardinality(Before(x)) \in Nat /\ Cardinality(Before(y)) \in Nat
      BY <1>2
    <2> HIDE DEF Before, place
    <2> QED BY <2>2, <2>3
  <1>4. \A x \in S : place[x] = PlaceIn(R, S, x) /\ place[x] \in Int
    <2>1. \A x \in S : place[x] = PlaceIn(R, S, x)
      OBVIOUS
    <2>2. \A x \in S : place[x] \in 1 .. n
      BY <1>2
    <2> HIDE DEF place, n
    <2> QED BY <1>1, <2>1, <2>2
  <1>5. DOMAIN place = S /\ place \in [S -> 1 .. n]
    BY <1>2
  <1> HIDE DEF place, Before
  <1>6. \A x, y \in S : <<x, y>> \in R <=> place[x] < place[y]
    <2> SUFFICES ASSUME NEW x \in S, NEW y \in S, place[x] < place[y]
                 PROVE  <<x, y>> \in R
      BY <1>3
    <2>1. place[x] \in Int /\ place[y] \in Int
      BY <1>4
    <2>2. ~(place[y] < place[x]) /\ x # y
      BY <2>1
    <2> QED BY <1>3, <2>2 DEF IsOrder
  <1>7. place \in Injection(S, 1 .. n)
    <2>1. \A x, y \in S : place[x] = place[y] => x = y
      <3> SUFFICES ASSUME NEW x \in S, NEW y \in S, place[x] = place[y]
                   PROVE  x = y
        OBVIOUS
      <3>1. place[x] \in Int /\ place[y] \in Int
        BY <1>4
      <3>2. ~(place[x] < place[y]) /\ ~(place[y] < place[x])
        BY <3>1
      <3> QED BY <1>3, <3>2 DEF IsOrder
    <2> QED BY <1>5, <2>1 DEF Injection, IsInjective
  <1>8. \A i \in 1 .. n : \E x \in S : place[x] = i
    <2>1. place \in Surjection(S, 1 .. n)
      <3> HIDE DEF n
      <3> QED BY <1>1, <1>7, FS_Injection DEF n
    <2> HIDE DEF n
    <2> QED BY <2>1 DEF Surjection
  <1> QED BY <1>1, <1>2, <1>4, <1>6, <1>8

(* An increasing list from the places.                                       *)
LEMMA InOrderLists ==
    ASSUME NEW S, IsFiniteSet(S), \A x \in S : x \in Int
    PROVE  /\ Cardinality(S) \in Nat
           /\ InOrder(S) \in [1 .. Cardinality(S) -> S]
           /\ \A i, j \in 1 .. Cardinality(S) : i < j => InOrder(S)[i] < InOrder(S)[j]
  <1> DEFINE n == Cardinality(S)
             R == {p \in S \X S : p[1] < p[2]}
             Ascending(list) == \A i, j \in DOMAIN list : i < j => list[i] < list[j]
  <1>1. IsOrder(R, S) /\ \A x, y \in S : <<x, y>> \in R <=> x < y
    BY DEF IsOrder
  <1> HIDE DEF R
  <1>2. /\ n \in Nat
        /\ \A x, y \in S : <<x, y>> \in R <=> PlaceIn(R, S, x) < PlaceIn(R, S, y)
        /\ \A i \in 1 .. n : \E x \in S : PlaceIn(R, S, x) = i
    BY <1>1, PlacesFill
  <1> DEFINE list == [i \in 1 .. n |-> CHOOSE x \in S : PlaceIn(R, S, x) = i]
  <1>3. \A i \in 1 .. n : list[i] \in S /\ PlaceIn(R, S, list[i]) = i
    BY <1>2
  <1>4. DOMAIN list = 1 .. n /\ list \in [1 .. n -> S]
    BY <1>3
  <1> HIDE DEF list, n
  <1>5. Ascending(list)
    BY <1>1, <1>2, <1>3, <1>4
  <1>6. InOrder(S) \in [1 .. n -> S] /\ Ascending(InOrder(S))
    BY <1>4, <1>5 DEF InOrder, n
  <1> QED BY <1>2, <1>6 DEF n

(* A list that names no element twice.                                       *)
Distinct(list) == \A i, j \in 1 .. Len(list) : list[i] = list[j] => i = j

(* Where a case may come from.                                               *)
Sources == {"seed", "run"} \X (Range(StaticCases) \cup Int)

(* What the script reads names no case twice.                                *)
LEMMA AllRowsDistinct ==
    ASSUME NEW limit \in Nat, \E S : rows \in Seq(S)
    PROVE  /\ AllRows(limit) \in Seq(Sources)
           /\ Distinct(AllRows(limit))
  <1> DEFINE judged == {i \in DOMAIN rows : rows[i].payload.label # None}
             concluded == InOrder(judged)
             n == Cardinality(judged)
             m == IF limit < Len(concluded) THEN limit ELSE Len(concluded)
             run == RunRows(limit)
  <1>1. IsFiniteSet(judged) /\ \A i \in judged : i \in Int
    <2>1. Len(rows) \in Nat /\ DOMAIN rows = 1 .. Len(rows)
      OBVIOUS
    <2>2. IsFiniteSet(1 .. Len(rows))
      BY <2>1, FS_Interval
    <2>3. judged \in SUBSET (1 .. Len(rows))
      BY <2>1
    <2>4. IsFiniteSet(judged)
      BY <2>2, <2>3, FS_Subset
    <2> QED BY <2>1, <2>4
  <1>2. /\ n \in Nat /\ concluded \in [1 .. n -> judged]
        /\ \A i, j \in 1 .. n : i < j => concluded[i] < concluded[j]
    BY <1>1, InOrderLists
  <1>3. Len(concluded) = n
    <2> HIDE DEF n, judged, concluded
    <2> QED BY <1>2
  <1>j. \A i \in 1 .. n : concluded[i] \in Int
    BY <1>1, <1>2
  <1>r. run = SubSeq(concluded, 1, m)
    BY DEF RunRows
  <1> HIDE DEF n, judged, concluded, run
  <1>4. m \in Nat /\ m <= n
    BY <1>2, <1>3
  <1> HIDE DEF m
  <1>5. /\ run \in Seq(Int) /\ Len(run) = m
        /\ \A i \in 1 .. m : run[i] = concluded[i]
    <2>1. \A i \in 1 .. m : concluded[i] \in Int
      BY <1>2, <1>4, <1>j
    <2>2. 1 \in Int /\ m \in Int
      BY <1>4
    <2>3. /\ run \in Seq(Int) /\ Len(run) = IF 1 <= m THEN m - 1 + 1 ELSE 0
          /\ \A i \in 1 .. m - 1 + 1 : run[i] = concluded[1 + i - 1]
      BY <1>r, <2>1, <2>2, SubSeqProperties
    <2> QED BY <1>4, <2>3
  <1>6. Distinct(run)
    <2> SUFFICES ASSUME NEW i \in 1 .. m, NEW j \in 1 .. m, run[i] = run[j]
                 PROVE  i = j
      BY <1>5 DEF Distinct
    <2>1. concluded[i] = concluded[j] /\ concluded[i] \in Int
      BY <1>4, <1>5, <1>j, <1>2
    <2>2. i \in 1 .. n /\ j \in 1 .. n
      BY <1>2, <1>4
    <2> QED BY <1>2, <2>1, <2>2
  <1> DEFINE static == [i \in DOMAIN StaticCases |-> <<"seed", StaticCases[i]>>]
             past == [i \in DOMAIN run |-> <<"run", run[i]>>]
             k == Len(StaticCases)
  <1>7. /\ k \in Nat /\ DOMAIN StaticCases = 1 .. k
        /\ \A i \in 1 .. k : StaticCases[i] \in Range(StaticCases)
        /\ Distinct(StaticCases)
    BY CorpusAssumption DEF Distinct, IsInjective, Range
  <1>8. /\ static \in Seq(Sources) /\ Len(static) = k
        /\ \A i \in 1 .. k : static[i] = <<"seed", StaticCases[i]>>
    BY <1>7 DEF Sources
  <1>9. /\ past \in Seq(Sources) /\ Len(past) = m
        /\ \A i \in 1 .. m : past[i] = <<"run", run[i]>>
    BY <1>4, <1>5 DEF Sources
  <1>10. AllRows(limit) = static \o past
    BY DEF AllRows, run
  <1> DEFINE all == AllRows(limit)
  <1> HIDE DEF static, past, k, all
  <1>11. /\ all \in Seq(Sources) /\ Len(all) = k + m
         /\ \A i \in 1 .. k : all[i] = <<"seed", StaticCases[i]>>
         /\ \A i \in k + 1 .. k + m : all[i] = <<"run", run[i - k]>>
    <2>1. /\ all \in Seq(Sources) /\ Len(all) = k + m
          /\ \A i \in 1 .. k : all[i] = static[i]
          /\ \A i \in 1 .. m : all[k + i] = past[i]
      <3>1. all = static \o past /\ static \in Seq(Sources) /\ past \in Seq(Sources)
        BY <1>8, <1>9, <1>10 DEF all
      <3>2. /\ all \in Seq(Sources) /\ Len(all) = Len(static) + Len(past)
            /\ \A i \in 1 .. Len(all) :
                  all[i] = IF i <= Len(static) THEN static[i] ELSE past[i - Len(static)]
        BY <3>1, ConcatProperties
      <3>3. Len(static) = k /\ Len(past) = m
        BY <1>8, <1>9
      <3>4. \A i \in 1 .. m : k + i \in 1 .. k + m /\ ~(k + i <= k) /\ (k + i) - k = i
        BY <1>4, <1>7
      <3>5. \A i \in 1 .. k : i \in 1 .. k + m /\ i <= k
        BY <1>4, <1>7
      <3>6. all \in Seq(Sources) /\ Len(all) = k + m
        BY <3>2, <3>3
      <3>7. \A i \in 1 .. k + m : all[i] = IF i <= k THEN static[i] ELSE past[i - k]
        BY <3>2, <3>3, <3>6
      <3>8. ASSUME NEW i \in 1 .. k
            PROVE  all[i] = static[i]
        BY <3>5, <3>7
      <3>9. ASSUME NEW i \in 1 .. m
            PROVE  all[k + i] = past[i]
        BY <3>4, <3>7
      <3> QED BY <3>6, <3>8, <3>9
    <2>2. ASSUME NEW i \in k + 1 .. k + m
          PROVE  all[i] = <<"run", run[i - k]>>
      <3>1. i - k \in 1 .. m /\ k + (i - k) = i
        BY <1>4, <1>7
      <3> QED BY <1>9, <2>1, <3>1
    <2> QED BY <1>8, <2>1, <2>2
  <1>12. Distinct(all)
    <2> SUFFICES ASSUME NEW i \in 1 .. k + m, NEW j \in 1 .. k + m, all[i] = all[j]
                 PROVE  i = j
      BY <1>11 DEF Distinct
    <2>1. (i \in 1 .. k \/ i \in k + 1 .. k + m) /\ (j \in 1 .. k \/ j \in k + 1 .. k + m)
      BY <1>4, <1>7
    <2>2. CASE i \in 1 .. k /\ j \in 1 .. k
      <3>1. StaticCases[i] = StaticCases[j]
        BY <1>11, <2>2
      <3> QED BY <1>7, <2>2, <3>1 DEF Distinct, k
    <2>3. CASE i \in k + 1 .. k + m /\ j \in k + 1 .. k + m
      <3>1. run[i - k] = run[j - k]
        BY <1>11, <2>3
      <3>2. i - k \in 1 .. m /\ j - k \in 1 .. m
        BY <1>4, <1>7, <2>3
      <3>3. i - k = j - k
        BY <1>5, <1>6, <3>1, <3>2 DEF Distinct
      <3> QED BY <1>4, <1>7, <2>3, <3>3
    <2>4. CASE (i \in 1 .. k) # (j \in 1 .. k)
      BY <1>11, <2>1, <2>4
    <2> QED BY <2>1, <2>2, <2>3, <2>4
  <1> QED BY <1>11, <1>12 DEF all

(* Nor do the candidates, none of which exists.                              *)
LEMMA CandidatesDistinct ==
    ASSUME NEW limit \in Nat, NEW existing, \E S : rows \in Seq(S)
    PROVE  /\ Candidates(limit, existing) \in Seq(Sources)
           /\ Distinct(Candidates(limit, existing))
           /\ \A i \in 1 .. Len(Candidates(limit, existing)) :
                 Candidates(limit, existing)[i] \notin existing
  <1> DEFINE all == AllRows(limit)
             fresh == {i \in DOMAIN all : all[i] \notin existing}
             new == InOrder(fresh)
             n == Cardinality(fresh)
             found == Candidates(limit, existing)
  <1>1. all \in Seq(Sources) /\ Distinct(all)
    BY AllRowsDistinct
  <1>f. found = [i \in DOMAIN new |-> all[new[i]]]
    BY DEF Candidates
  <1> HIDE DEF all
  <1>2. DOMAIN all = 1 .. Len(all) /\ Len(all) \in Nat
    BY <1>1
  <1>3. IsFiniteSet(fresh) /\ \A i \in fresh : i \in Int
    <2>1. IsFiniteSet(1 .. Len(all))
      BY <1>2, FS_Interval
    <2>2. fresh \in SUBSET (1 .. Len(all))
      BY <1>2
    <2> QED BY <1>2, <2>1, <2>2, FS_Subset
  <1>4. /\ n \in Nat /\ new \in [1 .. n -> fresh]
        /\ \A i, j \in 1 .. n : i < j => new[i] < new[j]
    BY <1>3, InOrderLists
  <1>5. \A i \in 1 .. n : /\ new[i] \in 1 .. Len(all) /\ all[new[i]] \in Sources
                         /\ all[new[i]] \notin existing
    BY <1>1, <1>2, <1>4
  <1> HIDE DEF fresh, new, n, found
  <1>6. /\ found \in Seq(Sources) /\ Len(found) = n
        /\ \A i \in 1 .. n : found[i] = all[new[i]]
    BY <1>4, <1>5, <1>f
  <1>7. Distinct(found)
    <2> SUFFICES ASSUME NEW i \in 1 .. n, NEW j \in 1 .. n, found[i] = found[j]
                 PROVE  i = j
      BY <1>6 DEF Distinct
    <2>1. new[i] = new[j] /\ new[i] \in Int
      BY <1>1, <1>5, <1>6 DEF Distinct
    <2> QED BY <1>4, <2>1
  <1> QED BY <1>5, <1>6, <1>7 DEF found

(* A list of distinct elements has as many as it is long.                    *)
LEMMA DistinctRange ==
    ASSUME NEW S, NEW list \in Seq(S), Distinct(list)
    PROVE  IsFiniteSet(Range(list)) /\ Cardinality(Range(list)) = Len(list)
  <1>1. Len(list) \in Nat /\ DOMAIN list = 1 .. Len(list)
    OBVIOUS
  <1>2. IsFiniteSet(1 .. Len(list)) /\ Cardinality(1 .. Len(list)) = Len(list)
    BY <1>1, FS_Interval
  <1>3. list \in [1 .. Len(list) -> Range(list)]
    BY <1>1 DEF Range
  <1>4. /\ list \in Surjection(1 .. Len(list), Range(list))
        /\ list \in Injection(1 .. Len(list), Range(list))
    <2>1. \A x \in Range(list) : \E i \in 1 .. Len(list) : list[i] = x
      BY <1>1 DEF Range
    <2> QED BY <1>1, <1>3, <2>1 DEF Surjection, Injection, IsInjective, Distinct
  <1> QED BY <1>2, <1>4, FS_Surjection

(* How far a process has come with the script.                               *)
Progress(r, corpus) ==
    /\ r = [at |-> r.at, limit |-> r.limit, existing |-> r.existing,
            candidates |-> r.candidates, todo |-> r.todo, embedded |-> r.embedded,
            total |-> r.total]
    /\ r.limit \in Nat /\ r.existing \subseteq corpus
    /\ r.candidates \in Seq(Sources) /\ Distinct(r.candidates)
    /\ \A i \in 1 .. Len(r.candidates) : r.candidates[i] \notin r.existing
    /\ r.embedded \in Nat /\ r.todo \in Seq(Sources)
    /\ r.at \in {"idle", "fetch"} => r.embedded = 0
    /\ r.embedded + Len(r.todo) = Len(r.candidates)
    /\ \A i \in 1 .. Len(r.todo) : r.todo[i] = r.candidates[r.embedded + i]
    /\ \A i \in 1 .. r.embedded : r.candidates[i] \in corpus
    /\ r.at = "reported" =>
          Len(r.todo) = 0 /\ r.total = Cardinality(r.existing) + Len(r.candidates)

(* The inductive invariant about the corpus.                                 *)
CorpusInv ==
    /\ IsFiniteSet(cases)
    /\ backfill = [b \in Backfills |-> backfill[b]]
    /\ \A b \in Backfills : Progress(backfill[b], cases)

(* It stays true of a process while the corpus grows.                        *)
LEMMA ProgressStays ==
    ASSUME NEW r, NEW corpus, NEW larger, corpus \subseteq larger, Progress(r, corpus)
    PROVE  Progress(r, larger)
  <1>1. /\ r.existing \subseteq larger
        /\ \A i \in 1 .. r.embedded : r.candidates[i] \in larger
    BY DEF Progress
  <1> QED BY <1>1 DEF Progress

(* A process whose record a step replaces, while the corpus may grow.        *)
LEMMA CorpusBecomes ==
    ASSUME CorpusInv, NEW b \in Backfills, NEW r, backfill' = [backfill EXCEPT ![b] = r],
           IsFiniteSet(cases'), cases \subseteq cases', Progress(r, cases')
    PROVE  CorpusInv'
  <1>1. backfill'[b] = r /\ \A o \in Backfills \ {b} : backfill'[o] = backfill[o]
    BY DEF CorpusInv
  <1>2. \A o \in Backfills \ {b} : Progress(backfill'[o], cases')
    <2> SUFFICES ASSUME NEW o \in Backfills \ {b}
                 PROVE  Progress(backfill'[o], cases')
      OBVIOUS
    <2>1. Progress(backfill[o], cases) /\ backfill'[o] = backfill[o]
      BY <1>1 DEF CorpusInv
    <2> QED BY <2>1, ProgressStays
  <1>3. backfill' = [o \in Backfills |-> backfill'[o]]
    BY DEF CorpusInv
  <1> QED BY <1>1, <1>2, <1>3 DEF CorpusInv

(* No process has begun, and no case exists.                                 *)
LEMMA CorpusInitHolds == ASSUME CorpusInit PROVE CorpusInv
  <1>1. IsFiniteSet(cases)
    BY FS_EmptySet DEF CorpusInit
  <1>2. Progress(NotRunning, cases)
    BY DEF NotRunning, Progress, Distinct
  <1> QED BY <1>1, <1>2 DEF CorpusInit, CorpusInv

(* One case for each step of the script.                                     *)
LEMMA BackfillKeeps ==
    ASSUME CorpusInv, \E S : rows \in Seq(S), NEW b \in Backfills, BackfillStep(b)
    PROVE  CorpusInv'
  <1> DEFINE r == backfill[b]
  <1>0. Progress(r, cases) /\ IsFiniteSet(cases)
    BY DEF CorpusInv
  <1>1. CASE ReadExisting(b)
    <2>1. PICK limit \in Limits :
             backfill' = [backfill EXCEPT ![b] =
                [NotRunning EXCEPT !.at = "fetch", !.limit = limit, !.existing = cases]]
      BY <1>1 DEF ReadExisting
    <2> DEFINE left == [NotRunning EXCEPT !.at = "fetch", !.limit = limit,
                                          !.existing = cases]
    <2>2. cases' = cases /\ limit \in Nat
      BY <1>1, CorpusAssumption DEF ReadExisting
    <2>3. left = [at |-> "fetch", limit |-> limit, existing |-> cases,
                  candidates |-> <<>>, todo |-> <<>>, embedded |-> 0, total |-> 0]
      <3>1. PICK idle : idle = NotRunning
        OBVIOUS
      <3>2. left = [idle EXCEPT !.at = "fetch", !.limit = limit, !.existing = cases]
        BY <3>1
      <3>3. idle = [at |-> "idle", limit |-> 0, existing |-> {}, candidates |-> <<>>,
                    todo |-> <<>>, embedded |-> 0, total |-> 0]
        BY <3>1 DEF NotRunning
      <3> HIDE DEF left
      <3> QED BY <3>2, <3>3
    <2>4. Progress(left, cases)
      <3> HIDE DEF left
      <3> QED BY <2>2, <2>3 DEF Progress, Distinct
    <2> QED BY <1>0, <2>1, <2>2, <2>4, CorpusBecomes
  <1>2. CASE FetchRunRows(b)
    <2>1. PICK found : found = Candidates(r.limit, r.existing)
      OBVIOUS
    <2>2. /\ found \in Seq(Sources) /\ Distinct(found)
          /\ \A i \in 1 .. Len(found) : found[i] \notin r.existing
      BY <1>0, <2>1, CandidatesDistinct DEF Progress
    <2>3. PICK place, total :
             /\ place = IF found = <<>> THEN "reported" ELSE "embed"
             /\ total = IF found = <<>> THEN Cardinality(r.existing) ELSE 0
      OBVIOUS
    <2>4. PICK left : left = [r EXCEPT !.candidates = found, !.todo = found,
                                       !.at = place, !.total = total]
      OBVIOUS
    <2>5. /\ backfill' = [backfill EXCEPT ![b] = left] /\ cases' = cases
          /\ r.at = "fetch"
      BY <1>2, <2>1, <2>3, <2>4 DEF FetchRunRows, AtStep
    <2>6. /\ left = [at |-> place, limit |-> r.limit, existing |-> r.existing,
                     candidates |-> found, todo |-> found, embedded |-> 0,
                     total |-> total]
          /\ r.limit \in Nat /\ r.existing \subseteq cases
      BY <1>0, <2>4, <2>5 DEF Progress
    <2>7. Cardinality(r.existing) \in Nat
      BY <1>0, <2>6, FS_Subset, FS_CardinalityType
    <2> HIDE DEF r
    <2>8. Progress(left, cases)
      BY <2>2, <2>3, <2>6, <2>7 DEF Progress
    <2> QED BY <1>0, <2>5, <2>8, CorpusBecomes
  <1>3. CASE EmbedBatch(b)
    <2>1. CASE Range(Batch(b)) \cap cases # {}
      <3>1. PICK left : left = [r EXCEPT !.at = "failed"]
        OBVIOUS
      <3>2. backfill' = [backfill EXCEPT ![b] = left] /\ cases' = cases
        BY <1>3, <2>1, <3>1 DEF EmbedBatch
      <3>3. Progress(left, cases)
        BY <1>0, <3>1 DEF Progress
      <3> QED BY <1>0, <3>2, <3>3, CorpusBecomes
    <2>2. CASE Range(Batch(b)) \cap cases = {}
      <3> DEFINE size == IF BatchSize < Len(r.todo) THEN BatchSize ELSE Len(r.todo)
                 next == NextBatch(b)
                 batch == Batch(b)
      <3>1. PICK embedded, place, total :
               /\ embedded = r.embedded + Len(batch)
               /\ place = IF next = <<>> THEN "reported" ELSE "embed"
               /\ total = IF next = <<>> THEN Cardinality(r.existing) + embedded ELSE 0
        OBVIOUS
      <3>2. PICK left : left = [r EXCEPT !.todo = next, !.embedded = embedded,
                                         !.at = place, !.total = total]
        OBVIOUS
      <3>3. /\ backfill' = [backfill EXCEPT ![b] = left]
            /\ cases' = cases \cup Range(batch)
        BY <1>3, <2>2, <3>1, <3>2 DEF EmbedBatch
      <3>4. /\ r.todo \in Seq(Sources) /\ Len(r.todo) \in Nat /\ BatchSize \in Nat \ {0}
            /\ \A i \in 1 .. Len(r.todo) : r.todo[i] \in Sources
        BY <1>0, CorpusAssumption DEF Progress
      <3> HIDE DEF r
      <3>5. size \in Nat /\ size <= Len(r.todo)
        BY <3>4
      <3>6. /\ batch \in Seq(Sources) /\ Len(batch) = size
            /\ \A i \in 1 .. size : batch[i] = r.todo[i]
        <4>1. \A i \in 1 .. size : r.todo[i] \in Sources
          BY <3>4, <3>5
        <4>2. batch = SubSeq(r.todo, 1, size)
          BY DEF Batch, r
        <4> HIDE DEF size, batch
        <4>3. 1 \in Int /\ size \in Int
          BY <3>5
        <4>4. /\ batch \in Seq(Sources) /\ Len(batch) = IF 1 <= size THEN size - 1 + 1 ELSE 0
              /\ \A i \in 1 .. size - 1 + 1 : batch[i] = r.todo[1 + i - 1]
          BY <4>1, <4>2, <4>3, SubSeqProperties
        <4> QED BY <3>5, <4>4
      <3>7. /\ next \in Seq(Sources) /\ Len(next) = Len(r.todo) - size
            /\ \A i \in 1 .. Len(next) : next[i] = r.todo[size + i]
        <4>1. \A i \in BatchSize + 1 .. Len(r.todo) : r.todo[i] \in Sources
          BY <3>4
        <4>2. next = SubSeq(r.todo, BatchSize + 1, Len(r.todo))
          BY DEF NextBatch, r
        <4> HIDE DEF next, batch
        <4>3. BatchSize + 1 \in Int /\ Len(r.todo) \in Int
          BY <3>4
        <4>4. /\ next \in Seq(Sources)
              /\ Len(next) = IF BatchSize + 1 <= Len(r.todo)
                             THEN Len(r.todo) - (BatchSize + 1) + 1 ELSE 0
              /\ \A i \in 1 .. Len(r.todo) - (BatchSize + 1) + 1 :
                    next[i] = r.todo[(BatchSize + 1) + i - 1]
          BY <4>1, <4>2, <4>3, SubSeqProperties
        <4>5. PICK length, batchSize :
                 length = Len(r.todo) /\ batchSize = BatchSize
          OBVIOUS
        <4>6. /\ Len(next) = length - size /\ size \in Nat /\ length \in Nat
              /\ Len(next) > 0 => batchSize = size
          <5>1. /\ Len(next) = IF batchSize + 1 <= length
                               THEN length - (batchSize + 1) + 1 ELSE 0
                /\ length \in Nat /\ batchSize \in Nat
                /\ size = IF batchSize < length THEN batchSize ELSE length
            BY <3>4, <4>4, <4>5 DEF size
          <5> QED BY <5>1
        <4>7. \A i \in 1 .. Len(next) : /\ i \in 1 .. length - (batchSize + 1) + 1
                                       /\ (batchSize + 1) + i - 1 = size + i
          BY <4>6
        <4> QED BY <4>4, <4>5, <4>6, <4>7
      <3> HIDE DEF size, next, batch
      <3>8. /\ left = [at |-> place, limit |-> r.limit, existing |-> r.existing,
                       candidates |-> r.candidates, todo |-> next,
                       embedded |-> embedded, total |-> total]
            /\ embedded = r.embedded + size /\ r.embedded \in Nat
            /\ r.embedded + Len(r.todo) = Len(r.candidates)
        BY <1>0, <3>1, <3>2, <3>6 DEF Progress, r
      <3>9. \A i \in 1 .. size : /\ batch[i] = r.candidates[r.embedded + i]
                                 /\ r.embedded + i \in 1 .. Len(r.candidates)
                                 /\ batch[i] \in Range(batch)
        <4>1. \A i \in 1 .. Len(r.todo) : r.todo[i] = r.candidates[r.embedded + i]
          BY <1>0 DEF Progress, r
        <4> SUFFICES ASSUME NEW i \in 1 .. size
                     PROVE  /\ batch[i] = r.candidates[r.embedded + i]
                            /\ r.embedded + i \in 1 .. Len(r.candidates)
                            /\ batch[i] \in Range(batch)
          OBVIOUS
        <4>2. i \in 1 .. Len(r.todo) /\ r.embedded + i \in 1 .. Len(r.candidates)
          BY <3>4, <3>5, <3>8
        <4>3. i \in DOMAIN batch
          BY <3>6
        <4> QED BY <3>6, <4>1, <4>2, <4>3 DEF Range
      <3>10. IsFiniteSet(cases') /\ cases \subseteq cases'
        <4>1. r.candidates \in Seq(Sources) /\ Distinct(r.candidates)
          BY <1>0 DEF Progress, r
        <4>2. IsFiniteSet(Range(r.candidates)) /\ DOMAIN r.candidates = 1 .. Len(r.candidates)
          BY <4>1, DistinctRange
        <4>3. DOMAIN batch = 1 .. size
          BY <3>6
        <4>4. Range(batch) \in SUBSET Range(r.candidates)
          BY <3>9, <4>2, <4>3 DEF Range
        <4>5. IsFiniteSet(Range(batch))
          BY <4>2, <4>4, FS_Subset
        <4> QED BY <1>0, <3>3, <4>5, FS_Union
      <3>11. /\ embedded \in Nat /\ embedded + Len(next) = Len(r.candidates)
             /\ Len(next) \in Nat
        BY <3>4, <3>5, <3>7, <3>8
      <3>12. \A i \in 1 .. Len(next) : next[i] = r.candidates[embedded + i]
        <4>1. \A i \in 1 .. Len(r.todo) : r.todo[i] = r.candidates[r.embedded + i]
          BY <1>0 DEF Progress, r
        <4> SUFFICES ASSUME NEW i \in 1 .. Len(next)
                     PROVE  next[i] = r.candidates[embedded + i]
          OBVIOUS
        <4>2. /\ size + i \in 1 .. Len(r.todo)
              /\ r.embedded + (size + i) = embedded + i
          BY <3>4, <3>5, <3>7, <3>8, <3>11
        <4>3. next[i] = r.todo[size + i]
          BY <3>7
        <4> QED BY <4>1, <4>2, <4>3
      <3>13. \A i \in 1 .. embedded : r.candidates[i] \in cases'
        <4> SUFFICES ASSUME NEW i \in 1 .. embedded
                     PROVE  r.candidates[i] \in cases'
          OBVIOUS
        <4>1. i \in 1 .. r.embedded \/ i - r.embedded \in 1 .. size
          BY <3>5, <3>8
        <4>2. CASE i \in 1 .. r.embedded
          BY <1>0, <3>10, <4>2 DEF Progress, r
        <4>3. CASE i - r.embedded \in 1 .. size
          <5>1. r.embedded + (i - r.embedded) = i
            BY <3>8
          <5>2. batch[i - r.embedded] = r.candidates[i]
            BY <3>9, <4>3, <5>1
          <5> QED BY <3>3, <3>9, <4>3, <5>2
        <4> QED BY <4>1, <4>2, <4>3
      <3>14. next = <<>> => Len(next) = 0 /\ embedded = Len(r.candidates)
        BY <3>11
      <3>15. Progress(left, cases')
        <4>1. /\ r.limit \in Nat /\ r.existing \subseteq cases'
              /\ r.candidates \in Seq(Sources) /\ Distinct(r.candidates)
              /\ \A i \in 1 .. Len(r.candidates) : r.candidates[i] \notin r.existing
          BY <1>0, <3>10 DEF Progress, r
        <4>2. place \in {"reported", "embed"} /\ (place = "reported" => next = <<>>)
          BY <3>1
        <4>3. next = <<>> => total = Cardinality(r.existing) + Len(r.candidates)
          BY <3>1, <3>14
        <4> QED BY <3>7, <3>8, <3>11, <3>12, <3>13, <3>14, <4>1, <4>2, <4>3 DEF Progress
      <3> QED BY <3>3, <3>10, <3>15, CorpusBecomes
    <2> QED BY <2>1, <2>2
  <1>4. CASE KillBackfill(b)
    <2>1. PICK left : left = [r EXCEPT !.at = "failed"]
      OBVIOUS
    <2>2. backfill' = [backfill EXCEPT ![b] = left] /\ cases' = cases
      BY <1>4, <2>1 DEF KillBackfill
    <2>3. Progress(left, cases)
      BY <1>0, <2>1 DEF Progress
    <2> QED BY <1>0, <2>2, <2>3, CorpusBecomes
  <1>5. CASE RunAgain(b)
    <2>1. backfill' = [backfill EXCEPT ![b] = NotRunning] /\ cases' = cases
      BY <1>5 DEF RunAgain
    <2>2. Progress(NotRunning, cases)
      BY DEF NotRunning, Progress, Distinct
    <2> QED BY <1>0, <2>1, <2>2, CorpusBecomes
  <1> QED BY <1>1, <1>2, <1>3, <1>4, <1>5 DEF BackfillStep

(* Who has reported, has embedded all it found, and nothing that existed.    *)
LEMMA ReportIsTrue ==
    ASSUME NEW r, NEW corpus, IsFiniteSet(corpus), Progress(r, corpus), r.at = "reported"
    PROVE  LET known == r.existing \cup Range(r.candidates)
           IN  known \subseteq corpus /\ r.total = Cardinality(known)
  <1> DEFINE found == Range(r.candidates)
  <1>1. /\ r.candidates \in Seq(Sources) /\ Distinct(r.candidates)
        /\ DOMAIN r.candidates = 1 .. Len(r.candidates) /\ Len(r.candidates) \in Nat
    BY DEF Progress
  <1>2. IsFiniteSet(found) /\ Cardinality(found) = Len(r.candidates)
    BY <1>1, DistinctRange
  <1>3. IsFiniteSet(r.existing) /\ Cardinality(r.existing) \in Nat
    <2>1. r.existing \in SUBSET corpus
      BY DEF Progress
    <2> QED BY <2>1, FS_Subset, FS_CardinalityType
  <1>4. r.embedded = Len(r.candidates)
    BY <1>1 DEF Progress
  <1>5. r.existing \cap found = {} /\ found \subseteq corpus
    BY <1>1, <1>4 DEF Progress, Range
  <1>6. r.total = Cardinality(r.existing) + Cardinality(found)
    BY <1>2 DEF Progress
  <1>7. Cardinality(r.existing \cup found) = Cardinality(r.existing) + Cardinality(found)
    <2> HIDE DEF found
    <2>1. Cardinality(r.existing \cup found)
            = Cardinality(r.existing) + Cardinality(found)
                - Cardinality(r.existing \cap found)
      BY <1>2, <1>3, FS_Union
    <2>2. Cardinality(r.existing \cap found) = 0
      BY <1>5, FS_EmptySet
    <2> QED BY <1>1, <1>2, <1>3, <2>1, <2>2
  <1> QED BY <1>5, <1>6, <1>7 DEF Progress

(* Every step keeps the invariant; the steps of the script need rows to be a *)
(* sequence, and no other step touches the corpus.                           *)
LEMMA NextKeepsCorpus ==
    ASSUME CorpusInv, TellInv, [Next]_vars
    PROVE  CorpusInv'
  <1>1. ASSUME UNCHANGED corpusVars
        PROVE  CorpusInv'
    BY <1>1 DEF corpusVars, CorpusInv
  <1>2. ASSUME NEW t \in Task, TaskStep(t)
        PROVE  UNCHANGED corpusVars
    BY <1>2 DEF TaskStep, Finish, ResultInvalid
  <1>3. ASSUME NEW c \in Callers, CallStep(c)
        PROVE  UNCHANGED corpusVars
    BY <1>3 DEF CallStep, Replay, Join, Investigate, Post, Begin, Cancel
  <1>4. ASSUME NEW c \in Callers, Wake(c)
        PROVE  UNCHANGED corpusVars
    BY <1>4 DEF Wake
  <1>5. ASSUME NEW process \in {"mcp", "api"}, Restart(process)
        PROVE  UNCHANGED corpusVars
    BY <1>5 DEF Restart
  <1>6. ASSUME NEW b \in Backfills, CorpusStep(b)
        PROVE  CorpusInv'
    <2>1. \E S : rows \in Seq(S)
      BY DEF TellInv, RowsTell
    <2> QED BY <1>6, <2>1, BackfillKeeps DEF CorpusStep
  <1>7. CASE UNCHANGED vars
    BY <1>1, <1>7 DEF vars
  <1> QED BY <1>1, <1>2, <1>3, <1>4, <1>5, <1>6, <1>7 DEF Next

(* Every reachable state satisfies all three invariants.                     *)
LEMMA WhatIsInTheCorpus == Spec => [](Inv /\ TellInv /\ CorpusInv)
  <1>1. Init => CorpusInv
    BY CorpusInitHolds DEF Init
  <1>2. TellInv /\ CorpusInv /\ [Next]_vars => CorpusInv'
    BY NextKeepsCorpus
  <1> QED BY <1>1, <1>2, WhatIsTold, PTL DEF Spec

(* What a backfill reports is true when it says so and ever after: all that  *)
(* it found is in the corpus, and its total counts no case twice, although   *)
(* it read the table once and others insert meanwhile.                       *)
THEOREM BackfillReportHoldsAlways == Spec => []BackfillReportHolds
  <1>1. CorpusInv => BackfillReportHolds
    <2> SUFFICES ASSUME CorpusInv, NEW b \in Backfills, AtStep(b, "reported")
                 PROVE  LET known == backfill[b].existing \cup Range(backfill[b].candidates)
                        IN  known \subseteq cases /\ backfill[b].total = Cardinality(known)
      BY DEF BackfillReportHolds
    <2> QED BY ReportIsTrue DEF CorpusInv, AtStep
  <1> QED BY <1>1, WhatIsInTheCorpus, PTL

-------------------------------------------------------------------------------
(* What the bounds count down from.                                          *)
Budgeted == {"tools", "posts", "backfills", "restarts", "cancels"}

BoundInv == faults \in Nat /\ budget \in [Budgeted -> Nat]

(* A bound is spent only while there is some of it left.                     *)
LEMMA NextKeepsBounds ==
    ASSUME BoundInv, [Next]_vars
    PROVE  BoundInv'
  <1>1. ASSUME NEW what \in Budgeted, Spend(what)
        PROVE  budget' \in [Budgeted -> Nat]
    <2>1. budget[what] - 1 \in Nat
      BY <1>1 DEF BoundInv, Spend
    <2> QED BY <1>1, <2>1 DEF BoundInv, Spend
  <1>2. ASSUME NoFault \/ Fault
        PROVE  faults' \in Nat
    BY <1>2 DEF BoundInv, NoFault, Fault
  <1>3. ASSUME NEW t \in Task, TaskStep(t)
        PROVE  BoundInv'
    <2>1. CASE NodeStep(t) /\ UNCHANGED budget
      <3>1. NoFault \/ Fault
        BY <2>1 DEF NodeStep, StartNode, CollectNode, FetchRaises, ReasonNode, ReasonFails,
                    ToolsNode, SynthesisFails, SynthesizeNode, SynthesisRaises, AuditNode,
                    AuditFails, CloseConnection, CloseRaises
      <3> QED BY <1>2, <2>1, <3>1 DEF BoundInv
    <2>2. CASE Finish(t)
      BY <2>2 DEF Finish, BoundInv
    <2>3. CASE ResultInvalid(t)
      BY <1>2, <2>3 DEF ResultInvalid, BoundInv
    <2> QED BY <1>3, <2>1, <2>2, <2>3 DEF TaskStep
  <1>4. ASSUME NEW c \in Callers, CallStep(c)
        PROVE  BoundInv'
    <2>1. CASE Replay(c) \/ Join(c)
      BY <2>1 DEF Replay, Join, graphVars, BoundInv
    <2>2. CASE Investigate(c)
      BY <1>1, <2>2 DEF Investigate, Begin, BoundInv, Budgeted
    <2>3. CASE Post(c)
      BY <1>1, <2>3 DEF Post, Begin, BoundInv, Budgeted
    <2>4. CASE Cancel(c)
      BY <1>1, <2>4 DEF Cancel, BoundInv, Budgeted
    <2> QED BY <1>4, <2>1, <2>2, <2>3, <2>4 DEF CallStep
  <1>5. ASSUME NEW c \in Callers, Wake(c)
        PROVE  BoundInv'
    BY <1>5 DEF Wake, graphVars, BoundInv
  <1>6. ASSUME NEW process \in {"mcp", "api"}, Restart(process)
        PROVE  BoundInv'
    BY <1>1, <1>6 DEF Restart, BoundInv, Budgeted
  <1>7. ASSUME NEW b \in Backfills, CorpusStep(b)
        PROVE  BoundInv'
    BY <1>1, <1>7 DEF CorpusStep, graphVars, BoundInv, Budgeted
  <1>8. CASE UNCHANGED vars
    BY <1>8 DEF vars, graphVars, BoundInv
  <1> QED BY <1>3, <1>4, <1>5, <1>6, <1>7, <1>8 DEF Next

(* Counts stay within their bounds, every id names what it should, and what  *)
(* a backfill has yet to embed is among what it found.                       *)
THEOREM AgentTypeCorrect == Spec => []AgentTypeOK
  <1>1. Init => BoundInv
    <2> SUFFICES ASSUME Init
                 PROVE  BoundInv
      OBVIOUS
    <2>1. PICK world \in Worlds :
             /\ faults = world.faults
             /\ budget = [tools |-> world.tools, posts |-> world.posts,
                          backfills |-> world.backfills,
                          restarts |-> world.restarts, cancels |-> world.cancels]
      BY DEF Init
    <2> QED BY <2>1, CallsAssumption DEF BoundInv, Budgeted
  <1>2. BoundInv /\ [Next]_vars => BoundInv'
    BY NextKeepsBounds
  <1>3. Inv /\ TellInv /\ CorpusInv /\ BoundInv => AgentTypeOK
    <2> SUFFICES ASSUME Inv, TellInv, CorpusInv, BoundInv
                 PROVE  AgentTypeOK
      OBVIOUS
    <2>1. ASSUME NEW t \in Task
          PROVE  /\ graph[t].iteration \in 0 .. MaxIterations
                 /\ graph[t].steps \in 0 .. 2 * MaxIterations + 3
                 /\ graph[t].run \in DOMAIN rows \cup {None}
                 /\ graph[t].key \in RunKeys \cup {None}
      <3>1. /\ graph[t].steps \in Nat /\ graph[t].iteration \in 0 .. MaxIterations
            /\ graph[t].steps <= 3 + 2 * graph[t].iteration
        BY DEF Inv, GraphInv, Paced, PacedAt
      <3>2. graph[t].steps \in 0 .. 2 * MaxIterations + 3
        BY <3>1, InvestigationAssumption
      <3> QED BY <3>1, <3>2 DEF TellInv, TasksAgree
    <2>2. ASSUME NEW k \in RunKeys
          PROVE  /\ inflight[k] \in Task \cup {None}
                 /\ inflight[k] # None => graph[inflight[k]].key = k
      BY DEF Inv, CallsInv, InFlightTasks
    <2>3. ASSUME NEW b \in Backfills
          PROVE  Range(backfill[b].todo) \subseteq Range(backfill[b].candidates)
      <3>1. PICK r : r = backfill[b] /\ Progress(r, cases)
        BY DEF CorpusInv
      <3>2. /\ r.candidates \in Seq(Sources) /\ r.todo \in Seq(Sources)
            /\ r.embedded \in Nat /\ r.embedded + Len(r.todo) = Len(r.candidates)
            /\ \A i \in 1 .. Len(r.todo) : r.todo[i] = r.candidates[r.embedded + i]
        BY <3>1 DEF Progress
      <3>3. /\ DOMAIN r.todo = 1 .. Len(r.todo) /\ Len(r.todo) \in Nat
            /\ DOMAIN r.candidates = 1 .. Len(r.candidates)
        BY <3>2
      <3>4. \A i \in DOMAIN r.todo : r.embedded + i \in DOMAIN r.candidates
        BY <3>2, <3>3
      <3>5. \A i \in DOMAIN r.todo :
               r.todo[i] \in {r.candidates[j] : j \in DOMAIN r.candidates}
        BY <3>2, <3>3, <3>4
      <3>6. Range(r.todo) \subseteq Range(r.candidates)
        BY <3>5 DEF Range
      <3> QED BY <3>1, <3>6
    <2>4. \A what \in DOMAIN budget : budget[what] >= 0
      BY DEF BoundInv
    <2> QED BY <2>1, <2>2, <2>3, <2>4 DEF AgentTypeOK, BoundInv
  <1> QED BY <1>1, <1>2, <1>3, WhatIsInTheCorpus, PTL DEF Spec

-------------------------------------------------------------------------------
(* Ratios of such sizes differ by more than the rounding hides.              *)
LEMMA RoundingKeepsOrder ==
    ASSUME NEW s \in Nat, NEW e \in Nat, NEW t \in Nat, NEW f \in Nat,
           0 < e, e < 100, 0 < f, f < 100, s * f > t * e
    PROVE  (20000 * s + e) \div (2 * e) > (20000 * t + f) \div (2 * f)
  <1> DEFINE m == 20000 * s + e
             n == 20000 * t + f
             p == m \div (2 * e)
             q == n \div (2 * f)
  <1>1. /\ p \in Int /\ 2 * e * p <= m /\ m < 2 * e * (p + 1)
        /\ q \in Int /\ 2 * f * q <= n /\ n < 2 * f * (q + 1)
    OBVIOUS
  <1> SUFFICES ASSUME p <= q
               PROVE  FALSE
    BY <1>1
  <1>2. m \in Int /\ n \in Int /\ m * f - n * e = 20000 * (s * f - t * e)
    OBVIOUS
  <1>3. m * f - n * e >= 20000
    BY <1>2
  <1> HIDE DEF m, n, p, q
  <1>4. m < 2 * e * (q + 1)
    <2>1. p + 1 <= q + 1 /\ p + 1 \in Int /\ q + 1 \in Int
      BY <1>1
    <2>2. 2 * e * (p + 1) <= 2 * e * (q + 1)
      <3>1. \A a, b, c \in Int : 0 <= c /\ a <= b => c * a <= c * b
        OBVIOUS
      <3>2. 2 * e \in Int /\ 0 <= 2 * e
        OBVIOUS
      <3> QED BY <2>1, <3>1, <3>2
    <2>3. 2 * e * (p + 1) \in Int /\ 2 * e * (q + 1) \in Int
      BY <2>1
    <2> QED BY <1>1, <1>2, <2>2, <2>3
  <1>5. m * f < (2 * e * (q + 1)) * f
    BY <1>1, <1>2, <1>4
  <1>6. (2 * f * q) * e <= n * e
    BY <1>1, <1>2
  <1>7. m * f - n * e < 2 * e * f
    BY <1>1, <1>2, <1>5, <1>6
  <1>8. e * f < 10000
    OBVIOUS
  <1> QED BY <1>2, <1>3, <1>7, <1>8

(* The best of a set keep, among themselves, the places they have in it.     *)
LEMMA BestKeepPlaces ==
    ASSUME NEW S, IsFiniteSet(S), NEW R, IsOrder(R, S), NEW limit \in Nat
    PROVE  LET kept == {x \in S : PlaceIn(R, S, x) <= limit}
           IN  /\ IsFiniteSet(kept) /\ IsOrder(R, kept)
               /\ Cardinality(kept) = IF Cardinality(S) < limit THEN Cardinality(S)
                                      ELSE limit
               /\ \A x \in kept : PlaceIn(R, kept, x) = PlaceIn(R, S, x)
  <1> DEFINE kept == {x \in S : PlaceIn(R, S, x) <= limit}
             n == Cardinality(S)
             k == Cardinality(kept)
             m == IF n < limit THEN n ELSE limit
  <1>1. /\ n \in Nat /\ \A x \in S : PlaceIn(R, S, x) \in 1 .. n
        /\ \A x, y \in S : <<x, y>> \in R <=> PlaceIn(R, S, x) < PlaceIn(R, S, y)
        /\ \A i \in 1 .. n : \E x \in S : PlaceIn(R, S, x) = i
    BY PlacesFill
  <1>2. IsFiniteSet(kept)
    <2>1. kept \in SUBSET S
      OBVIOUS
    <2> HIDE DEF kept
    <2> QED BY <2>1, FS_Subset
  <1>3. IsOrder(R, kept)
    BY DEF IsOrder
  <1>4. /\ k \in Nat /\ \A x \in kept : PlaceIn(R, kept, x) \in 1 .. k
        /\ \A i \in 1 .. k : \E x \in kept : PlaceIn(R, kept, x) = i
    <2> HIDE DEF kept
    <2> QED BY <1>2, <1>3, PlacesFill
  <1>5. ASSUME NEW x \in kept
        PROVE  PlaceIn(R, kept, x) = PlaceIn(R, S, x)
    <2>1. \A y \in S : <<y, x>> \in R => y \in kept
      <3> SUFFICES ASSUME NEW y \in S, <<y, x>> \in R
                   PROVE  PlaceIn(R, S, y) <= limit
        OBVIOUS
      <3>1. PlaceIn(R, S, y) < PlaceIn(R, S, x) /\ PlaceIn(R, S, x) <= limit
        BY <1>1, <1>5
      <3>2. PlaceIn(R, S, y) \in Int /\ PlaceIn(R, S, x) \in Int
        BY <1>1, <1>5
      <3> QED BY <3>1, <3>2
    <2>2. {y \in kept : <<y, x>> \in R} = {y \in S : <<y, x>> \in R}
      BY <2>1
    <2> QED BY <2>2 DEF PlaceIn
  <1>6. \A x \in kept : x \in S /\ PlaceIn(R, S, x) <= limit
    OBVIOUS
  <1>7. \A x \in S : PlaceIn(R, S, x) <= limit => x \in kept
    OBVIOUS
  <1> HIDE DEF kept, n, k
  <1>8. m \in Nat /\ m <= n /\ m <= limit
    BY <1>1
  <1>9. ASSUME k < m
        PROVE  FALSE
    <2>1. m \in 1 .. n
      BY <1>4, <1>8, <1>9
    <2>2. PICK x \in S : PlaceIn(R, S, x) = m
      BY <1>1, <2>1
    <2>3. x \in kept /\ PlaceIn(R, kept, x) = m
      BY <1>5, <1>7, <1>8, <2>2
    <2> QED BY <1>4, <1>8, <1>9, <2>3
  <1>10. ASSUME m < k
         PROVE  FALSE
    <2>1. k \in 1 .. k
      BY <1>4, <1>8, <1>10
    <2>2. PICK x \in kept : PlaceIn(R, kept, x) = k
      BY <1>4, <2>1
    <2>3. x \in S /\ PlaceIn(R, S, x) = k /\ PlaceIn(R, S, x) <= limit
      BY <1>5, <1>6, <2>2
    <2>4. k <= limit /\ k <= n
      BY <1>1, <1>4, <2>3
    <2> QED BY <1>1, <1>4, <1>10, <2>4
  <1>11. k = m
    BY <1>4, <1>8, <1>9, <1>10
  <1> QED BY <1>2, <1>3, <1>5, <1>11 DEF kept, n, k

(* Sizes, and the similarity drawn from them.                                *)
LEMMA SimilarityOf ==
    ASSUME NEW query, NEW case, Comparable(query, case), Shared(query, case) # {}
    PROVE  LET s == Cardinality(Shared(query, case))
               e == Cardinality(Either(query, case))
           IN  /\ s \in Nat /\ e \in Nat /\ 0 < s /\ s <= e /\ e < 100
               /\ s = e => case.signals = QuerySignals(query)
               /\ case.signals = QuerySignals(query) => s = e
               /\ Similarity(query, case) = (20000 * s + e) \div (2 * e)
               /\ Similarity(query, case) \in Int
  <1> DEFINE A == QuerySignals(query)
             B == case.signals
             s == Cardinality(A \cap B)
             e == Cardinality(A \cup B)
  <1>1. /\ Shared(query, case) = A \cap B /\ Either(query, case) = A \cup B
        /\ IsFiniteSet(A) /\ IsFiniteSet(B) /\ A \cap B # {} /\ e < 100
    BY DEF Shared, Either, Comparable
  <1>2. A \cap B \in SUBSET (A \cup B) /\ (A \cap B = A \cup B <=> A = B)
    OBVIOUS
  <1>3. IsFiniteSet(A \cup B)
    BY <1>1, FS_Union
  <1>4. /\ IsFiniteSet(A \cap B) /\ s <= e /\ (s = e => A \cap B = A \cup B)
        /\ s \in Nat /\ e \in Nat /\ s # 0
    <2>1. /\ IsFiniteSet(A \cap B) /\ s <= e /\ (e = s => A \cup B = A \cap B)
      BY <1>2, <1>3, FS_Subset
    <2> QED BY <1>1, <1>3, <2>1, FS_CardinalityType, FS_EmptySet
  <1>5. Similarity(query, case) = (20000 * s + e) \div (2 * e)
    BY <1>1 DEF Similarity
  <1>6. (B = A => s = e) /\ (s = e => B = A)
    BY <1>2, <1>4
  <1> HIDE DEF s, e, A, B
  <1>7. 0 < s /\ 0 < e /\ (20000 * s + e) \div (2 * e) \in Int
    BY <1>4
  <1> QED BY <1>1, <1>4, <1>5, <1>6, <1>7 DEF s, e, A, B

(* Cases ranked by similarity, and by id where that is equal.                *)
Ranking(query, S) == {p \in S \X S : RanksBefore(query, p[1], p[2])}

(* It is a strict total order, in which the closer case comes first, and one *)
(* with exactly the query's signals after none that has other signals.       *)
LEMMA RankingIsOrder ==
    ASSUME NEW query, NEW stored, Rankable(query, stored)
    PROVE  LET M == Matching(query, stored)
               R == Ranking(query, M)
           IN  /\ IsFiniteSet(M) /\ IsOrder(R, M)
               /\ \A a, b \in M : <<a, b>> \in R <=> RanksBefore(query, a, b)
               /\ \A a, b \in M : Closer(query, a, b) => <<a, b>> \in R
               /\ \A a, b \in M : b.signals = QuerySignals(query) /\ <<a, b>> \in R =>
                     a.signals = QuerySignals(query)
  <1> DEFINE M == Matching(query, stored)
             R == Ranking(query, M)
             s(a) == Cardinality(Shared(query, a))
             e(a) == Cardinality(Either(query, a))
             sim(a) == Similarity(query, a)
  <1>1. M \in SUBSET stored /\ \A a \in M : Shared(query, a) # {}
    BY DEF Matching
  <1>2. IsFiniteSet(M)
    BY <1>1, FS_Subset DEF Rankable
  <1>3. \A a \in M : /\ s(a) \in Nat /\ e(a) \in Nat /\ 0 < s(a) /\ s(a) <= e(a)
                     /\ e(a) < 100 /\ sim(a) = (20000 * s(a) + e(a)) \div (2 * e(a))
                     /\ sim(a) \in Int
                     /\ (s(a) = e(a) => a.signals = QuerySignals(query))
                     /\ (a.signals = QuerySignals(query) => s(a) = e(a))
    BY <1>1, SimilarityOf DEF Rankable
  <1>4. /\ \A a \in M : a.id \in Int
        /\ \A a, b \in M : a.id = b.id => a = b
    BY <1>1 DEF Rankable
  <1>5. \A a, b \in M : <<a, b>> \in R <=> RanksBefore(query, a, b)
    BY DEF Ranking
  <1>6. \A a, b \in M : RanksBefore(query, a, b) <=>
                          sim(a) > sim(b) \/ (sim(a) = sim(b) /\ a.id < b.id)
    BY DEF RanksBefore
  <1> HIDE DEF R, M, s, e, sim
  <1>7. \A a \in M : sim(a) \in Int /\ a.id \in Int
    BY <1>3, <1>4
  <1>8. IsOrder(R, M)
    <2>1. \A x \in M : <<x, x>> \notin R
      BY <1>5, <1>6, <1>7
    <2>2. \A x, y, z \in M : <<x, y>> \in R /\ <<y, z>> \in R => <<x, z>> \in R
      BY <1>5, <1>6, <1>7
    <2>3. ASSUME NEW x \in M, NEW y \in M, x # y
          PROVE  <<x, y>> \in R \/ <<y, x>> \in R
      <3>1. x.id \in Int /\ y.id \in Int /\ sim(x) \in Int /\ sim(y) \in Int
        BY <1>7
      <3>2. x.id # y.id
        BY <1>4, <2>3
      <3>3. RanksBefore(query, x, y) \/ RanksBefore(query, y, x)
        BY <1>6, <3>1, <3>2
      <3> QED BY <1>5, <3>3
    <2> QED BY <2>1, <2>2, <2>3 DEF IsOrder
  <1>9. \A a, b \in M : Closer(query, a, b) => sim(a) > sim(b)
    <2> SUFFICES ASSUME NEW a \in M, NEW b \in M, Closer(query, a, b)
                 PROVE  sim(a) > sim(b)
      OBVIOUS
    <2>1. s(a) * e(b) > s(b) * e(a)
      BY DEF Closer, s, e
    <2>2. /\ s(a) \in Nat /\ e(a) \in Nat /\ 0 < e(a) /\ e(a) < 100
          /\ s(b) \in Nat /\ e(b) \in Nat /\ 0 < e(b) /\ e(b) < 100
      BY <1>3
    <2>3. (20000 * s(a) + e(a)) \div (2 * e(a)) > (20000 * s(b) + e(b)) \div (2 * e(b))
      BY <2>1, <2>2, RoundingKeepsOrder
    <2> QED BY <1>3, <2>3
  <1>10. ASSUME NEW a \in M, NEW b \in M, b.signals = QuerySignals(query), <<a, b>> \in R
         PROVE  a.signals = QuerySignals(query)
    <2>1. sim(a) >= sim(b) /\ s(b) = e(b)
      BY <1>3, <1>5, <1>6, <1>7, <1>10
    <2>2. PICK x, y, z : x = s(a) /\ y = e(a) /\ z = e(b)
      OBVIOUS
    <2>3. /\ x \in Nat /\ y \in Nat /\ z \in Nat /\ 0 < x /\ x <= y /\ y < 100
          /\ 0 < z /\ z < 100
      BY <1>3, <2>1, <2>2
    <2>4. (20000 * x + y) \div (2 * y) >= (20000 * z + z) \div (2 * z)
      BY <1>3, <2>1, <2>2
    <2>5. ASSUME x < y
          PROVE  FALSE
      <3>1. z * y > x * z
        BY <2>3, <2>5
      <3>2. (20000 * z + z) \div (2 * z) > (20000 * x + y) \div (2 * y)
        BY <2>3, <3>1, RoundingKeepsOrder
      <3>3. (20000 * z + z) \div (2 * z) \in Int /\ (20000 * x + y) \div (2 * y) \in Int
        BY <2>3
      <3> QED BY <2>4, <3>2, <3>3
    <2>6. s(a) = e(a)
      BY <2>2, <2>3, <2>5
    <2> QED BY <1>3, <2>6
  <1>11. \A a, b \in M : Closer(query, a, b) => <<a, b>> \in R
    BY <1>5, <1>6, <1>9
  <1> QED BY <1>2, <1>5, <1>8, <1>10, <1>11 DEF R, M

(* The search returns the best of the matching cases, in order.              *)
LEMMA SearchIsBest ==
    ASSUME NEW query, NEW stored, Rankable(query, stored), NEW limit \in Nat
    PROVE  LET matching == Matching(query, stored)
               found == Search(query, limit, stored)
           IN  /\ Cardinality(matching) \in Nat
               /\ Range(found) \subseteq matching
               /\ Len(found) = IF Cardinality(matching) < limit
                               THEN Cardinality(matching) ELSE limit
               /\ \A i \in DOMAIN found :
                     /\ \A case \in matching \ Range(found) :
                           ~Closer(query, case, found[i])
                     /\ \A j \in 1 .. i - 1 : ~Closer(query, found[i], found[j])
               /\ \A case \in matching :
                     case.signals = QuerySignals(query) /\ found # <<>> =>
                        found[1].signals = QuerySignals(query)
  <1> DEFINE M == Matching(query, stored)
             R == Ranking(query, M)
             kept == {x \in M : PlaceIn(R, M, x) <= limit}
             k == Cardinality(kept)
             found == Search(query, limit, stored)
             place(x) == PlaceIn(R, M, x)
  <1>1. /\ IsFiniteSet(M) /\ IsOrder(R, M)
        /\ \A a, b \in M : <<a, b>> \in R <=> RanksBefore(query, a, b)
        /\ \A a, b \in M : Closer(query, a, b) => <<a, b>> \in R
        /\ \A a, b \in M : b.signals = QuerySignals(query) /\ <<a, b>> \in R =>
              a.signals = QuerySignals(query)
    BY RankingIsOrder
  <1>2. ASSUME NEW S \in SUBSET M, NEW x \in S
        PROVE  Place(query, S, x) = PlaceIn(R, S, x)
    <2>1. {y \in S : RanksBefore(query, y, x)} = {y \in S : <<y, x>> \in R}
      BY <1>1
    <2> QED BY <2>1 DEF Place, PlaceIn
  <1>3. Kept(query, limit, M) = kept
    <2>1. \A x \in M : Place(query, M, x) = PlaceIn(R, M, x)
      BY <1>2
    <2> QED BY <2>1 DEF Kept
  <1>4. found = [i \in 1 .. k |-> CHOOSE case \in kept : Place(query, kept, case) = i]
    BY <1>3 DEF Search, Ordered
  <1> HIDE DEF M, R, found
  <1>5. /\ Cardinality(M) \in Nat
        /\ \A x \in M : place(x) \in 1 .. Cardinality(M)
        /\ \A x, y \in M : <<x, y>> \in R <=> place(x) < place(y)
    BY <1>1, PlacesFill
  <1>6. /\ IsFiniteSet(kept) /\ IsOrder(R, kept)
        /\ k = IF Cardinality(M) < limit THEN Cardinality(M) ELSE limit
        /\ \A x \in kept : PlaceIn(R, kept, x) = PlaceIn(R, M, x)
    BY <1>1, BestKeepPlaces
  <1>7. kept \in SUBSET M /\ \A x \in M : x \in kept <=> place(x) <= limit
    OBVIOUS
  <1> HIDE DEF kept, place
  <1>8. /\ k \in Nat /\ \A x \in kept : PlaceIn(R, kept, x) \in 1 .. k
        /\ \A i \in 1 .. k : \E x \in kept : PlaceIn(R, kept, x) = i
    BY <1>6, PlacesFill
  <1>9. \A x \in kept : Place(query, kept, x) = place(x) /\ PlaceIn(R, kept, x) = place(x)
    BY <1>2, <1>6, <1>7 DEF place
  <1>10. \A i \in 1 .. k : \E x \in kept : Place(query, kept, x) = i
    BY <1>8, <1>9
  <1>11. DOMAIN found = 1 .. k /\ Len(found) = k
    <2> HIDE DEF k
    <2> QED BY <1>4, <1>8
  <1> HIDE DEF k
  <1>12. \A i \in 1 .. k : found[i] \in kept /\ place(found[i]) = i
    BY <1>4, <1>9, <1>10
  <1>13. \A x \in kept : x \in Range(found)
    <2> SUFFICES ASSUME NEW x \in kept
                 PROVE  x \in Range(found)
      OBVIOUS
    <2>1. place(x) \in 1 .. k
      BY <1>8, <1>9
    <2>2. PICK i \in 1 .. k : i = place(x)
      BY <2>1
    <2>3. found[i] \in M /\ x \in M /\ place(found[i]) = place(x) /\ place(x) \in Int
      BY <1>7, <1>8, <1>12, <2>2
    <2>4. <<found[i], x>> \notin R /\ <<x, found[i]>> \notin R
      BY <1>5, <2>3
    <2>5. found[i] = x
      BY <1>1, <2>3, <2>4 DEF IsOrder
    <2> QED BY <1>11, <2>2, <2>5 DEF Range
  <1>14. Range(found) \subseteq M
    BY <1>7, <1>11, <1>12 DEF Range
  <1>15. ASSUME NEW i \in DOMAIN found, NEW case \in M \ Range(found)
         PROVE  ~Closer(query, case, found[i])
    <2>1. case \notin kept /\ found[i] \in M /\ place(found[i]) <= limit
      BY <1>7, <1>11, <1>12, <1>13
    <2>2. ~(place(case) <= limit) /\ place(case) \in Int /\ place(found[i]) \in Int
      BY <1>5, <1>7, <2>1
    <2>3. ~(place(case) < place(found[i]))
      BY <2>1, <2>2
    <2>4. <<case, found[i]>> \notin R
      BY <1>5, <2>1, <2>3
    <2> QED BY <1>1, <2>1, <2>4
  <1>16. ASSUME NEW i \in DOMAIN found, NEW j \in 1 .. i - 1
         PROVE  ~Closer(query, found[i], found[j])
    <2>1. i \in 1 .. k /\ j \in 1 .. k /\ ~(i < j)
      BY <1>8, <1>11, <1>16
    <2>2. /\ found[i] \in M /\ found[j] \in M
          /\ place(found[i]) = i /\ place(found[j]) = j
      BY <1>7, <1>12, <2>1
    <2>3. <<found[i], found[j]>> \notin R
      BY <1>5, <2>1, <2>2
    <2> QED BY <1>1, <2>2, <2>3
  <1>17. ASSUME NEW case \in M, case.signals = QuerySignals(query), found # <<>>
         PROVE  found[1].signals = QuerySignals(query)
    <2>1. k # 0
      <3> SUFFICES ASSUME k = 0
                   PROVE  FALSE
        OBVIOUS
      <3>1. found = [i \in 1 .. 0 |-> found[i]]
        BY <1>4, <1>11
      <3> QED BY <1>17, <3>1
    <2>2. 1 \in 1 .. k
      BY <1>8, <2>1
    <2>3. found[1] \in M /\ place(found[1]) = 1 /\ place(case) \in Int /\ 1 <= place(case)
      BY <1>5, <1>7, <1>12, <1>17, <2>2
    <2>4. <<case, found[1]>> \notin R
      <3>1. ~(place(case) < 1)
        BY <2>3
      <3> QED BY <1>5, <1>17, <2>3, <3>1
    <2>5. case = found[1] \/ <<found[1], case>> \in R
      BY <1>1, <1>17, <2>3, <2>4 DEF IsOrder
    <2> QED BY <1>1, <1>17, <2>3, <2>5
  <1> QED BY <1>5, <1>6, <1>11, <1>14, <1>15, <1>16, <1>17 DEF M, found

(* No case left out overlaps with the query more than one that was returned, *)
(* nor does a later one more than an earlier; a case with exactly the        *)
(* query's signals comes first; and the limit is used up.                    *)
THEOREM SearchReturnsBestAlways == Spec => SearchReturnsBest
  <1>1. ASSUME NEW query \in SampleQueries, NEW limit \in SampleLimits,
               NEW index \in SampleIndexes
        PROVE  FoundBest(query, limit, index)
    <2> DEFINE stored == AllCases(index)
               most == BoundedLimit(limit)
               matching == Matching(query, stored)
               found == Search(query, most, stored)
    <2>1. Rankable(query, stored) /\ limit \in Int
      BY SearchAssumption
    <2>2. most \in Nat
      BY <2>1 DEF BoundedLimit, MaxLimit
    <2>3. /\ Cardinality(matching) \in Nat
          /\ Range(found) \subseteq matching
          /\ Len(found) = IF Cardinality(matching) < most
                          THEN Cardinality(matching) ELSE most
          /\ \A i \in DOMAIN found :
                /\ \A case \in matching \ Range(found) : ~Closer(query, case, found[i])
                /\ \A j \in 1 .. i - 1 : ~Closer(query, found[i], found[j])
          /\ \A case \in matching :
                case.signals = QuerySignals(query) /\ found # <<>> =>
                   found[1].signals = QuerySignals(query)
      <3> HIDE DEF stored, most
      <3> QED BY <2>1, <2>2, SearchIsBest
    <2>4. FindSimilarCases(query, limit, index) = found
      BY DEF FindSimilarCases
    <2> HIDE DEF stored, most, matching, found
    <2>5. Len(found) = Min({Cardinality(matching), most})
      BY <2>2, <2>3 DEF Min
    <2>6. ReturnsBest(query, limit, found, matching)
      BY <2>3, <2>5 DEF ReturnsBest, most
    <2> QED BY <2>4, <2>6 DEF FoundBest, matching, stored
  <1>2. Misled = {}
    BY <1>1 DEF Misled
  <1> QED BY <1>2, PTL DEF SearchReturnsBest

(* Changing the case of a word twice is changing it as the last time, and    *)
(* what the code writes in lower case stays as it is.                        *)
LEMMA LetterCase ==
    /\ \A word : InLower(InLower(word)) = InLower(word)
    /\ \A score : InLower(RiskBucket(score)) = RiskBucket(score)
    /\ \A keyword \in IndexerKeywords : InLower(keyword) = keyword
  <1>1. DOMAIN Lower = {"BLOCK", "REVIEW", "HIGH", "MEDIUM", "Velocity"}
    BY DEF Lower
  <1>2. \A word \in DOMAIN Lower : InLower(word) \notin DOMAIN Lower
    BY <1>1 DEF InLower, Lower
  <1>3. \A word : InLower(InLower(word)) = InLower(word)
    BY <1>2 DEF InLower
  <1>4. \A score : RiskBucket(score) \in {"critical", "high", "medium", "low"}
    BY DEF RiskBucket
  <1>5. \A score : InLower(RiskBucket(score)) = RiskBucket(score)
    BY <1>1, <1>4 DEF InLower
  <1>6. \A keyword \in IndexerKeywords : InLower(keyword) = keyword
    BY <1>1 DEF InLower, IndexerKeywords
  <1> QED BY <1>3, <1>5, <1>6

(* The script reads a call as the store does.                                *)
LEMMA CallAsQuery ==
    ASSUME NEW call
    PROVE  CallSignals(call) = QuerySignals(call)
  <1>1. \A score : RiskBucketFromScore(score) = RiskBucket(score)
    BY DEF RiskBucketFromScore, RiskBucket
  <1> QED BY <1>1 DEF CallSignals, QuerySignals, DecisionSignals, RiskSignals,
                      FindingSignals

(* A finding as the store writes it.                                         *)
FindingSignal(f) == <<IF f[1] = "" THEN "rule" ELSE f[1], InLower(f[2])>>

(* And the indexer reads all of a run's calls as the script reads each.      *)
LEMMA AllCallsAsQueries ==
    ASSUME NEW calls
    PROVE  UNION {QuerySignals(call) : call \in calls} = SignalsFromToolCalls(calls)
  <1> DEFINE told == {<<"decision", InUpper(call.decision)>> :
                         call \in {c \in calls : c.decision # Absent}}
             risks == {<<"risk", RiskBucket(call.score)>> :
                         call \in {c \in calls : c.score # Absent}}
             finds == {IF f[1] = "" THEN <<"rule", InLower(f[2])>>
                       ELSE <<f[1], InLower(f[2])>> :
                         f \in (UNION {call.findings : call \in calls}) \ {<<"", "">>}}
  <1>1. SignalsFromToolCalls(calls) = told \cup risks \cup finds
    BY DEF SignalsFromToolCalls
  <1>2. told = UNION {DecisionSignals(call.decision) : call \in calls}
    BY DEF DecisionSignals
  <1>3. risks = UNION {RiskSignals(call.score) : call \in calls}
    BY DEF RiskSignals
  <1>4. finds = UNION {FindingSignals(call.findings) : call \in calls}
    <2>1. finds = {FindingSignal(f) :
                      f \in (UNION {call.findings : call \in calls}) \ {<<"", "">>}}
      BY DEF FindingSignal
    <2>2. \A call : FindingSignals(call.findings)
                      = {FindingSignal(f) : f \in call.findings \ {<<"", "">>}}
      BY DEF FindingSignals, FindingSignal
    <2> HIDE DEF finds
    <2>3. ASSUME NEW signal \in finds
          PROVE  signal \in UNION {FindingSignals(call.findings) : call \in calls}
      <3>1. PICK call \in calls : \E f \in call.findings \ {<<"", "">>} :
                                    signal = FindingSignal(f)
        BY <2>1, <2>3
      <3>2. signal \in {FindingSignal(f) : f \in call.findings \ {<<"", "">>}}
        BY <3>1
      <3>3. signal \in FindingSignals(call.findings)
        BY <2>2, <3>2, Zenon
      <3> QED BY <3>3
    <2>4. ASSUME NEW call \in calls, NEW signal \in FindingSignals(call.findings)
          PROVE  signal \in finds
      <3>0. FindingSignals(call.findings)
              = {FindingSignal(f) : f \in call.findings \ {<<"", "">>}}
        BY <2>2, Zenon
      <3>1. PICK f \in call.findings \ {<<"", "">>} : signal = FindingSignal(f)
        BY <2>4, <3>0
      <3>2. f \in (UNION {c.findings : c \in calls}) \ {<<"", "">>}
        BY <2>4, <3>1
      <3>3. FindingSignal(f) \in finds
        BY <2>1, <3>2, Zenon
      <3> QED BY <3>1, <3>3
    <2> QED BY <2>3, <2>4
  <1> HIDE DEF told, risks, finds
  <1> QED BY <1>1, <1>2, <1>3, <1>4 DEF QuerySignals

(* The blobs of the two, when no list is null.                               *)
LEMMA SameBlob ==
    ASSUME NEW payload, Readable(payload)
    PROVE  BackfillBlob(payload) = TextBlob(payload)
  <1> DEFINE dicts == {item \in payload.evidence : item.dict}
             lists == payload.key_findings \cup payload.recommended_actions
             proofs == {item.source : item \in dicts} \cup {item.fact : item \in dicts}
                         \cup {item.significance : item \in dicts}
             read == {item \in OrEmpty(payload.evidence) : item.dict}
             found == {item[k] : item \in read, k \in SearchedInEvidence}
             listed == UNION {OrEmpty(payload[k]) :
                                k \in {"key_findings", "recommended_actions"}}
  <1>1. /\ OrEmpty(payload.key_findings) = payload.key_findings
        /\ OrEmpty(payload.recommended_actions) = payload.recommended_actions
        /\ OrEmpty(payload.evidence) = payload.evidence
    BY DEF Readable, OrEmpty
  <1>2. listed = lists
    BY <1>1
  <1>3. read = dicts
    BY <1>1
  <1>4. found = proofs
    <2> HIDE DEF read, dicts
    <2> QED BY <1>3 DEF SearchedInEvidence
  <1>5. BackfillBlob(payload)
          = UNION {Mentioned(text) : text \in {payload.summary} \cup listed \cup found}
    BY DEF BackfillBlob
  <1>6. TextBlob(payload)
          = UNION {Mentioned(text) : text \in {payload.summary} \cup lists \cup proofs}
    BY DEF TextBlob
  <1> HIDE DEF found, proofs, lists, listed
  <1> QED BY <1>2, <1>4, <1>5, <1>6

(* What the index file says of a run, as the table does.                     *)
LEMMA StoredInLowerCase ==
    ASSUME NEW run, NEW signal \in IndexedSignals(run)
    PROVE  AsInTable(signal) = <<signal[1], InLower(signal[2])>>
  <1>1. CASE \E word : signal = <<"decision", word>>
    BY <1>1 DEF AsInTable
  <1>2. CASE \E name, word : signal = <<name, word>> /\ InLower(word) = word
    BY <1>2 DEF AsInTable
  <1>3. ASSUME signal \in SignalsFromToolCalls(run.calls)
        PROVE  \/ \E word : signal = <<"decision", word>>
               \/ \E name, word : signal = <<name, word>> /\ InLower(word) = word
    <2>1. \/ \E call : signal = <<"decision", InUpper(call.decision)>>
          \/ \E call : signal = <<"risk", RiskBucket(call.score)>>
          \/ \E f : signal = <<"rule", InLower(f[2])>> \/ signal = <<f[1], InLower(f[2])>>
      BY <1>3 DEF SignalsFromToolCalls
    <2> QED BY <2>1, LetterCase
  <1>4. signal \notin SignalsFromToolCalls(run.calls) =>
          \E name, word : signal = <<name, word>> /\ InLower(word) = word
    BY LetterCase DEF IndexedSignals
  <1> QED BY <1>1, <1>2, <1>3, <1>4

(* Both corpora hold the same signals of every run that the indexer can      *)
(* read, and those each of its own queries asked for are among them.         *)
THEOREM SameSignalsAlways == Spec => SameSignals
  <1>1. ASSUME NEW run \in SampleRuns
        PROVE  SignalsAgree(run)
    <2> SUFFICES ASSUME Readable(run.payload)
                 PROVE  /\ BackfilledSignals(run)
                             = {AsInTable(signal) : signal \in IndexedSignals(run)}
                        /\ \A call \in run.calls :
                              QuerySignals(call) \subseteq IndexedSignals(run)
      BY DEF SignalsAgree
    <2> DEFINE asked == UNION {CallSignals(call) : call \in run.calls}
               level == <<"risk", InLower(BackfillRiskLevel(run))>>
               words == {<<"rule", keyword>> :
                            keyword \in BackfillKeywords \cap BackfillBlob(run.payload)}
               keywords == {<<"rule", keyword>> :
                               keyword \in IndexerKeywords \cap TextBlob(run.payload)}
    <2>1. asked = SignalsFromToolCalls(run.calls)
      <3>1. {CallSignals(call) : call \in run.calls}
              = {QuerySignals(call) : call \in run.calls}
        BY CallAsQuery
      <3> QED BY <3>1, AllCallsAsQueries
    <2>2. BackfillRiskLevel(run) = IndexerRiskLevel(run)
      <3>1. InUpper("MEDIUM") = "MEDIUM"
        BY DEF InUpper, Upper
      <3> QED BY <3>1 DEF BackfillRiskLevel, IndexerRiskLevel
    <2>3. words = keywords
      <3>1. BackfillBlob(run.payload) = TextBlob(run.payload)
        BY SameBlob
      <3>2. BackfillKeywords = IndexerKeywords
        BY DEF BackfillKeywords, IndexerKeywords
      <3> QED BY <3>1, <3>2
    <2>4. BackfilledSignals(run) = Normalized(IndexedSignals(run))
      <3>1. BackfilledSignals(run) = Normalized(asked \cup {level} \cup words)
        BY DEF BackfilledSignals
      <3>2. IndexedSignals(run)
              = SignalsFromToolCalls(run.calls)
                  \cup {<<"risk", InLower(IndexerRiskLevel(run))>>} \cup keywords
        BY DEF IndexedSignals
      <3> HIDE DEF asked, words, keywords
      <3> QED BY <2>1, <2>2, <2>3, <3>1, <3>2
    <2> HIDE DEF asked, level, words, keywords
    <2>5. BackfilledSignals(run) = {AsInTable(signal) : signal \in IndexedSignals(run)}
      BY <2>4, StoredInLowerCase DEF Normalized
    <2>6. ASSUME NEW call \in run.calls
          PROVE  QuerySignals(call) \subseteq IndexedSignals(run)
      <3>1. QuerySignals(call) \subseteq SignalsFromToolCalls(run.calls)
        BY AllCallsAsQueries
      <3> QED BY <3>1 DEF IndexedSignals
    <2> QED BY <2>5, <2>6
  <1>2. Misread = {}
    BY <1>1 DEF Misread
  <1> QED BY <1>2, PTL DEF SameSignals

-------------------------------------------------------------------------------
(* Elements that are all equal are at most one.                              *)
LEMMA AtMostOne ==
    ASSUME NEW S, \A x, y \in S : x = y
    PROVE  /\ S = {} => Cardinality(S) = 0
           /\ S # {} => Cardinality(S) = 1
  <1>1. S = {} => Cardinality(S) = 0
    BY FS_EmptySet
  <1>2. ASSUME NEW x \in S
        PROVE  Cardinality(S) = 1
    <2>1. S = {x}
      BY <1>2
    <2> QED BY <2>1, FS_Singleton
  <1> QED BY <1>1, <1>2

(* The tasks that work for a key.                                            *)
Serving(k) == {t \in Task : Serves(t, k)}

(* A key has the one task in flight for it at work, or none.                 *)
LEMMA WorkingCount ==
    ASSUME OnlyInFlight, NEW k
    PROVE  /\ Serving(k) = {} => Working(k) = 0
           /\ Serving(k) # {} => Working(k) = 1
  <1>1. \A t, u \in Serving(k) : t = u
    BY DEF Serving, Serves, OnlyInFlight
  <1>2. Working(k) = Cardinality(Serving(k))
    BY DEF Working, Serving, Serves
  <1> QED BY <1>1, <1>2, AtMostOne

(* The count changes only with the tasks that work.                          *)
LEMMA SameServing ==
    ASSUME NEW k, Serving(k)' = Serving(k)
    PROVE  Working(k)' = Working(k)
  BY DEF Working, Serving, Serves

(* A task that stops working for its key ends it; any other quiet step of a  *)
(* task is invisible.                                                        *)
LEMMA TaskStepMaps ==
    ASSUME Inv, Inv', NEW t \in Task,
           \A u \in Task \ {t} : graph'[u] = graph[u],
           graph'[t].mode = graph[t].mode, graph'[t].key = graph[t].key,
           Live(t)' => Live(t),
           \/ completed' = completed
           \/ /\ graph[t].mode = "mcp" /\ Live(t) /\ ~Live(t)'
              /\ \A k \in RunKeys : k # graph[t].key => completed'[k] = completed[k]
    PROVE  \/ \E k \in RunKeys : Abstract!End(k)
           \/ UNCHANGED <<[k \in RunKeys |-> Working(k)], completed>>
  <1>1. \A u \in Task \ {t} : \A k \in RunKeys : Serves(u, k)' <=> Serves(u, k)
    BY DEF Serves, Live
  <1>2. CASE graph[t].mode = "mcp" /\ Live(t) /\ ~Live(t)'
    <2>1. PICK key \in RunKeys : key = graph[t].key /\ inflight[key] = t
      BY <1>2 DEF Inv, CallsInv, OnlyInFlight
    <2>2. Serving(key) = {t}
      BY <1>2, <2>1 DEF Inv, CallsInv, OnlyInFlight, Serving, Serves
    <2>3. Serving(key)' = {}
      BY <1>1, <1>2, <2>1, <2>2 DEF Serving, Serves
    <2>4. Working(key) = 1
      BY <2>2, WorkingCount DEF Inv, CallsInv
    <2>5. Working(key)' = 0
      <3>1. \A u, v \in Serving(key)' : u = v
        BY <2>3
      <3>2. Working(key)' = Cardinality(Serving(key)')
        BY DEF Working, Serving, Serves
      <3> QED BY <2>3, <3>1, <3>2, AtMostOne
    <2>6. ASSUME NEW k \in RunKeys, k # key
          PROVE  Working(k)' = Working(k)
      <3>1. ~Serves(t, k) /\ ~Serves(t, k)'
        BY <1>2, <2>1, <2>6 DEF Serves
      <3>2. Serving(k)' = Serving(k)
        BY <1>1, <3>1 DEF Serving
      <3> QED BY <3>2, SameServing
    <2>7. [k \in RunKeys |-> Working(k)]'
             = [[k \in RunKeys |-> Working(k)] EXCEPT ![key] = 0]
      BY <2>1, <2>5, <2>6
    <2>8. completed' = [completed EXCEPT ![key] = completed'[key]]
      BY <1>2, <2>1 DEF Inv, CallsInv, CallsShape
    <2>9. Abstract!End(key)
      BY <2>1, <2>4, <2>7, <2>8 DEF Abstract!End
    <2> QED BY <2>1, <2>9
  <1>3. CASE ~(graph[t].mode = "mcp" /\ Live(t) /\ ~Live(t)')
    <2>1. ASSUME NEW k \in RunKeys
          PROVE  Working(k)' = Working(k)
      <3>1. Serves(t, k)' <=> Serves(t, k)
        BY <1>3 DEF Serves
      <3>2. Serving(k)' = Serving(k)
        BY <1>1, <3>1 DEF Serving
      <3> QED BY <3>2, SameServing
    <2> QED BY <1>3, <2>1
  <1> QED BY <1>2, <1>3

(* Every step of the tool is one of the abstract specification.              *)
LEMMA StepMaps ==
    ASSUME Inv, Inv', [Next]_vars
    PROVE  Abstract!Next \/ UNCHANGED <<[k \in RunKeys |-> Working(k)], completed>>
  <1>1. ASSUME NEW t \in Task, TaskStep(t)
        PROVE  \/ \E k \in RunKeys : Abstract!End(k)
               \/ UNCHANGED <<[k \in RunKeys |-> Working(k)], completed>>
    <2>1. CASE NodeStep(t) /\ UNCHANGED callVars
      <3>1. TaskMoves(t) /\ completed' = completed
        BY <2>1, NodeStepMoves DEF Inv, callVars
      <3> QED BY <3>1, TaskStepMaps DEF TaskMoves
    <2>2. CASE Finish(t) \/ ResultInvalid(t)
      <3>1. /\ TaskMoves(t) /\ ~Live(t)'
            /\ completed' = completed \/ graph[t].mode = "mcp"
            /\ \A k \in RunKeys : k # graph[t].key => completed'[k] = completed[k]
        BY <2>2, FinishMoves
      <3> QED BY <3>1, TaskStepMaps DEF TaskMoves
    <2> QED BY <1>1, <2>1, <2>2 DEF TaskStep
  <1>2. ASSUME UNCHANGED <<graph, completed>>
        PROVE  UNCHANGED <<[k \in RunKeys |-> Working(k)], completed>>
    <2>1. \A k \in RunKeys : Working(k)' = Working(k)
      BY <1>2 DEF Working, Live
    <2> QED BY <1>2, <2>1
  <1>3. ASSUME NEW c \in Callers, Investigate(c)
        PROVE  \E k \in RunKeys : Abstract!Begin(k)
    <2>1. PICK req \in Requests, t \in Task :
             /\ completed[RunKey(req)] = None /\ InFlight(RunKey(req)) = None
             /\ Begin(c, t, "mcp", req.txn, RunKey(req))
      BY <1>3 DEF Investigate
    <2> DEFINE key == RunKey(req)
    <2>2. /\ key \in RunKeys /\ completed[key] = None /\ inflight[key] = None
          /\ completed' = completed
      BY <1>3, <2>1 DEF RunKeys, InFlight, Investigate
    <2>3. /\ \A u \in Task \ {t} : graph'[u] = graph[u]
          /\ graph[t].at = "unused" /\ graph'[t].at = "start"
          /\ graph'[t].mode = "mcp" /\ graph'[t].key = key
      BY <2>1, BeginMoves
    <2> HIDE DEF key
    <2>4. ~Live(t) /\ Live(t)'
      BY <2>3 DEF Live, Nodes
    <2>5. \A u \in Task \ {t} : \A k \in RunKeys : Serves(u, k)' <=> Serves(u, k)
      BY <2>3 DEF Serves, Live
    <2>6. Serving(key) = {}
      BY <2>2, InvestigationAssumption
      DEF Inv, CallsInv, OnlyInFlight, Serving, Serves
    <2>7. Serving(key)' = {t}
      BY <2>2, <2>3, <2>4, <2>5, <2>6 DEF Serving, Serves
    <2>8. Working(key) = 0
      BY <2>6, WorkingCount DEF Inv, CallsInv
    <2>9. Working(key)' = 1
      <3>1. Working(key)' = Cardinality(Serving(key)')
        BY DEF Working, Serving, Serves
      <3> QED BY <2>7, <3>1, AtMostOne
    <2>10. ASSUME NEW k \in RunKeys, k # key
           PROVE  Working(k)' = Working(k)
      <3>1. ~Serves(t, k) /\ ~Serves(t, k)'
        BY <2>3, <2>4, <2>10 DEF Serves
      <3>2. Serving(k)' = Serving(k)
        BY <2>5, <3>1 DEF Serving
      <3> QED BY <3>2, SameServing
    <2>11. [k \in RunKeys |-> Working(k)]'
              = [[k \in RunKeys |-> Working(k)] EXCEPT ![key] = 1]
      BY <2>2, <2>9, <2>10
    <2> QED BY <2>2, <2>8, <2>11 DEF Abstract!Begin
  <1>4. ASSUME NEW c \in Callers, Post(c)
        PROVE  UNCHANGED <<[k \in RunKeys |-> Working(k)], completed>>
    <2>1. PICK txn \in Transactions, t \in Task, mode \in {"http", "stream"} :
             Begin(c, t, mode, txn, None)
      BY <1>4 DEF Post
    <2>2. /\ \A u \in Task \ {t} : graph'[u] = graph[u]
          /\ graph[t].at = "unused" /\ graph'[t].mode # "mcp"
          /\ completed' = completed
      BY <1>4, <2>1, BeginMoves DEF Post
    <2>3. \A u \in Task : \A k \in RunKeys : Serves(u, k)' <=> Serves(u, k)
      BY <2>2 DEF Serves, Live, Nodes
    <2>4. \A k \in RunKeys : Serving(k)' = Serving(k)
      BY <2>3 DEF Serving
    <2> QED BY <2>2, <2>4, SameServing
  <1>5. ASSUME NEW c \in Callers, Cancel(c)
        PROVE  \/ \E k \in RunKeys : Abstract!End(k)
               \/ UNCHANGED <<[k \in RunKeys |-> Working(k)], completed>>
    <2>1. /\ TasksKeep /\ completed' = completed
          /\ \A u \in Task \ {caller[c].task} : graph'[u] = graph[u]
      BY <1>5, CancelMoves
    <2>2. caller[c].task \in Task
      BY <1>5 DEF Cancel, Inv, CallsInv, WaitersAwait, Waits
    <2> QED BY <2>1, <2>2, TaskStepMaps DEF TasksKeep
  <1>6. ASSUME Restart("mcp")
        PROVE  Abstract!Forget
    <2>1. completed' = [k \in RunKeys |-> None]
      BY <1>6 DEF Restart
    <2>2. \A t \in Task : \A k : ~Serves(t, k)'
      BY <1>6, RestartMoves DEF Gone, ServedBy, Serves
    <2>3. ASSUME NEW k \in RunKeys
          PROVE  Working(k)' = 0
      <3>1. Serving(k)' = {}
        BY <2>2 DEF Serving
      <3>2. Working(k)' = Cardinality(Serving(k)')
        BY DEF Working, Serving, Serves
      <3> QED BY <3>1, <3>2, AtMostOne
    <2> QED BY <2>1, <2>3 DEF Abstract!Forget
  <1>7. ASSUME Restart("api")
        PROVE  UNCHANGED <<[k \in RunKeys |-> Working(k)], completed>>
    <2>1. completed' = completed
      BY <1>7 DEF Restart
    <2>2. \A t \in Task : \A k : Serves(t, k)' <=> Serves(t, k)
      BY <1>7, RestartMoves DEF Gone, ServedBy, Serves
    <2>3. \A k \in RunKeys : Serving(k)' = Serving(k)
      BY <2>2 DEF Serving
    <2> QED BY <2>1, <2>3, SameServing
  <1>8. ASSUME NEW c \in Callers, CallStep(c)
        PROVE  \/ Abstract!Next
               \/ UNCHANGED <<[k \in RunKeys |-> Working(k)], completed>>
    <2>1. CASE Replay(c) \/ Join(c)
      BY <1>2, <2>1 DEF Replay, Join, graphVars
    <2> QED BY <1>3, <1>4, <1>5, <1>8, <2>1 DEF CallStep, Abstract!Next
  <1>9. ASSUME NEW c \in Callers, Wake(c)
        PROVE  UNCHANGED <<[k \in RunKeys |-> Working(k)], completed>>
    BY <1>2, <1>9 DEF Wake, graphVars
  <1>10. ASSUME NEW b \in Backfills, CorpusStep(b)
         PROVE  UNCHANGED <<[k \in RunKeys |-> Working(k)], completed>>
    BY <1>2, <1>10 DEF CorpusStep, graphVars, callVars
  <1>11. CASE UNCHANGED vars
    BY <1>2, <1>11 DEF vars, graphVars, callVars
  <1> QED BY <1>1, <1>6, <1>7, <1>8, <1>9, <1>10, <1>11 DEF Next, Abstract!Next

(* The MCP tool implements Deduplication: at most one investigation works    *)
(* for a run key, none once it is answered, and the answer stays until the   *)
(* process restarts.                                                         *)
THEOREM ToolDeduplicates == Spec => Deduplicates
  <1>1. Init => Abstract!Init
    <2> SUFFICES ASSUME Init
                 PROVE  Abstract!Init
      OBVIOUS
    <2>1. Inv /\ completed = [k \in RunKeys |-> None]
      BY InitEstablishes DEF Init
    <2>2. \A k \in RunKeys : Serving(k) = {}
      BY DEF Init, GraphInit, Serving, Serves, Live, Nodes, Unused
    <2>3. \A k \in RunKeys : Working(k) = 0
      BY <2>1, <2>2, WorkingCount DEF Inv, CallsInv
    <2> QED BY <2>1, <2>3 DEF Abstract!Init
  <1>2. Inv /\ Inv' /\ [Next]_vars
          => [Abstract!Next]_<<[k \in RunKeys |-> Working(k)], completed>>
    BY StepMaps
  <1> QED BY <1>1, <1>2, InvestigationInvariant, PTL DEF Spec, Deduplicates, Abstract!Spec
===============================================================================
