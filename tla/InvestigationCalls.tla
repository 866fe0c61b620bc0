-------------------------- MODULE InvestigationCalls --------------------------
(***************************************************************************)
(* Who asks for investigations: the tool of agent/mcp_server.py, which     *)
(* shares one task among identical calls and keeps the answers, and the    *)
(* two endpoints of agent/api.py (agent/streaming.py behind the second),   *)
(* which start a task for each request.  The MCP server and the API are    *)
(* processes of their own; either may restart.  An await is where other    *)
(* calls interleave: every action below runs from one await to the next.   *)
(***************************************************************************)
EXTENDS Investigation

CONSTANTS
    Callers,
    Requests,  \* what the tool is asked: [txn, trigger, key]
    NoKey,     \* a call without idempotency_key
    Worlds     \* bounds of one behaviour: [provider, faults, tools, posts,
               \*   backfills, restarts, cancels]

(* Every bound is a number.                                                  *)
ASSUME CallsAssumption ==
    \A world \in Worlds :
        /\ world.faults \in Nat /\ world.tools \in Nat /\ world.posts \in Nat
        /\ world.backfills \in Nat /\ world.restarts \in Nat /\ world.cancels \in Nat

VARIABLES
    caller,    \* what each caller awaits, and its last answer
    completed, \* _COMPLETED of the MCP server
    trails,    \* _AUDIT_TRAILS
    inflight,  \* _IN_FLIGHT: the task of each run key
    budget     \* bounds: what may still be started, restarted, cancelled

callVars == <<caller, completed, trails, inflight>>
vars == <<rows, corpusVars, graphVars, callVars, budget>>

(* _compute_run_key: the key, or else the trigger. *)
RunKey(req) == <<req.txn, IF req.key = NoKey THEN req.trigger ELSE req.key>>
RunKeys == {RunKey(req) : req \in Requests}

NoAnswer == [status |-> "none"]
Idle == [at |-> "idle", txn |-> None, key |-> None, task |-> None,
         owner |-> FALSE, cancelled |-> FALSE, answer |-> NoAnswer]

Init ==
    /\ CorpusInit /\ GraphInit
    /\ caller = [c \in Callers |-> Idle]
    /\ completed = [k \in RunKeys |-> None]
    /\ trails = [k \in RunKeys |-> None]
    /\ inflight = [k \in RunKeys |-> None]
    /\ \E world \in Worlds :
          /\ provider = world.provider
          /\ faults = world.faults
          /\ budget = [tools |-> world.tools, posts |-> world.posts,
                       backfills |-> world.backfills,
                       restarts |-> world.restarts, cancels |-> world.cancels]

Spend(what) ==
    /\ budget[what] > 0
    /\ budget' = [budget EXCEPT ![what] = @ - 1]

-------------------------------------------------------------------------------
(* create_task, and the first await on it.                                   *)
FreshTask(t) == t = Min({u \in Task : graph[u].at = "unused"})

Begin(c, t, mode, txn, key) ==
    /\ graph[t].at = "unused" /\ FreshTask(t)
    /\ graph' = [graph EXCEPT ![t] = [Unused EXCEPT !.at = "start", !.mode = mode,
                                                    !.txn = txn, !.key = key]]
    /\ caller' = [caller EXCEPT ![c] = [Idle EXCEPT !.at = "waiting", !.txn = txn,
                                          !.key = key, !.task = t, !.owner = TRUE]]
    /\ UNCHANGED <<rows, corpusVars, provider, faults>>

(* Mutant: calls that are still running are not looked up. *)
InFlightNever(key) == None
InFlight(key) == inflight[key]

(* investigate_transaction, the three ways through it. *)
Replay(c) ==
    /\ caller[c].at = "idle"
    /\ \E req \in Requests :
          /\ completed[RunKey(req)] # None
          /\ caller' = [caller EXCEPT ![c] = [Idle EXCEPT !.txn = req.txn,
                          !.key = RunKey(req), !.answer = completed[RunKey(req)]]]
    /\ UNCHANGED <<rows, corpusVars, graphVars, completed, trails, inflight, budget>>

Join(c) ==
    /\ caller[c].at = "idle"
    /\ \E req \in Requests :
          /\ completed[RunKey(req)] = None /\ InFlight(RunKey(req)) # None
          /\ caller' = [caller EXCEPT ![c] = [Idle EXCEPT !.at = "waiting",
                          !.txn = req.txn, !.key = RunKey(req),
                          !.task = InFlight(RunKey(req))]]
    /\ UNCHANGED <<rows, corpusVars, graphVars, completed, trails, inflight, budget>>

Investigate(c) ==
    /\ caller[c].at = "idle"
    /\ \E req \in Requests, t \in Task :
          /\ completed[RunKey(req)] = None /\ InFlight(RunKey(req)) = None
          /\ Begin(c, t, "mcp", req.txn, RunKey(req))
          /\ inflight' = [inflight EXCEPT ![RunKey(req)] = t]
    /\ Spend("tools")
    /\ UNCHANGED <<completed, trails>>

(* POST /investigate and POST /investigate/stream. *)
Post(c) ==
    /\ caller[c].at = "idle"
    /\ \E txn \in Transactions, t \in Task, mode \in {"http", "stream"} :
          Begin(c, t, mode, txn, None)
    /\ Spend("posts")
    /\ UNCHANGED <<completed, trails, inflight>>

-------------------------------------------------------------------------------
(* The graph has returned its state, and the code after it runs to its end   *)
(* without an await.  An empty verdict is an error, except for the stream,   *)
(* whose last event then carries none.                                       *)
Answered(t) ==
    LET label == graph[t].payload.label
    IN  CASE graph[t].mode = "mcp" ->
               [status |-> "ok", label |-> label, run |-> graph[t].run]
          [] graph[t].mode = "http" ->
               [status |-> "ok", label |-> label, run |-> graph[t].run,
                trail |-> graph[t].trail, degraded |-> graph[t].degraded,
                reason |-> graph[t].reason]
          [] graph[t].mode = "stream" -> [status |-> "ok", label |-> label]

Finish(t) ==
    /\ In(t, "finish")
    /\ LET fails == graph[t].payload.empty /\ graph[t].mode # "stream"
           keeps == graph[t].mode = "mcp" /\ ~fails
           key == graph[t].key
       IN  /\ graph' = [graph EXCEPT ![t].at = IF fails THEN "failed" ELSE "done"]
           /\ completed' = IF keeps THEN [completed EXCEPT ![key] = Answered(t)]
                           ELSE completed
           /\ trails' = IF keeps THEN [trails EXCEPT ![key] = graph[t].trail] ELSE trails
    /\ UNCHANGED <<rows, corpusVars, provider, faults, caller, inflight, budget>>

(* A field of the answer is not of its type (a summary that is no text, a    *)
(* reason that is none), and building it raises.  The tool has kept the      *)
(* trail by then, but no answer.                                             *)
ResultInvalid(t) ==
    /\ In(t, "finish") /\ ~graph[t].payload.empty
    /\ graph[t].mode \in {"mcp", "http"}
    /\ Fault
    /\ Fail(t)
    /\ trails' = IF graph[t].mode = "mcp"
                 THEN [trails EXCEPT ![graph[t].key] = graph[t].trail] ELSE trails
    /\ UNCHANGED <<rows, corpusVars, provider, caller, completed, inflight, budget>>

(* Mutant: the entry is removed after the await, not in a finally clause. *)
ReleasesOnSuccess(c) ==
    /\ caller[c].owner /\ graph[caller[c].task].mode = "mcp"
    /\ graph[caller[c].task].at # "cancelled" /\ ~caller[c].cancelled
(* finally: whatever happened, the owner's entry goes.                       *)
Releases(c) == caller[c].owner /\ graph[caller[c].task].mode = "mcp"

(* Mutant: only an answer wakes those who wait. *)
CanWakeOnAnswer(c) == caller[c].at = "waiting" /\ graph[caller[c].task].at = "done"
CanWake(c) == caller[c].at = "waiting" /\ Ended(caller[c].task)

(* An awaited task has ended, and its waiter runs on.                        *)
Wake(c) ==
    /\ CanWake(c)
    /\ LET t == caller[c].task
           status == IF caller[c].cancelled THEN "cancelled"
                     ELSE IF graph[t].at = "cancelled" THEN "cancelled" ELSE "error"
       IN  /\ caller' = [caller EXCEPT ![c] =
                [Idle EXCEPT !.txn = caller[c].txn, !.key = caller[c].key,
                             !.answer = IF graph[t].at = "done" /\ ~caller[c].cancelled
                                        THEN Answered(t) ELSE [status |-> status]]]
           /\ inflight' = IF Releases(c) THEN [inflight EXCEPT ![caller[c].key] = None]
                          ELSE inflight
    /\ UNCHANGED <<rows, corpusVars, graphVars, completed, trails, budget>>

(* An MCP host cancels its call, or the reader of a stream goes away: the    *)
(* cancellation is passed on to the task awaited, whoever started it.  A     *)
(* client of POST /investigate cannot cancel.                                *)
Cancel(c) ==
    /\ caller[c].at = "waiting" /\ ~caller[c].cancelled
    /\ graph[caller[c].task].mode # "http"
    /\ Spend("cancels")
    /\ caller' = [caller EXCEPT ![c].cancelled = TRUE]
    /\ graph' = IF Live(caller[c].task)
                THEN [graph EXCEPT ![caller[c].task].at = "cancelled"] ELSE graph
    /\ UNCHANGED <<rows, corpusVars, provider, faults, completed, trails, inflight>>

(* A process restarts: its tasks, its memory and its connections are gone.   *)
ServedBy(process, mode) == (mode = "mcp") <=> (process = "mcp")

Restart(process) ==
    /\ Spend("restarts")
    /\ graph' = [t \in Task |->
         IF Live(t) /\ ServedBy(process, graph[t].mode)
         THEN [graph[t] EXCEPT !.at = "cancelled"] ELSE graph[t]]
    /\ caller' = [c \in Callers |->
         IF caller[c].at = "waiting" /\ ServedBy(process, graph[caller[c].task].mode)
         THEN [Idle EXCEPT !.txn = caller[c].txn, !.key = caller[c].key,
                           !.answer = [status |-> "lost"]]
         ELSE caller[c]]
    /\ IF process = "mcp"
       THEN /\ completed' = [k \in RunKeys |-> None]
            /\ trails' = [k \in RunKeys |-> None]
            /\ inflight' = [k \in RunKeys |-> None]
       ELSE UNCHANGED <<completed, trails, inflight>>
    /\ UNCHANGED <<rows, corpusVars, provider, faults>>

-------------------------------------------------------------------------------
TaskStep(t) ==
    \/ NodeStep(t) /\ UNCHANGED <<corpusVars, callVars, budget>>
    \/ Finish(t) \/ ResultInvalid(t)

CorpusStep(b) ==
    /\ IF AtStep(b, "idle") THEN Spend("backfills") ELSE UNCHANGED budget
    /\ BackfillStep(b)
    /\ UNCHANGED <<graphVars, callVars>>

CallStep(c) == Replay(c) \/ Join(c) \/ Investigate(c) \/ Post(c) \/ Cancel(c)

Next ==
    \/ \E t \in Task : TaskStep(t)
    \/ \E c \in Callers : CallStep(c) \/ Wake(c)
    \/ \E process \in {"mcp", "api"} : Restart(process)
    \/ \E b \in Backfills : CorpusStep(b)

(* The event loop runs what is ready; the calls to NestJS and to the model   *)
(* have timeouts.  Those to PostgreSQL (asyncpg's execute and close) have    *)
(* none: it is assumed to answer, or its connection to break.  So a task's   *)
(* next step comes, and a waiter's.                                          *)
Spec ==
    /\ Init /\ [][Next]_vars
    /\ \A t \in Task : WF_vars(TaskStep(t))
    /\ \A c \in Callers : WF_vars(Wake(c))
===============================================================================
