------------------------------- MODULE Gateway --------------------------------
(***************************************************************************)
(* internal/app/coordinator: the handlers of POST /query and POST /ask with *)
(* the executor.  A request is planned, takes one client from the registry *)
(* and makes its calls one by one, while other requests change the         *)
(* registry.  What an agent or the LLM answers is not under src's control: *)
(* a call may fail, or succeed with or without data.                       *)
(***************************************************************************)
EXTENDS Planner, Registry, Ollama

CONSTANTS
    QueryRequests, \* bodies of POST /query: ClusterName, ..., Intent, Mode
    AskRequests,   \* bodies of POST /ask: ClusterName, Question, Namespace, Mode
    Payloads,      \* what the LLM may extract from a question
    LLMEnabled     \* is OLLAMA_BASE_URL set?

\* Bodies are decoded into structs; an LLM's text is decoded the same way.
ASSUME RequestAssumption ==
    /\ QueryRequests \subseteq
         [ClusterName : STRING, Namespace : STRING, ObjectKind : STRING, ObjectName : STRING,
          Reason : STRING, Since : Nat, Limit : Int, Intent : STRING, Mode : STRING]
    /\ AskRequests \subseteq
         [ClusterName : STRING, Question : STRING, Namespace : STRING, Mode : STRING]
    /\ Payloads \subseteq
         [Namespace : STRING, ObjectKind : STRING, ObjectName : STRING, Reason : STRING,
          Since : Nat, Intent : STRING]
ASSUME LLMAssumption == LLMEnabled \in BOOLEAN
ASSUME EndpointAssumption == None \notin Endpoints

VARIABLES
    task,    \* query -> the request it is part of
    draining \* has a signal asked the coordinator to shut down?

gatewayVars == <<vars, task, draining>>

noResult == [Events |-> 0, Snapshots |-> 0, Chains |-> 0, NamespaceSummaries |-> 0,
             StepErrors |-> 0]

\* stage: "idle", "asked" (the LLM extracts the intent), "planned", "running",
\* "narrating" (the LLM writes the answer) or "replied".  calls: for each call
\* made, the endpoint that answered it, or None (history).
idle == [stage |-> "idle", ask |-> FALSE, mode |-> "technical", cluster |-> "",
         hint |-> "", plan |-> <<>>, next |-> 1, result |-> noResult,
         calls |-> <<>>, status |-> 0, answer |-> ""]

GatewayInit == Init /\ task = [q \in Queries |-> idle] /\ draining = FALSE

parseIntent(s) == IF s \in Intents THEN s ELSE "Unknown"

parseModeVerbatim(s) == s \* a mutant of parseMode

parseMode(s) == IF s \in {"concise", "incident-summary"} THEN s ELSE "technical"

waiting(q) == task[q].stage \notin {"idle", "replied"}

ready(q) == up /\ ~draining /\ ~waiting(q)

replied(t, status) == [t EXCEPT !.stage = "replied", !.status = status]

\* Plan errors are answered with 400.
planned(t, query) ==
    IF Plan(query) = <<>> THEN replied(t, 400)
    ELSE [t EXCEPT !.stage = "planned", !.plan = Plan(query)]

-----------------------------------------------------------------------------
\* Mutants of the definitions below: plausible slips in the code they model.
afterFailureStopping(t) ==
    [t EXCEPT !.next = Len(t.plan) + 1, !.result.StepErrors = @ + 1]

reachableAnew(q) ==
    IF task[q].cluster \in DOMAIN entries THEN {entries[task[q].cluster]} ELSE {}

replyStatusLenient(result) ==
    IF result.StepErrors > 1 /\ result.Events = 0 /\ result.Snapshots = 0 THEN 207 ELSE 200

callRetried(q) ==
    /\ task[q].stage = "running" /\ task[q].next <= Len(task[q].plan)
    /\ UNCHANGED gatewayVars

drainedIdle == lock = "free" /\ \A q \in Queries : task[q].stage = "idle"

-----------------------------------------------------------------------------
\* handleQuery up to the plan.  An unreadable body and an empty cluster are
\* refused with 400.  Since is now minus since_minutes, or 0 when that is not
\* positive; a huge value overflows the duration, so that any time may result.
AcceptQuery(q, r) ==
    /\ ready(q)
    /\ task' = [task EXCEPT ![q] =
         LET t == [idle EXCEPT !.mode = parseMode(r.Mode), !.cluster = r.ClusterName]
         IN planned(t, [r EXCEPT !.Intent = parseIntent(@)])]
    /\ UNCHANGED <<vars, draining>>

\* handleAsk up to the call of the LLM.
AcceptAsk(q, r) ==
    /\ ready(q)
    /\ task' = [task EXCEPT ![q] =
         LET t == [idle EXCEPT !.ask = TRUE, !.mode = parseMode(r.Mode),
                               !.cluster = r.ClusterName, !.hint = r.Namespace]
         IN CASE ~LLMEnabled -> replied(t, 503)
              [] LLMEnabled /\ (r.ClusterName = "" \/ r.Question = "") -> replied(t, 400)
              [] OTHER -> [t EXCEPT !.stage = "asked"]]
    /\ UNCHANGED <<vars, draining>>

ChatFails(q) ==
    /\ task[q].stage = "asked" /\ \E x \in Exchanges : Chat(x) = Error
    /\ task' = [task EXCEPT ![q] = replied(@, 502)]
    /\ UNCHANGED <<vars, draining>>

\* A reply of the LLM that is not the expected JSON means a namespace overview.
fallbackQuery(t) ==
    [ClusterName |-> t.cluster, Namespace |-> t.hint, ObjectKind |-> "", ObjectName |-> "",
     Reason |-> "", Since |-> 0, Limit |-> 0, Intent |-> "NamespaceOverview"]

parseIntentJSON(p, t) ==
    [ClusterName |-> t.cluster,
     Namespace |-> IF p.Namespace = "" THEN t.hint ELSE p.Namespace,
     ObjectKind |-> p.ObjectKind, ObjectName |-> p.ObjectName, Reason |-> p.Reason,
     Since |-> p.Since, Limit |-> 0, Intent |-> parseIntent(p.Intent)]

\* An empty text is not JSON either.
ExtractIntent(q) ==
    /\ task[q].stage = "asked"
    /\ \E x \in {x \in Exchanges : Chat(x) # Error} :
         LET parsed == IF Chat(x) = "" THEN {}
                       ELSE {parseIntentJSON(p, task[q]) : p \in Payloads}
         IN \E query \in {fallbackQuery(task[q])} \cup parsed :
              task' = [task EXCEPT ![q] = planned(@, query)]
    /\ UNCHANGED <<vars, draining>>

-----------------------------------------------------------------------------
\* Execute asks the registry for one client for the whole plan ...
TakeClient(q) ==
    /\ task[q].stage = "planned"
    /\ ReuseClient(q, task[q].cluster) \/ DialClient(q, task[q].cluster)
    /\ task' = [task EXCEPT ![q].stage = "running"]
    /\ UNCHANGED draining

\* ... and gives up without one: the cluster is not registered, or its
\* endpoint cannot be dialled.
NoClient(q) ==
    /\ task[q].stage = "planned" /\ lock = "free"
    /\ task[q].cluster \notin DOMAIN conns
    /\ task' = [task EXCEPT ![q] = replied(@, 502)]
    /\ UNCHANGED <<vars, draining>>

collected(t, n) ==
    LET method == t.plan[t.next].Method
        field == CASE method \in {"ListEvents", "GetEventsForObject"} -> "Events"
                   [] method = "GetNamespaceSummary" -> "NamespaceSummaries"
                   [] method = "ResolveOwnerChain" -> "Chains"
                   [] method = "GetObjectSnapshot" -> "Snapshots"
    IN [t EXCEPT !.next = @ + 1,
                 !.result[field] = @ + IF method = "ResolveOwnerChain" THEN 1 ELSE n]

\* The agent a call of this request can reach.
reachable(q) == IF held[q] \in open THEN {held[q].endpoint} ELSE {}

\* The kinds the agent can fetch to walk up their owners or to show their state;
\* all of them live in a namespace.
fetchedKinds == {"Pod", "ReplicaSet", "Deployment", "StatefulSet", "DaemonSet", "Job",
                 "CronJob", "PersistentVolumeClaim"}

\* What every agent answers with an error: client-go refuses a Get of a name
\* without a namespace, and a snapshot of another kind is not supported, while
\* the walk just stops at one.
refused(step) ==
    \/ /\ step.Method \in {"ResolveOwnerChain", "GetObjectSnapshot"}
       /\ step.Kind \in fetchedKinds /\ step.Namespace = ""
    \/ step.Method = "GetObjectSnapshot" /\ step.Kind \notin fetchedKinds

\* runStep, for a call that is answered with or without data.
CallSucceeds(q) ==
    /\ task[q].stage = "running" /\ task[q].next <= Len(task[q].plan)
    /\ ~refused(task[q].plan[task[q].next])
    /\ \E endpoint \in reachable(q), n \in {0, 1} :
         task' = [task EXCEPT ![q] =
                    [collected(@, n) EXCEPT !.calls = Append(task[q].calls, endpoint)]]
    /\ UNCHANGED <<vars, draining>>

afterFailure(t) == [t EXCEPT !.next = @ + 1, !.result.StepErrors = @ + 1]

\* runStep, for a call that fails: the agent is down or refuses, the caller
\* has gone, or the registry has closed the connection.
CallFails(q) ==
    /\ task[q].stage = "running" /\ task[q].next <= Len(task[q].plan)
    /\ task' = [task EXCEPT ![q] = [afterFailure(@) EXCEPT !.calls = Append(task[q].calls, None)]]
    /\ UNCHANGED <<vars, draining>>

replyStatus(result) ==
    IF result.StepErrors > 0 /\ result.Events = 0 /\ result.Snapshots = 0 THEN 207 ELSE 200

\* Execute returns and the response is built; /query is answered.
Finish(q) ==
    /\ task[q].stage = "running" /\ task[q].next > Len(task[q].plan)
    /\ FinishQuery(q)
    /\ task' = [task EXCEPT ![q] =
         IF @.ask THEN [@ EXCEPT !.stage = "narrating"]
                  ELSE replied(@, replyStatus(@.result))]
    /\ UNCHANGED draining

\* Build: the summary by rule is empty in technical mode.
Summary(mode) == IF mode = "technical" THEN "" ELSE "by rule"

\* When the LLM fails to narrate, the summary of the response takes its place.
narrative(x, mode) == IF Summarize(x) = Error THEN Summary(mode) ELSE Summarize(x)

Narrate(q) ==
    /\ task[q].stage = "narrating"
    /\ \E x \in Exchanges :
         task' = [task EXCEPT ![q] =
                    [replied(@, replyStatus(@.result)) EXCEPT !.answer = narrative(x, task[q].mode)]]
    /\ UNCHANGED <<vars, draining>>

-----------------------------------------------------------------------------
RequestStep(q) ==
    \/ \E r \in QueryRequests : AcceptQuery(q, r)
    \/ \E r \in AskRequests : AcceptAsk(q, r)
    \/ ChatFails(q) \/ ExtractIntent(q)
    \/ TakeClient(q) \/ NoClient(q) \/ CallSucceeds(q) \/ CallFails(q)
    \/ Finish(q) \/ Narrate(q)

\* Other requests change the registry, which are not accepted any more when
\* the coordinator shuts down.
RegistryRequest ==
    /\ ~draining
    /\ \E c \in Clusters :
         (\E endpoint \in Endpoints : Register(c, endpoint)) \/ Unregister(c)
    /\ UNCHANGED <<task, draining>>

LockStep == HolderStep /\ UNCHANGED <<task, draining>>

GatewayRestart == Restart /\ UNCHANGED <<task, draining>>

\* A crash drops every request in flight.
GatewayCrash ==
    /\ Crash
    /\ task' = [q \in Queries |-> idle] /\ draining' = FALSE

\* Run, on a signal: Shutdown stops accepting requests ...
Shutdown ==
    /\ up /\ ~draining /\ crashes < MaxCrashes
    /\ draining' = TRUE
    /\ UNCHANGED <<vars, task>>

drained == lock = "free" /\ \A q \in Queries : ~waiting(q)

\* ... and waits, without a deadline, for those in flight.
Exit == draining /\ drained /\ GatewayCrash

GatewayNext ==
    \/ \E q \in Queries : RequestStep(q)
    \/ RegistryRequest \/ LockStep
    \/ Shutdown \/ Exit \/ GatewayCrash \/ GatewayRestart

\* Calls of agents and of the LLM return: they fail at the latest when the
\* caller leaves, which cancels the context of its request.  The registry's
\* sync.RWMutex serves whoever waits for its write lock for long enough.
GatewayFairness ==
    /\ WF_gatewayVars(LockStep) /\ WF_gatewayVars(Exit)
    /\ \A q \in Queries :
         /\ WF_gatewayVars(ChatFails(q) \/ ExtractIntent(q))
         /\ SF_gatewayVars(TakeClient(q) \/ NoClient(q))
         /\ WF_gatewayVars(CallSucceeds(q) \/ CallFails(q))
         /\ WF_gatewayVars(Finish(q) \/ Narrate(q))

GatewaySpec == GatewayInit /\ [][GatewayNext]_gatewayVars /\ GatewayFairness

-----------------------------------------------------------------------------
(***************************************************************************)
(* Properties                                                              *)
(***************************************************************************)
Task == [stage : {"idle", "asked", "planned", "running", "narrating", "replied"},
         ask : BOOLEAN, mode : {"technical", "concise", "incident-summary"},
         cluster : STRING, hint : STRING, plan : Seq(Step), next : Nat \ {0},
         result : [Events : Nat, Snapshots : Nat, Chains : Nat, NamespaceSummaries : Nat,
                   StepErrors : Nat],
         calls : Seq(Endpoints \cup {None}), status : Nat,
         answer : {"", "by rule", "text"}]

\* The type of the requests in flight: a mode is one of the three that Build
\* knows and a plan consists of calls that runStep can make, whatever a user
\* or the LLM asks for (gateway.go 326-335, executor.go 60-151).
GatewayTypeOK == task \in [Queries -> Task] /\ draining \in BOOLEAN

done(q) == task[q].stage = "replied" /\ task[q].status \in {200, 207}

ByMethod(t, methods) == {i \in DOMAIN t.plan : t.plan[i].Method \in methods}

Answered(t) == {i \in DOMAIN t.calls : t.calls[i] # None}

\* Every call of a plan is made once, although earlier ones fail, and is
\* accounted for in the reply: a call that fails is a warning, and the data
\* come from the calls that did not (executor.go 48-57).
StepsAccounted ==
    \A q \in Queries : done(q) =>
        LET t == task[q]
            answered(methods) == Cardinality(ByMethod(t, methods) \cap Answered(t))
        IN /\ Len(t.calls) = Len(t.plan)
           /\ t.result.StepErrors = Len(t.plan) - Cardinality(Answered(t))
           /\ t.result.Chains = answered({"ResolveOwnerChain"})
           /\ t.result.Events <= answered({"ListEvents", "GetEventsForObject"})
           /\ t.result.Snapshots <= answered({"GetObjectSnapshot"})
           /\ t.result.NamespaceSummaries <= answered({"GetNamespaceSummary"})

\* One reply never mixes the data of two agents, although the cluster may be
\* registered with another endpoint between two calls (executor.go 43-56).
OneAgentPerReply ==
    \A q \in Queries : \A i, j \in Answered(task[q]) : task[q].calls[i] = task[q].calls[j]

\* A request none of whose calls succeeded is never answered with a plain 200:
\* it gets 207 and a warning for each call (gateway.go 108-113, 196-200).
AllFailedReported ==
    \A q \in Queries :
        done(q) /\ Answered(task[q]) = {} =>
            task[q].status = 207 /\ task[q].result.StepErrors = Len(task[q].plan)

\* Every request is answered, whatever else changes the registry and holds its
\* lock, unless the process dies with it (gateway.go 66-201, executor.go 42-58).
RequestEnds == \A q \in Queries : waiting(q) ~> ~waiting(q)

\* A shutdown ends, although it waits for the requests in flight and for the
\* lock without a deadline (coordinator.go 58-64).
ShutdownEnds == draining ~> ~up

\* README.md 115: "HTTP status is `207 Multi-Status` when all steps failed and
\* nothing was collected", and gateway.go 110: "All steps failed, nothing
\* collected".
MultiStatusMeansNothing ==
    \A q \in Queries : done(q) /\ task[q].status = 207 =>
        /\ task[q].result.StepErrors = Len(task[q].plan)
        /\ task[q].result.NamespaceSummaries = 0 /\ task[q].result.Chains = 0

\* README.md 67, on POST /ask: "Response includes both `answer` (narrative
\* string) and the full structured response object".
AskAnswered == \A q \in Queries : done(q) /\ task[q].ask => task[q].answer # ""

=============================================================================
