----------------------------- MODULE GatewayProofs -----------------------------
(***************************************************************************)
(* Proofs about Gateway: the requests in flight while the registry changes *)
(* under them, for any number of concurrent requests, any bodies and any   *)
(* answers of the LLM.                                                     *)
(***************************************************************************)
EXTENDS Gateway, RegistryProofs, FiniteSetTheorems

AllMethods == {"ListEvents", "GetEventsForObject", "GetNamespaceSummary",
               "ResolveOwnerChain", "GetObjectSnapshot"}

\* Nothing has been called yet.
NotStarted(t) == t.next = 1 /\ t.calls = <<>> /\ t.result = noResult

\* A plan that can be run: an error is not planned.
Runnable(plan) == plan # <<>>

\* The calls of a method that were answered.
AnsweredBy(t, methods) == Cardinality(ByMethod(t, methods) \cap Answered(t))

\* The calls made so far are accounted for in the result.
Accounted(t) ==
    /\ Len(t.calls) = t.next - 1 /\ t.next <= Len(t.plan) + 1
    /\ t.result.StepErrors = Len(t.calls) - Cardinality(Answered(t))
    /\ t.result.Chains = AnsweredBy(t, {"ResolveOwnerChain"})
    /\ t.result.Events <= AnsweredBy(t, {"ListEvents", "GetEventsForObject"})
    /\ t.result.Snapshots <= AnsweredBy(t, {"GetObjectSnapshot"})
    /\ t.result.NamespaceSummaries <= AnsweredBy(t, {"GetNamespaceSummary"})

\* Every call of the plan has been made.
Complete(t) == Runnable(t.plan) /\ Accounted(t) /\ t.next = Len(t.plan) + 1

\* How far a request has come, by its stage.
Progress(t) ==
    /\ t.stage \in {"idle", "asked", "planned"} => NotStarted(t)
    /\ t.stage = "planned" => Runnable(t.plan)
    /\ t.stage = "running" => Runnable(t.plan) /\ Accounted(t)
    /\ t.stage = "narrating" => Complete(t)
    /\ t.stage = "replied" =>
         IF t.status \in {200, 207}
         THEN Complete(t) /\ t.status = replyStatus(t.result)
         ELSE t.calls = <<>>

\* The calls of a request were answered by one agent: while it runs, by the
\* one its client leads to.
OneAgent(t, conn) ==
    /\ \A i, j \in Answered(t) : t.calls[i] = t.calls[j]
    /\ t.stage = "running" => conn # None /\ \A i \in Answered(t) : t.calls[i] = conn.endpoint

TaskInv(t, conn) == t \in Task /\ Progress(t) /\ OneAgent(t, conn)

GInv ==
    /\ IInv
    /\ draining \in BOOLEAN
    /\ task \in [Queries -> Task]
    /\ \A q \in Queries : TaskInv(task[q], held[q])

-----------------------------------------------------------------------------
\* Zero and the empty string have the types of the fields they fill.
LEMMA Blank == 0 \in Nat /\ 0 \in Int /\ "" \in STRING
  <1>1. 0 \in Nat /\ 0 \in Int
    OBVIOUS
  <1> QED
    BY <1>1, LiteralAssumption, Zenon

\* The planner picks one of its handlers or refuses.
LEMMA PlanCases ==
    ASSUME NEW q
    PROVE  Plan(q) \in {<<>>, namespaceOverview(q), explainObjectIssue(q),
                        explainRestarts(q), buildTimeline(q)}
  <1>1. heuristic(q) \in {<<>>, namespaceOverview(q), explainObjectIssue(q)}
    BY DEF heuristic
  <1>2. Plan(q) \in {<<>>, namespaceOverview(q), explainObjectIssue(q),
                     explainRestarts(q), buildTimeline(q), heuristic(q)}
    BY DEF Plan
  <1> QED
    BY <1>1, <1>2

\* The reasons explainRestarts lists are strings.
LEMMA ReasonsTyped ==
    Len(restartReasons) = 5 /\ \A i \in 1 .. 5 : restartReasons[i] \in STRING
  <1>1. \A i \in 1 .. 5 : i = 1 \/ i = 2 \/ i = 3 \/ i = 4 \/ i = 5
    OBVIOUS
  <1>2. /\ restartReasons[1] = "BackOff" /\ restartReasons[2] = "OOMKilling"
        /\ restartReasons[3] = "Failed" /\ restartReasons[4] = "Unhealthy"
        /\ restartReasons[5] = "FailedMount" /\ Len(restartReasons) = 5
    BY DEF restartReasons
  <1> QED
    BY <1>1, <1>2, LiteralAssumption, Zenon

\* The plans the planner makes consist of calls a cluster agent has.
LEMMA PlanTyped ==
    ASSUME NEW q, q.Namespace \in STRING, q.ObjectKind \in STRING, q.ObjectName \in STRING,
           q.Reason \in STRING, q.Since \in Nat, q.Limit \in Int
    PROVE  Plan(q) \in Seq(Step)
  <1> DEFINE summary == [blank EXCEPT !.Method = "GetNamespaceSummary",
                                      !.Namespace = q.Namespace, !.Since = q.Since]
  <1>0. summary \in Step
    BY Blank DEF blank, Step
  <1>1. namespaceOverview(q) \in Seq(Step)
    <2>1. [blank EXCEPT !.Method = "ListEvents", !.Namespace = q.Namespace,
                        !.Since = q.Since, !.Limit = q.Limit] \in Step
      BY Blank DEF blank, Step
    <2> QED
      BY <1>0, <2>1 DEF namespaceOverview
  <1>2. explainObjectIssue(q) \in Seq(Step)
    <2>1. /\ objectStep(q, "GetEventsForObject") \in Step
          /\ objectStep(q, "ResolveOwnerChain") \in Step
          /\ objectStep(q, "GetObjectSnapshot") \in Step
      BY Blank DEF objectStep, blank, Step
    <2> QED
      BY <2>1 DEF explainObjectIssue
  <1>3. explainRestarts(q) \in Seq(Step)
    <2> DEFINE list(i) == [blank EXCEPT !.Method = "ListEvents", !.Namespace = q.Namespace,
                                        !.Reason = restartReasons[i], !.Since = q.Since]
    <2>1. \A i \in 1 .. 5 : list(i) \in Step
      BY Blank, ReasonsTyped DEF blank, Step
    <2>2. [i \in 1 .. 5 |-> list(i)] \in Seq(Step)
      BY <2>1
    <2> QED
      BY <1>0, <2>2, ReasonsTyped DEF explainRestarts
  <1>4. buildTimeline(q) \in Seq(Step)
    <2>1. [blank EXCEPT !.Method = "ListEvents", !.Namespace = q.Namespace,
                        !.Reason = q.Reason, !.Since = q.Since, !.Limit = q.Limit] \in Step
      BY Blank DEF blank, Step
    <2> QED
      BY <2>1 DEF buildTimeline
  <1>5. <<>> \in Seq(Step)
    OBVIOUS
  <1> QED
    BY <1>1, <1>2, <1>3, <1>4, <1>5, PlanCases, Zenon

-----------------------------------------------------------------------------
\* The fields of a request, one by one.
LEMMA TaskFields ==
    ASSUME NEW t \in Task
    PROVE  /\ t.plan \in Seq(Step) /\ Len(t.plan) \in Nat /\ DOMAIN t.plan = 1 .. Len(t.plan)
           /\ t.calls \in Seq(Endpoints \cup {None}) /\ Len(t.calls) \in Nat
           /\ DOMAIN t.calls = 1 .. Len(t.calls)
           /\ t.next \in Nat \ {0} /\ t.status \in Nat
           /\ t.cluster \in STRING /\ t.hint \in STRING
           /\ t.result \in [Events : Nat, Snapshots : Nat, Chains : Nat,
                            NamespaceSummaries : Nat, StepErrors : Nat]
  <1>1. /\ t.plan \in Seq(Step) /\ t.calls \in Seq(Endpoints \cup {None})
        /\ t.next \in Nat \ {0} /\ t.status \in Nat
        /\ t.cluster \in STRING /\ t.hint \in STRING
        /\ t.result \in [Events : Nat, Snapshots : Nat, Chains : Nat,
                         NamespaceSummaries : Nat, StepErrors : Nat]
    BY DEF Task
  <1> QED
    BY <1>1

\* The answered calls are among those made, which are finitely many.
LEMMA AnsweredFinite ==
    ASSUME NEW t \in Task
    PROVE  /\ DOMAIN t.calls = 1 .. Len(t.calls) /\ Len(t.calls) \in Nat
           /\ Answered(t) \subseteq 1 .. Len(t.calls)
           /\ IsFiniteSet(Answered(t)) /\ Cardinality(Answered(t)) \in Nat
           /\ \A M : /\ IsFiniteSet(ByMethod(t, M) \cap Answered(t))
                     /\ AnsweredBy(t, M) \in Nat
  <1>2. DOMAIN t.calls = 1 .. Len(t.calls) /\ Len(t.calls) \in Nat
    BY TaskFields
  <1>3. Answered(t) \subseteq 1 .. Len(t.calls)
    BY <1>2 DEF Answered
  <1>4. IsFiniteSet(1 .. Len(t.calls))
    <2>1. 1 \in Int /\ Len(t.calls) \in Int
      BY <1>2
    <2> QED
      BY <2>1, FS_Interval
  <1>5. \A S : S \subseteq Answered(t) => IsFiniteSet(S) /\ Cardinality(S) \in Nat
    BY <1>3, <1>4, FS_Subset, FS_CardinalityType
  <1> QED
    BY <1>2, <1>3, <1>5 DEF AnsweredBy

\* A request that has not called anything accounts for everything.
LEMMA NotStartedAccounted ==
    ASSUME NEW t \in Task, NotStarted(t)
    PROVE  Accounted(t) /\ Answered(t) = {}
  <1>1. Len(t.calls) = 0 /\ Answered(t) = {}
    BY DEF NotStarted, Answered
  <1>2. \A M : AnsweredBy(t, M) = 0
    BY <1>1, FS_EmptySet DEF AnsweredBy
  <1>3. Len(t.plan) \in Nat
    BY TaskFields
  <1>4. /\ t.result.StepErrors = 0 /\ t.result.Chains = 0 /\ t.result.Events = 0
        /\ t.result.Snapshots = 0 /\ t.result.NamespaceSummaries = 0
    BY DEF NotStarted, noResult
  <1>5. Cardinality(Answered(t)) = 0
    BY <1>1, FS_EmptySet
  <1> QED
    BY <1>1, <1>2, <1>3, <1>4, <1>5 DEF Accounted, NotStarted

\* What one more call, answered by x, adds to the answered ones.
OneMore(t, u, x) ==
    /\ Len(u.calls) = Len(t.calls) + 1
    /\ \A i \in Answered(t) : u.calls[i] = t.calls[i]
    /\ x = None => /\ Answered(u) = Answered(t)
                   /\ \A M : AnsweredBy(u, M) = AnsweredBy(t, M)
    /\ x # None => /\ Answered(u) = Answered(t) \cup {t.next} /\ u.calls[t.next] = x
                   /\ Cardinality(Answered(u)) = Cardinality(Answered(t)) + 1
                   /\ \A M : AnsweredBy(u, M) = AnsweredBy(t, M)
                               + IF t.plan[t.next].Method \in M THEN 1 ELSE 0

LEMMA OneMoreCall ==
    ASSUME NEW t \in Task, Accounted(t), t.next <= Len(t.plan), NEW u,
           NEW x \in Endpoints \cup {None},
           u.plan = t.plan, u.calls = Append(t.calls, x)
    PROVE  OneMore(t, u, x)
  <1>1. /\ t.calls \in Seq(Endpoints \cup {None}) /\ t.plan \in Seq(Step) /\ t.next \in Nat \ {0}
        /\ Len(t.calls) = t.next - 1 /\ Len(t.plan) \in Nat /\ DOMAIN t.plan = 1 .. Len(t.plan)
    BY TaskFields DEF Accounted
  <1>2. /\ u.calls \in Seq(Endpoints \cup {None}) /\ Len(u.calls) = Len(t.calls) + 1
        /\ DOMAIN u.calls = 1 .. t.next /\ DOMAIN t.calls = 1 .. t.next - 1
        /\ \A i \in 1 .. t.next - 1 : u.calls[i] = t.calls[i]
        /\ u.calls[t.next] = x
    BY <1>1
  <1>3. t.next \in DOMAIN t.plan /\ t.next \notin Answered(t)
    BY <1>1, <1>2 DEF Answered
  <1>4. \A i \in Answered(t) : u.calls[i] = t.calls[i]
    BY <1>2 DEF Answered
  <1>5. \A M : ByMethod(u, M) = ByMethod(t, M)
    BY DEF ByMethod
  <1>6. CASE x = None
    <2>1. Answered(u) = Answered(t)
      BY <1>1, <1>2, <1>6 DEF Answered
    <2> QED
      BY <1>2, <1>4, <1>5, <1>6, <2>1 DEF AnsweredBy, OneMore
  <1>7. CASE x # None
    <2>1. Answered(u) = Answered(t) \cup {t.next}
      BY <1>1, <1>2, <1>7 DEF Answered
    <2>2. Cardinality(Answered(u)) = Cardinality(Answered(t)) + 1
      BY <1>3, <2>1, AnsweredFinite, FS_AddElement
    <2>3. ASSUME NEW M PROVE AnsweredBy(u, M) = AnsweredBy(t, M)
                               + IF t.plan[t.next].Method \in M THEN 1 ELSE 0
      <3> DEFINE S == ByMethod(t, M) \cap Answered(t)
      <3>1. IsFiniteSet(S) /\ Cardinality(S) \in Nat /\ t.next \notin S
        BY <1>3, AnsweredFinite DEF AnsweredBy
      <3>2. CASE t.plan[t.next].Method \in M
        <4>1. ByMethod(u, M) \cap Answered(u) = S \cup {t.next}
          BY <1>3, <1>5, <2>1, <3>2 DEF ByMethod
        <4>2. Cardinality(S \cup {t.next}) = Cardinality(S) + 1
          BY <3>1, FS_AddElement
        <4> QED
          BY <3>2, <4>1, <4>2 DEF AnsweredBy
      <3>3. CASE t.plan[t.next].Method \notin M
        <4>1. ByMethod(u, M) \cap Answered(u) = S
          BY <1>5, <2>1, <3>3 DEF ByMethod
        <4>2. AnsweredBy(u, M) = AnsweredBy(t, M) /\ AnsweredBy(t, M) \in Nat
          BY <3>1, <4>1 DEF AnsweredBy
        <4> QED
          BY <3>3, <4>2
      <3> QED
        BY <3>2, <3>3
    <2> QED
      BY <1>2, <1>4, <1>7, <2>1, <2>2, <2>3 DEF OneMore
  <1> QED
    BY <1>6, <1>7

Result == [Events : Nat, Snapshots : Nat, Chains : Nat, NamespaceSummaries : Nat,
           StepErrors : Nat]

\* The request after a call that leaves it with the result r.
called(t, r, x) == [t EXCEPT !.next = t.next + 1, !.result = r, !.calls = Append(t.calls, x)]

LEMMA CalledFields ==
    ASSUME NEW t \in Task, NEW r \in Result, NEW x \in Endpoints \cup {None}
    PROVE  /\ called(t, r, x) \in Task
           /\ called(t, r, x).plan = t.plan /\ called(t, r, x).stage = t.stage
           /\ called(t, r, x).next = t.next + 1 /\ called(t, r, x).result = r
           /\ called(t, r, x).calls = Append(t.calls, x)
  <1>1. t.next + 1 \in Nat \ {0} /\ Append(t.calls, x) \in Seq(Endpoints \cup {None})
    BY TaskFields
  <1> DEFINE n == t.next + 1
             c == Append(t.calls, x)
             u == [t EXCEPT !.next = n, !.result = r, !.calls = c]
  <1>2. called(t, r, x) = u
    BY DEF called
  <1>3. n \in Nat \ {0} /\ c \in Seq(Endpoints \cup {None})
    BY <1>1
  <1> HIDE DEF n, c
  <1>4. /\ u \in Task /\ u.plan = t.plan /\ u.stage = t.stage
        /\ u.next = n /\ u.result = r /\ u.calls = c
    BY <1>3 DEF Task, Result
  <1> QED
    BY <1>2, <1>4 DEF n, c

\* A call that fails is one more error.
LEMMA FailedCall ==
    ASSUME NEW t \in Task
    PROVE  LET r == [t.result EXCEPT !.StepErrors = t.result.StepErrors + 1]
           IN /\ [afterFailure(t) EXCEPT !.calls = Append(t.calls, None)] = called(t, r, None)
              /\ r \in Result
              /\ r.StepErrors = t.result.StepErrors + 1 /\ r.Events = t.result.Events
              /\ r.Chains = t.result.Chains /\ r.Snapshots = t.result.Snapshots
              /\ r.NamespaceSummaries = t.result.NamespaceSummaries
  <1>1. t.result \in Result
    BY TaskFields DEF Result
  <1>2. [afterFailure(t) EXCEPT !.calls = Append(t.calls, None)]
          = called(t, [t.result EXCEPT !.StepErrors = t.result.StepErrors + 1], None)
    BY DEF afterFailure, called, Task
  <1> QED
    BY <1>1, <1>2 DEF Result

\* The result grows by at most one item, where the method of the call belongs.
Counted(old, new, m) ==
    /\ new.StepErrors = old.StepErrors
    /\ new.Chains = old.Chains + IF m \in {"ResolveOwnerChain"} THEN 1 ELSE 0
    /\ new.Events <= old.Events + IF m \in {"ListEvents", "GetEventsForObject"} THEN 1 ELSE 0
    /\ new.Snapshots <= old.Snapshots + IF m \in {"GetObjectSnapshot"} THEN 1 ELSE 0
    /\ new.NamespaceSummaries <=
         old.NamespaceSummaries + IF m \in {"GetNamespaceSummary"} THEN 1 ELSE 0

LEMMA AnsweredCall ==
    ASSUME NEW t \in Task, t.next <= Len(t.plan), NEW n \in {0, 1}, NEW x \in Endpoints
    PROVE  \E r \in Result :
             /\ [collected(t, n) EXCEPT !.calls = Append(t.calls, x)] = called(t, r, x)
             /\ Counted(t.result, r, t.plan[t.next].Method)
  <1> DEFINE m == t.plan[t.next].Method
             old == t.result
  <1>1. old \in Result /\ m \in AllMethods
    <2>1. t.plan[t.next] \in Step
      BY TaskFields
    <2> QED
      BY <2>1, TaskFields DEF Result, Step, AllMethods
  <1>2. CASE m = "ResolveOwnerChain"
    <2> DEFINE r == [old EXCEPT !.Chains = old.Chains + 1]
    <2>1. [collected(t, n) EXCEPT !.calls = Append(t.calls, x)] = called(t, r, x)
      BY <1>2 DEF collected, called, Task
    <2>2. r \in Result /\ Counted(old, r, m)
      <3> HIDE DEF old, m
      <3> QED
        BY <1>1, <1>2 DEF Result, Counted
    <2> QED
      BY <2>1, <2>2
  <1>3. CASE m = "ListEvents" \/ m = "GetEventsForObject"
    <2> DEFINE r == [old EXCEPT !.Events = old.Events + n]
    <2>1. [collected(t, n) EXCEPT !.calls = Append(t.calls, x)] = called(t, r, x)
      BY <1>3 DEF collected, called, Task
    <2>2. r \in Result /\ Counted(old, r, m)
      <3> HIDE DEF old, m
      <3> QED
        BY <1>1, <1>3 DEF Result, Counted
    <2> QED
      BY <2>1, <2>2
  <1>4. CASE m = "GetNamespaceSummary"
    <2> DEFINE r == [old EXCEPT !.NamespaceSummaries = old.NamespaceSummaries + n]
    <2>1. [collected(t, n) EXCEPT !.calls = Append(t.calls, x)] = called(t, r, x)
      BY <1>4 DEF collected, called, Task
    <2>2. r \in Result /\ Counted(old, r, m)
      <3> HIDE DEF old, m
      <3> QED
        BY <1>1, <1>4 DEF Result, Counted
    <2> QED
      BY <2>1, <2>2
  <1>5. CASE m = "GetObjectSnapshot"
    <2> DEFINE r == [old EXCEPT !.Snapshots = old.Snapshots + n]
    <2>1. [collected(t, n) EXCEPT !.calls = Append(t.calls, x)] = called(t, r, x)
      BY <1>5 DEF collected, called, Task
    <2>2. r \in Result /\ Counted(old, r, m)
      <3> HIDE DEF old, m
      <3> QED
        BY <1>1, <1>5 DEF Result, Counted
    <2> QED
      BY <2>1, <2>2
  <1> QED
    BY <1>1, <1>2, <1>3, <1>4, <1>5 DEF AllMethods

\* A call, answered by the agent of the client or not at all, keeps a running
\* request accounted for and with one agent.
LEMMA CallKeepsInv ==
    ASSUME NEW t, NEW conn, TaskInv(t, conn), t.stage = "running", t.next <= Len(t.plan),
           NEW r \in Result, NEW x \in Endpoints \cup {None},
           IF x = None
           THEN /\ r.StepErrors = t.result.StepErrors + 1 /\ r.Events = t.result.Events
                /\ r.Chains = t.result.Chains /\ r.Snapshots = t.result.Snapshots
                /\ r.NamespaceSummaries = t.result.NamespaceSummaries
           ELSE x = conn.endpoint /\ Counted(t.result, r, t.plan[t.next].Method)
    PROVE  TaskInv(called(t, r, x), conn)
  <1> DEFINE u == called(t, r, x)
             old == t.result
  <1>0. t \in Task /\ Accounted(t) /\ Runnable(t.plan) /\ OneAgent(t, conn)
    BY DEF TaskInv, Progress
  <1>1. /\ u \in Task /\ u.plan = t.plan /\ u.stage = "running" /\ u.next = t.next + 1
        /\ u.result = r /\ u.calls = Append(t.calls, x)
    BY <1>0, CalledFields
  <1>2. /\ old \in Result /\ t.next \in Nat \ {0} /\ Len(t.calls) \in Nat /\ Len(t.plan) \in Nat
    BY <1>0, TaskFields DEF Result
  <1>3. /\ Cardinality(Answered(t)) \in Nat /\ \A M : AnsweredBy(t, M) \in Nat
    BY <1>0, AnsweredFinite
  <1> HIDE DEF u, old
  <1>4. OneMore(t, u, x)
    BY <1>0, <1>1, OneMoreCall
  <1>5. Accounted(u)
    <2>0. /\ Len(t.calls) = t.next - 1
          /\ old.StepErrors = Len(t.calls) - Cardinality(Answered(t))
          /\ old.Chains = AnsweredBy(t, {"ResolveOwnerChain"})
          /\ old.Events <= AnsweredBy(t, {"ListEvents", "GetEventsForObject"})
          /\ old.Snapshots <= AnsweredBy(t, {"GetObjectSnapshot"})
          /\ old.NamespaceSummaries <= AnsweredBy(t, {"GetNamespaceSummary"})
      BY <1>0 DEF Accounted, old
    <2>1. /\ Len(u.calls) = Len(t.calls) + 1
          /\ Len(u.calls) = u.next - 1 /\ u.next <= Len(u.plan) + 1
      BY <1>1, <1>2, <1>4, <2>0 DEF OneMore
    <2>2. CASE x = None
      <3>1. /\ r.StepErrors = old.StepErrors + 1 /\ r.Events = old.Events
            /\ r.Chains = old.Chains /\ r.Snapshots = old.Snapshots
            /\ r.NamespaceSummaries = old.NamespaceSummaries
        BY <2>2 DEF old
      <3>2. Answered(u) = Answered(t) /\ \A M : AnsweredBy(u, M) = AnsweredBy(t, M)
        BY <1>4, <2>2 DEF OneMore
      <3>3. r.StepErrors = Len(u.calls) - Cardinality(Answered(u))
        <4>1. old.StepErrors \in Nat
          BY <1>2 DEF Result
        <4> QED
          BY <1>2, <1>3, <2>0, <2>1, <3>1, <3>2, <4>1
      <3> QED
        BY <1>1, <2>0, <2>1, <3>1, <3>2, <3>3 DEF Accounted
    <2>3. CASE x # None
      <3> DEFINE m == t.plan[t.next].Method
      <3>1. Counted(old, r, m)
        BY <2>3 DEF old
      <3>2. /\ Cardinality(Answered(u)) = Cardinality(Answered(t)) + 1
            /\ \A M : AnsweredBy(u, M) = AnsweredBy(t, M) + IF m \in M THEN 1 ELSE 0
        BY <1>4, <2>3 DEF OneMore
      <3>4. /\ old.StepErrors \in Nat /\ old.Chains \in Nat /\ old.Events \in Nat
            /\ old.Snapshots \in Nat /\ old.NamespaceSummaries \in Nat
            /\ r.StepErrors \in Nat /\ r.Chains \in Nat /\ r.Events \in Nat
            /\ r.Snapshots \in Nat /\ r.NamespaceSummaries \in Nat
        BY <1>2 DEF Result
      <3> HIDE DEF m
      <3>5. r.StepErrors = Len(u.calls) - Cardinality(Answered(u))
        <4>1. r.StepErrors = old.StepErrors
          BY <3>1 DEF Counted
        <4>2. Cardinality(Answered(u)) = Cardinality(Answered(t)) + 1
          BY <3>2
        <4>3. Len(t.calls) \in Nat /\ Cardinality(Answered(t)) \in Nat
          BY <1>2, <1>3
        <4> DEFINE a == Cardinality(Answered(t))
                   n == Len(t.calls)
        <4>4. /\ Cardinality(Answered(u)) = a + 1 /\ Len(u.calls) = n + 1
              /\ r.StepErrors = n - a /\ n \in Nat /\ a \in Nat
          BY <2>0, <2>1, <4>1, <4>2, <4>3
        <4> HIDE DEF a, n
        <4> QED
          BY <4>4
      <3>6. r.Chains = AnsweredBy(u, {"ResolveOwnerChain"})
        <4>1. /\ r.Chains = old.Chains + IF m \in {"ResolveOwnerChain"} THEN 1 ELSE 0
              /\ AnsweredBy(u, {"ResolveOwnerChain"}) = AnsweredBy(t, {"ResolveOwnerChain"})
                   + IF m \in {"ResolveOwnerChain"} THEN 1 ELSE 0
          BY <3>1, <3>2 DEF Counted
        <4> QED
          BY <2>0, <4>1
      <3>7. r.Events <= AnsweredBy(u, {"ListEvents", "GetEventsForObject"})
        <4> DEFINE M == {"ListEvents", "GetEventsForObject"}
                   k == IF m \in M THEN 1 ELSE 0
                   a == AnsweredBy(t, M)
                   b == AnsweredBy(u, M)
        <4>1. r.Events <= old.Events + k
          BY <3>1 DEF Counted
        <4>2. b = a + k /\ a \in Nat
          BY <1>3, <3>2, Zenon
        <4>3. old.Events <= a /\ old.Events \in Nat /\ r.Events \in Nat
          BY <2>0, <3>4
        <4>4. k \in Nat
          OBVIOUS
        <4> HIDE DEF M, k, a, b
        <4>5. r.Events <= b
          BY <4>1, <4>2, <4>3, <4>4
        <4> QED
          BY <4>5 DEF M, b
      <3>8. r.Snapshots <= AnsweredBy(u, {"GetObjectSnapshot"})
        <4> DEFINE M == {"GetObjectSnapshot"}
                   k == IF m \in M THEN 1 ELSE 0
                   a == AnsweredBy(t, M)
                   b == AnsweredBy(u, M)
        <4>1. r.Snapshots <= old.Snapshots + k
          BY <3>1 DEF Counted
        <4>2. b = a + k /\ a \in Nat
          BY <1>3, <3>2, Zenon
        <4>3. old.Snapshots <= a /\ old.Snapshots \in Nat /\ r.Snapshots \in Nat
          BY <2>0, <3>4
        <4>4. k \in Nat
          OBVIOUS
        <4> HIDE DEF M, k, a, b
        <4>5. r.Snapshots <= b
          BY <4>1, <4>2, <4>3, <4>4
        <4> QED
          BY <4>5 DEF M, b
      <3>9. r.NamespaceSummaries <= AnsweredBy(u, {"GetNamespaceSummary"})
        <4> DEFINE M == {"GetNamespaceSummary"}
                   k == IF m \in M THEN 1 ELSE 0
                   a == AnsweredBy(t, M)
                   b == AnsweredBy(u, M)
        <4>1. r.NamespaceSummaries <= old.NamespaceSummaries + k
          BY <3>1 DEF Counted
        <4>2. b = a + k /\ a \in Nat
          BY <1>3, <3>2, Zenon
        <4>3. old.NamespaceSummaries <= a /\ old.NamespaceSummaries \in Nat /\ r.NamespaceSummaries \in Nat
          BY <2>0, <3>4
        <4>4. k \in Nat
          OBVIOUS
        <4> HIDE DEF M, k, a, b
        <4>5. r.NamespaceSummaries <= b
          BY <4>1, <4>2, <4>3, <4>4
        <4> QED
          BY <4>5 DEF M, b
      <3> QED
        BY <1>1, <2>1, <3>5, <3>6, <3>7, <3>8, <3>9 DEF Accounted
    <2> QED
      BY <2>2, <2>3
  <1>6. OneAgent(u, conn)
    BY <1>0, <1>1, <1>4, ZenonT(30) DEF OneAgent, OneMore
  <1>7. Progress(u)
    BY <1>0, <1>1, <1>5 DEF Progress
  <1> QED
    BY <1>1, <1>6, <1>7 DEF TaskInv, u

\* A step of one request leaves the others alone.
LEMMA OneTask ==
    ASSUME task \in [Queries -> Task], \A p \in Queries : TaskInv(task[p], held[p]),
           NEW q \in Queries, NEW u, task' = [task EXCEPT ![q] = u], TaskInv(u, held'[q]),
           \A p \in Queries \ {q} : held'[p] = held[p]
    PROVE  /\ task' \in [Queries -> Task]
           /\ \A p \in Queries : TaskInv(task'[p], held'[p])
  <1>1. u \in Task
    BY DEF TaskInv
  <1>2. \A p \in Queries : task'[p] = IF p = q THEN u ELSE task[p]
    OBVIOUS
  <1> QED
    BY <1>1, <1>2

-----------------------------------------------------------------------------
\* A request that is refused before its first call.
LEMMA RefusedInv ==
    ASSUME NEW t \in Task, NotStarted(t), NEW conn, NEW s \in Nat \ {200, 207}
    PROVE  TaskInv(replied(t, s), conn)
  <1> DEFINE u == replied(t, s)
  <1>1. /\ u \in Task /\ u.stage = "replied" /\ u.status = s /\ u.calls = t.calls
    BY DEF replied, Task
  <1>2. u.calls = <<>> /\ Answered(u) = {}
    BY <1>1 DEF NotStarted, Answered
  <1> HIDE DEF u
  <1>3. Progress(u) /\ OneAgent(u, conn)
    BY <1>1, <1>2 DEF Progress, OneAgent
  <1> QED
    BY <1>1, <1>3 DEF TaskInv, u

\* A request whose query is planned, or refused.
LEMMA PlannedInv ==
    ASSUME NEW t \in Task, NotStarted(t), NEW conn, NEW query,
           query.Namespace \in STRING, query.ObjectKind \in STRING,
           query.ObjectName \in STRING, query.Reason \in STRING,
           query.Since \in Nat, query.Limit \in Int
    PROVE  TaskInv(planned(t, query), conn)
  <1>1. CASE Plan(query) = <<>>
    <2>1. planned(t, query) = replied(t, 400)
      BY <1>1 DEF planned
    <2>2. 400 \in Nat \ {200, 207}
      OBVIOUS
    <2> QED
      BY <2>1, <2>2, RefusedInv
  <1>2. CASE Plan(query) # <<>>
    <2> DEFINE p == Plan(query)
               u == [t EXCEPT !.stage = "planned", !.plan = p]
    <2>1. p \in Seq(Step) /\ Runnable(p)
      BY <1>2, PlanTyped DEF Runnable
    <2>2. planned(t, query) = u
      BY <1>2 DEF planned
    <2> HIDE DEF p
    <2>3. /\ u \in Task /\ u.stage = "planned" /\ u.plan = p
          /\ u.calls = t.calls /\ u.next = t.next /\ u.result = t.result
      BY <2>1 DEF Task
    <2> HIDE DEF u
    <2>4. NotStarted(u) /\ Answered(u) = {}
      BY <2>3 DEF NotStarted, Answered
    <2>5. Progress(u) /\ OneAgent(u, conn)
      BY <2>1, <2>3, <2>4 DEF Progress, OneAgent
    <2> QED
      BY <2>2, <2>3, <2>5 DEF TaskInv
  <1> QED
    BY <1>1, <1>2

\* An idle slot.
LEMMA IdleInv ==
    ASSUME NEW conn
    PROVE  TaskInv(idle, conn) /\ NotStarted(idle)
  <1>1. noResult \in Result
    BY DEF noResult, Result
  <1>2. idle \in Task
    <2>1. 0 \in Nat /\ 1 \in Nat \ {0} /\ <<>> \in Seq(Step) /\ <<>> \in Seq(Endpoints \cup {None})
      OBVIOUS
    <2> DEFINE noPlan == <<>>
               noCalls == <<>>
               one == 1
               zero == 0
    <2>2. /\ noPlan \in Seq(Step) /\ noCalls \in Seq(Endpoints \cup {None})
          /\ one \in Nat \ {0} /\ zero \in Nat
      BY <2>1
    <2>3. idle = [stage |-> "idle", ask |-> FALSE, mode |-> "technical", cluster |-> "",
                  hint |-> "", plan |-> noPlan, next |-> one, result |-> noResult,
                  calls |-> noCalls, status |-> zero, answer |-> ""]
      BY DEF idle
    <2> HIDE DEF noPlan, noCalls, one, zero
    <2> QED
      BY <1>1, <2>2, <2>3, Blank DEF Task, Result
  <1>3. NotStarted(idle) /\ Answered(idle) = {} /\ idle.stage = "idle"
    BY DEF NotStarted, idle, Answered
  <1>4. Progress(idle) /\ OneAgent(idle, conn)
    BY <1>3 DEF Progress, OneAgent
  <1> QED
    BY <1>2, <1>3, <1>4 DEF TaskInv

\* A body becomes a request that has not started, of POST /query or POST /ask.
LEMMA StartTyped ==
    ASSUME NEW m, NEW c \in STRING, NEW h \in STRING
    PROVE  LET query == [idle EXCEPT !.mode = parseMode(m), !.cluster = c]
               ask == [idle EXCEPT !.ask = TRUE, !.mode = parseMode(m), !.cluster = c,
                                   !.hint = h]
           IN query \in Task /\ NotStarted(query) /\ ask \in Task /\ NotStarted(ask)
  <1>1. idle \in Task /\ NotStarted(idle)
    BY IdleInv DEF TaskInv
  <1> DEFINE mode == parseMode(m)
             query == [idle EXCEPT !.mode = mode, !.cluster = c]
             ask == [idle EXCEPT !.ask = TRUE, !.mode = mode, !.cluster = c, !.hint = h]
  <1>2. mode \in {"technical", "concise", "incident-summary"}
    BY DEF parseMode
  <1> HIDE DEF mode
  <1>3. query \in Task /\ ask \in Task
    BY <1>1, <1>2 DEF Task
  <1>4. NotStarted(query) /\ NotStarted(ask)
    <2>1. /\ query.next = idle.next /\ query.calls = idle.calls /\ query.result = idle.result
          /\ ask.next = idle.next /\ ask.calls = idle.calls /\ ask.result = idle.result
      BY <1>1 DEF Task
    <2> QED
      BY <1>1, <2>1 DEF NotStarted
  <1> QED
    BY <1>3, <1>4 DEF mode

\* The requests in flight, each with its client.
TasksInv == task \in [Queries -> Task] /\ \A p \in Queries : TaskInv(task[p], held[p])

\* A request of POST /query is planned or refused.
LEMMA AcceptQueryInv ==
    ASSUME GInv, NEW q \in Queries, NEW r \in QueryRequests, AcceptQuery(q, r)
    PROVE  TasksInv'
  <1>1. r \in [ClusterName : STRING, Namespace : STRING, ObjectKind : STRING,
               ObjectName : STRING, Reason : STRING, Since : Nat, Limit : Int,
               Intent : STRING, Mode : STRING]
    BY RequestAssumption
  <1> DEFINE t == [idle EXCEPT !.mode = parseMode(r.Mode), !.cluster = r.ClusterName]
             query == [r EXCEPT !.Intent = parseIntent(r.Intent)]
  <1>2. t \in Task /\ NotStarted(t)
    <2>1. r.ClusterName \in STRING
      BY <1>1
    <2> QED
      BY <2>1, StartTyped
  <1>3. /\ query.Namespace \in STRING /\ query.ObjectKind \in STRING
        /\ query.ObjectName \in STRING /\ query.Reason \in STRING
        /\ query.Since \in Nat /\ query.Limit \in Int
    BY <1>1
  <1>4. task' = [task EXCEPT ![q] = planned(t, query)] /\ held' = held
    BY DEF AcceptQuery, vars
  <1> HIDE DEF t, query
  <1>5. TaskInv(planned(t, query), held'[q])
    BY <1>2, <1>3, PlannedInv
  <1> QED
    BY <1>4, <1>5, OneTask DEF GInv, TasksInv

\* A request of POST /ask waits for the LLM or is refused.
LEMMA AcceptAskInv ==
    ASSUME GInv, NEW q \in Queries, NEW r \in AskRequests, AcceptAsk(q, r)
    PROVE  TasksInv'
  <1>1. r \in [ClusterName : STRING, Question : STRING, Namespace : STRING, Mode : STRING]
    BY RequestAssumption
  <1> DEFINE t == [idle EXCEPT !.ask = TRUE, !.mode = parseMode(r.Mode),
                               !.cluster = r.ClusterName, !.hint = r.Namespace]
             asked == [t EXCEPT !.stage = "asked"]
             next == CASE ~LLMEnabled -> replied(t, 503)
                       [] LLMEnabled /\ (r.ClusterName = "" \/ r.Question = "") -> replied(t, 400)
                       [] OTHER -> asked
  <1>2. t \in Task /\ NotStarted(t)
    <2>1. r.ClusterName \in STRING /\ r.Namespace \in STRING
      BY <1>1
    <2> QED
      BY <2>1, StartTyped
  <1>3. task' = [task EXCEPT ![q] = next] /\ held' = held
    BY DEF AcceptAsk, vars
  <1> HIDE DEF t
  <1>4. TaskInv(replied(t, 503), held'[q]) /\ TaskInv(replied(t, 400), held'[q])
    <2>1. 503 \in Nat \ {200, 207} /\ 400 \in Nat \ {200, 207}
      OBVIOUS
    <2> QED
      BY <1>2, <2>1, RefusedInv
  <1>5. TaskInv(asked, held'[q])
    <2>1. /\ asked \in Task /\ asked.stage = "asked" /\ asked.next = t.next
          /\ asked.calls = t.calls /\ asked.result = t.result
      BY <1>2 DEF Task
    <2> HIDE DEF asked
    <2>2. NotStarted(asked) /\ Answered(asked) = {}
      BY <1>2, <2>1 DEF NotStarted, Answered
    <2>3. Progress(asked) /\ OneAgent(asked, held'[q])
      BY <2>1, <2>2 DEF Progress, OneAgent
    <2> QED
      BY <2>1, <2>3 DEF TaskInv
  <1> HIDE DEF asked
  <1>6. next \in {replied(t, 503), replied(t, 400), asked}
    BY LLMAssumption
  <1>7. TaskInv(next, held'[q])
    BY <1>4, <1>5, <1>6, ZenonT(30)
  <1> HIDE DEF next
  <1> QED
    BY <1>3, <1>7, OneTask DEF GInv, TasksInv

\* The extraction of the intent fails ...
LEMMA ChatFailsInv ==
    ASSUME GInv, NEW q \in Queries, ChatFails(q)
    PROVE  TasksInv'
  <1>1. task[q] \in Task /\ NotStarted(task[q])
    BY DEF GInv, TaskInv, Progress, ChatFails
  <1>2. task' = [task EXCEPT ![q] = replied(task[q], 502)] /\ held' = held
    BY DEF ChatFails, vars
  <1>3. 502 \in Nat \ {200, 207}
    OBVIOUS
  <1>4. TaskInv(replied(task[q], 502), held'[q])
    BY <1>1, <1>3, RefusedInv
  <1> QED
    BY <1>2, <1>4, OneTask DEF GInv, TasksInv

\* ... or yields a query, which is planned or refused.
LEMMA ExtractIntentInv ==
    ASSUME GInv, NEW q \in Queries, ExtractIntent(q)
    PROVE  TasksInv'
  <1>1. task[q] \in Task /\ NotStarted(task[q])
    BY DEF GInv, TaskInv, Progress, ExtractIntent
  <1>2. task[q].cluster \in STRING /\ task[q].hint \in STRING
    BY <1>1, TaskFields
  <1>3. PICK query \in {fallbackQuery(task[q])} \cup {parseIntentJSON(p, task[q]) : p \in Payloads} :
          task' = [task EXCEPT ![q] = planned(task[q], query)]
    BY DEF ExtractIntent
  <1>4. held' = held
    BY DEF ExtractIntent, vars
  <1>5. /\ query.Namespace \in STRING /\ query.ObjectKind \in STRING
        /\ query.ObjectName \in STRING /\ query.Reason \in STRING
        /\ query.Since \in Nat /\ query.Limit \in Int
    <2>1. CASE query = fallbackQuery(task[q])
      BY <1>2, <2>1, Blank DEF fallbackQuery
    <2>2. ASSUME NEW p \in Payloads, query = parseIntentJSON(p, task[q])
          PROVE  /\ query.Namespace \in STRING /\ query.ObjectKind \in STRING
                 /\ query.ObjectName \in STRING /\ query.Reason \in STRING
                 /\ query.Since \in Nat /\ query.Limit \in Int
      <3>1. /\ p.Namespace \in STRING /\ p.ObjectKind \in STRING /\ p.ObjectName \in STRING
            /\ p.Reason \in STRING /\ p.Since \in Nat
        BY RequestAssumption
      <3> QED
        BY <1>2, <2>2, <3>1, Blank DEF parseIntentJSON
    <2> QED
      BY <1>3, <2>1, <2>2
  <1>6. TaskInv(planned(task[q], query), held'[q])
    BY <1>1, <1>5, PlannedInv
  <1> QED
    BY <1>3, <1>4, <1>6, OneTask DEF GInv, TasksInv

-----------------------------------------------------------------------------
\* A client is a connection; whatever is registered is a cluster.
LEMMA ClientTaken ==
    ASSUME IInv, NEW q \in Queries, NEW c, ReuseClient(q, c) \/ DialClient(q, c)
    PROVE  /\ c \in Clusters
           /\ held'[q] \in Connection /\ held'[q] # None
           /\ \A p \in Queries \ {q} : held'[p] = held[p]
  <1>0. TypeOK /\ None \notin Connection
    BY NoneAssumption DEF IInv
  <1>1. CASE ReuseClient(q, c)
    <2>1. c \in DOMAIN conns /\ held' = [held EXCEPT ![q] = conns[c]]
      BY <1>1 DEF ReuseClient
    <2> QED
      BY <1>0, <2>1 DEF TypeOK
  <1>2. CASE DialClient(q, c)
    <2> DEFINE conn == [id |-> dialled, cluster |-> c, endpoint |-> entries[c]]
    <2>1. c \in DOMAIN entries /\ held' = [held EXCEPT ![q] = conn]
      BY <1>2 DEF DialClient
    <2>2. PICK D \in SUBSET Clusters : entries \in [D -> Endpoints]
      BY <1>0 DEF TypeOK, Registrations
    <2>3. conn \in Connection /\ c \in Clusters
      BY <1>0, <2>1, <2>2 DEF TypeOK, Connection
    <2> HIDE DEF conn
    <2> QED
      BY <1>0, <2>1, <2>3 DEF TypeOK
  <1> QED
    BY <1>1, <1>2

\* A request takes its client and starts to run.
LEMMA TakeClientInv ==
    ASSUME GInv, NEW q \in Queries, TakeClient(q)
    PROVE  TasksInv'
  <1> DEFINE t == task[q]
             u == [t EXCEPT !.stage = "running"]
  <1>1. t \in Task /\ t.stage = "planned" /\ NotStarted(t) /\ Runnable(t.plan)
    BY DEF GInv, TaskInv, Progress, TakeClient
  <1>2. held'[q] # None /\ \A p \in Queries \ {q} : held'[p] = held[p]
    BY ClientTaken DEF GInv, TakeClient
  <1>3. task' = [task EXCEPT ![q] = u]
    BY DEF TakeClient, GInv
  <1> HIDE DEF t
  <1>4. /\ u \in Task /\ u.stage = "running" /\ u.plan = t.plan /\ u.next = t.next
        /\ u.calls = t.calls /\ u.result = t.result
    BY <1>1 DEF Task
  <1> HIDE DEF u
  <1>5. NotStarted(u) /\ Runnable(u.plan)
    BY <1>1, <1>4 DEF NotStarted
  <1>6. Accounted(u) /\ Answered(u) = {}
    BY <1>4, <1>5, NotStartedAccounted
  <1>7. Progress(u) /\ OneAgent(u, held'[q])
    BY <1>2, <1>4, <1>5, <1>6 DEF Progress, OneAgent
  <1>8. TaskInv(u, held'[q])
    BY <1>4, <1>7 DEF TaskInv
  <1> QED
    BY <1>2, <1>3, <1>8, OneTask DEF GInv, TasksInv

\* There is no client for it.
LEMMA NoClientInv ==
    ASSUME GInv, NEW q \in Queries, NoClient(q)
    PROVE  TasksInv'
  <1>1. task[q] \in Task /\ NotStarted(task[q])
    BY DEF GInv, TaskInv, Progress, NoClient
  <1>2. task' = [task EXCEPT ![q] = replied(task[q], 502)] /\ held' = held
    BY DEF NoClient, vars
  <1>3. 502 \in Nat \ {200, 207}
    OBVIOUS
  <1>4. TaskInv(replied(task[q], 502), held'[q])
    BY <1>1, <1>3, RefusedInv
  <1> QED
    BY <1>2, <1>4, OneTask DEF GInv, TasksInv

\* A call is answered by the agent the client leads to ...
LEMMA CallSucceedsInv ==
    ASSUME GInv, NEW q \in Queries, CallSucceeds(q)
    PROVE  TasksInv'
  <1> DEFINE t == task[q]
             conn == held[q]
  <1>1. TaskInv(t, conn) /\ t \in Task /\ t.stage = "running" /\ t.next <= Len(t.plan)
    BY DEF GInv, TaskInv, CallSucceeds
  <1>2. PICK x \in reachable(q), n \in {0, 1} :
          task' = [task EXCEPT ![q] = [collected(t, n) EXCEPT !.calls = Append(t.calls, x)]]
    BY DEF CallSucceeds
  <1>3. held' = held
    BY DEF CallSucceeds, vars
  <1>4. x \in Endpoints /\ x = conn.endpoint /\ x # None
    <2>1. conn \in open /\ x = conn.endpoint
      BY <1>2 DEF reachable
    <2>2. conn \in Connection
      BY <2>1 DEF GInv, IInv, TypeOK
    <2> QED
      BY <2>1, <2>2, EndpointAssumption DEF Connection
  <1> HIDE DEF t, conn
  <1>5. PICK r \in Result :
          /\ [collected(t, n) EXCEPT !.calls = Append(t.calls, x)] = called(t, r, x)
          /\ Counted(t.result, r, t.plan[t.next].Method)
    BY <1>1, <1>4, AnsweredCall
  <1>6. TaskInv(called(t, r, x), conn)
    BY <1>1, <1>4, <1>5, CallKeepsInv
  <1>7. task' = [task EXCEPT ![q] = called(t, r, x)] /\ conn = held'[q]
    BY <1>2, <1>3, <1>5 DEF conn
  <1> QED
    BY <1>3, <1>6, <1>7, OneTask DEF GInv, TasksInv

\* ... or fails.
LEMMA CallFailsInv ==
    ASSUME GInv, NEW q \in Queries, CallFails(q)
    PROVE  TasksInv'
  <1> DEFINE t == task[q]
             conn == held[q]
             r == [t.result EXCEPT !.StepErrors = t.result.StepErrors + 1]
  <1>1. TaskInv(t, conn) /\ t \in Task /\ t.stage = "running" /\ t.next <= Len(t.plan)
    BY DEF GInv, TaskInv, CallFails
  <1>2. task' = [task EXCEPT ![q] = [afterFailure(t) EXCEPT !.calls = Append(t.calls, None)]]
    BY DEF CallFails
  <1>3. held' = held
    BY DEF CallFails, vars
  <1> HIDE DEF t, conn
  <1>4. /\ [afterFailure(t) EXCEPT !.calls = Append(t.calls, None)] = called(t, r, None)
        /\ r \in Result
        /\ r.StepErrors = t.result.StepErrors + 1 /\ r.Events = t.result.Events
        /\ r.Chains = t.result.Chains /\ r.Snapshots = t.result.Snapshots
        /\ r.NamespaceSummaries = t.result.NamespaceSummaries
    BY <1>1, FailedCall
  <1> HIDE DEF r
  <1>5. TaskInv(called(t, r, None), conn)
    BY <1>1, <1>4, CallKeepsInv
  <1>6. task' = [task EXCEPT ![q] = called(t, r, None)] /\ conn = held'[q]
    BY <1>2, <1>3, <1>4 DEF conn
  <1> QED
    BY <1>3, <1>5, <1>6, OneTask DEF GInv, TasksInv

\* A request that gets as far as its calls is answered with 200 or 207.
LEMMA ReplyStatusCases ==
    ASSUME NEW r
    PROVE  replyStatus(r) \in {200, 207} /\ replyStatus(r) \in Nat
  BY DEF replyStatus

Answers == {"", "by rule", "text"}

\* A request that is answered keeps what was called and collected.
LEMMA RepliedInv ==
    ASSUME NEW t \in Task, Complete(t), NEW conn, NEW a \in Answers,
           \A i, j \in Answered(t) : t.calls[i] = t.calls[j]
    PROVE  /\ TaskInv(replied(t, replyStatus(t.result)), conn)
           /\ TaskInv([replied(t, replyStatus(t.result)) EXCEPT !.answer = a], conn)
  <1> DEFINE s == replyStatus(t.result)
  <1>1. s \in {200, 207} /\ s \in Nat
    BY ReplyStatusCases
  <1>2. ASSUME NEW u, u \in Task, u.stage = "replied", u.status = s, u.plan = t.plan,
               u.calls = t.calls, u.next = t.next, u.result = t.result
        PROVE  TaskInv(u, conn)
    <2> HIDE DEF s
    <2>1. Answered(u) = Answered(t) /\ \A M : AnsweredBy(u, M) = AnsweredBy(t, M)
      BY <1>2 DEF Answered, AnsweredBy, ByMethod
    <2>2. Complete(u)
      BY <1>2, <2>1 DEF Complete, Accounted
    <2>3. Progress(u)
      <3>1. u.status = replyStatus(u.result)
        BY <1>2 DEF s
      <3> QED
        BY <1>2, <2>2, <3>1, <1>1 DEF Progress
    <2>4. OneAgent(u, conn)
      BY <1>2, <2>1 DEF OneAgent
    <2> QED
      BY <1>2, <2>3, <2>4 DEF TaskInv
  <1>3. TaskInv(replied(t, s), conn)
    <2> HIDE DEF s
    <2> DEFINE u == replied(t, s)
    <2>1. /\ u \in Task /\ u.stage = "replied" /\ u.status = s /\ u.plan = t.plan
          /\ u.calls = t.calls /\ u.next = t.next /\ u.result = t.result
      BY <1>1 DEF replied, Task
    <2> QED
      BY <1>2, <2>1
  <1>4. TaskInv([replied(t, s) EXCEPT !.answer = a], conn)
    <2> HIDE DEF s
    <2> DEFINE u == [replied(t, s) EXCEPT !.answer = a]
    <2>1. /\ u \in Task /\ u.stage = "replied" /\ u.status = s /\ u.plan = t.plan
          /\ u.calls = t.calls /\ u.next = t.next /\ u.result = t.result
      BY <1>1 DEF replied, Task, Answers
    <2> QED
      BY <1>2, <2>1
  <1> QED
    BY <1>3, <1>4

\* The last call has returned: the client is given back.
LEMMA FinishInv ==
    ASSUME GInv, NEW q \in Queries, Finish(q)
    PROVE  TasksInv'
  <1> DEFINE t == task[q]
             narrating == [t EXCEPT !.stage = "narrating"]
             reply == replied(t, replyStatus(t.result))
             u == IF t.ask THEN narrating ELSE reply
  <1>1. /\ t \in Task /\ t.stage = "running" /\ Accounted(t) /\ Runnable(t.plan)
        /\ \A i, j \in Answered(t) : t.calls[i] = t.calls[j]
    BY DEF GInv, TaskInv, Progress, OneAgent, Finish
  <1>2. Complete(t)
    <2>1. t.next > Len(t.plan) /\ t.next <= Len(t.plan) + 1
      BY <1>1 DEF Finish, Accounted
    <2>2. t.next \in Nat /\ Len(t.plan) \in Nat
      BY <1>1, TaskFields
    <2> QED
      BY <1>1, <2>1, <2>2 DEF Complete
  <1>3. task' = [task EXCEPT ![q] = u]
    BY DEF Finish
  <1>4. \A p \in Queries \ {q} : held'[p] = held[p]
    BY DEF Finish, FinishQuery, GInv, IInv, TypeOK
  <1> HIDE DEF t
  <1>5. TaskInv(reply, held'[q])
    <2>1. "" \in Answers
      BY DEF Answers
    <2> QED
      BY <1>1, <1>2, <2>1, RepliedInv
  <1>6. TaskInv(narrating, held'[q])
    <2>1. /\ narrating \in Task /\ narrating.stage = "narrating" /\ narrating.plan = t.plan
          /\ narrating.calls = t.calls /\ narrating.next = t.next /\ narrating.result = t.result
      BY <1>1 DEF Task
    <2> HIDE DEF narrating
    <2>2. /\ Answered(narrating) = Answered(t)
          /\ \A M : AnsweredBy(narrating, M) = AnsweredBy(t, M)
      BY <2>1 DEF Answered, AnsweredBy, ByMethod
    <2>3. Complete(narrating)
      BY <1>2, <2>1, <2>2 DEF Complete, Accounted
    <2>4. Progress(narrating) /\ OneAgent(narrating, held'[q])
      BY <1>1, <2>1, <2>2, <2>3 DEF Progress, OneAgent
    <2> QED
      BY <2>1, <2>4 DEF TaskInv
  <1> HIDE DEF narrating, reply
  <1>7. TaskInv(u, held'[q])
    BY <1>5, <1>6
  <1> HIDE DEF u
  <1> QED
    BY <1>3, <1>4, <1>7, OneTask DEF GInv, TasksInv

\* The LLM has written the answer, or the summary takes its place.
LEMMA NarrateInv ==
    ASSUME GInv, NEW q \in Queries, Narrate(q)
    PROVE  TasksInv'
  <1> DEFINE t == task[q]
  <1>1. /\ t \in Task /\ Complete(t) /\ \A i, j \in Answered(t) : t.calls[i] = t.calls[j]
    BY DEF GInv, TaskInv, Progress, OneAgent, Narrate
  <1>2. PICK x \in Exchanges :
          task' = [task EXCEPT ![q] = [replied(t, replyStatus(t.result)) EXCEPT
                                         !.answer = narrative(x, t.mode)]]
    BY DEF Narrate
  <1>3. held' = held
    BY DEF Narrate, vars
  <1> DEFINE a == narrative(x, t.mode)
             u == [replied(t, replyStatus(t.result)) EXCEPT !.answer = a]
  <1>4. a \in Answers
    <2>1. x.body \in {"not JSON", "", "text"}
      BY DEF Exchanges
    <2>2. post(x) \in {Error, "not JSON", "", "text"}
      BY <2>1 DEF post
    <2>3. Summarize(x) \in {Error, "", "text"}
      BY <2>2 DEF Summarize, decode
    <2>4. Summary(t.mode) \in {"", "by rule"}
      BY DEF Summary
    <2> QED
      BY <2>3, <2>4 DEF narrative, Answers
  <1>5. task' = [task EXCEPT ![q] = u]
    BY <1>2
  <1> HIDE DEF t, a
  <1>6. TaskInv(u, held'[q])
    BY <1>1, <1>4, RepliedInv
  <1> HIDE DEF u
  <1> QED
    BY <1>3, <1>5, <1>6, OneTask DEF GInv, TasksInv

-----------------------------------------------------------------------------
\* Every step of the gateway is one of the registry, or leaves it alone.
LEMMA StepsRegistry ==
    ASSUME GInv, [GatewayNext]_gatewayVars
    PROVE  [Next]_vars
  <1>1. ASSUME NEW q \in Queries, RequestStep(q) PROVE [Next]_vars
    <2>1. CASE TakeClient(q)
      <3>1. task[q].cluster \in Clusters
        BY <2>1, ClientTaken DEF GInv, TakeClient
      <3> QED
        BY <2>1, <3>1 DEF TakeClient, Next
    <2>2. CASE Finish(q)
      BY <2>2 DEF Finish, Next
    <2>3. CASE ~TakeClient(q) /\ ~Finish(q)
      BY <1>1, <2>3 DEF RequestStep, AcceptQuery, AcceptAsk, ChatFails, ExtractIntent, NoClient,
                        CallSucceeds, CallFails, Narrate
    <2> QED
      BY <2>1, <2>2, <2>3
  <1>2. CASE RegistryRequest
    BY <1>2 DEF RegistryRequest, Next
  <1>3. CASE LockStep
    BY <1>3 DEF LockStep, Next
  <1>4. CASE Shutdown
    BY <1>4 DEF Shutdown
  <1>5. CASE GatewayCrash
    BY <1>5 DEF GatewayCrash, Next
  <1>6. CASE GatewayRestart
    BY <1>6 DEF GatewayRestart, Next
  <1>7. CASE UNCHANGED gatewayVars
    BY <1>7 DEF gatewayVars
  <1> QED
    BY <1>1, <1>2, <1>3, <1>4, <1>5, <1>6, <1>7 DEF GatewayNext, Exit

\* Nothing is in flight at the start.
LEMMA GatewayInitInv == GatewayInit => GInv
  <1> SUFFICES ASSUME GatewayInit PROVE GInv
    OBVIOUS
  <1>1. IInv
    BY InitInv DEF GatewayInit
  <1>2. task = [q \in Queries |-> idle] /\ draining \in BOOLEAN
    BY DEF GatewayInit
  <1>3. idle \in Task /\ \A q \in Queries : TaskInv(idle, held[q])
    BY IdleInv DEF TaskInv
  <1> QED
    BY <1>1, <1>2, <1>3 DEF GInv

\* Every step of a request and of the coordinator keeps the invariant.
LEMMA GatewayNextInv == GInv /\ [GatewayNext]_gatewayVars => GInv'
  <1> SUFFICES ASSUME GInv, [GatewayNext]_gatewayVars PROVE GInv'
    OBVIOUS
  <1>1. IInv'
    BY StepsRegistry, NextInv DEF GInv
  <1>2. SUFFICES draining' \in BOOLEAN /\ TasksInv'
    BY <1>1 DEF GInv, TasksInv
  <1>3. ASSUME NEW q \in Queries, RequestStep(q)
        PROVE  draining' \in BOOLEAN /\ TasksInv'
    <2>1. draining' = draining
      BY <1>3 DEF RequestStep, AcceptQuery, AcceptAsk, ChatFails, ExtractIntent, TakeClient,
                  NoClient, CallSucceeds, CallFails, Finish, Narrate
    <2>2. TasksInv'
      BY <1>3, AcceptQueryInv, AcceptAskInv, ChatFailsInv, ExtractIntentInv, TakeClientInv,
         NoClientInv, CallSucceedsInv, CallFailsInv, FinishInv, NarrateInv DEF RequestStep
    <2> QED
      BY <2>1, <2>2 DEF GInv
  <1>4. CASE RegistryRequest \/ LockStep \/ Shutdown \/ GatewayRestart \/ UNCHANGED gatewayVars
    <2>1. task' = task /\ held' = held
      BY <1>4 DEF RegistryRequest, LockStep, Shutdown, GatewayRestart, gatewayVars, vars,
                  Register, Unregister, HolderStep, WriteTemp, RenameTemp, SaveFails, Answer,
                  Restart
    <2>2. draining' \in BOOLEAN
      BY <1>4 DEF GInv, RegistryRequest, LockStep, Shutdown, GatewayRestart, gatewayVars
    <2> QED
      BY <2>1, <2>2 DEF GInv, TasksInv
  <1>5. CASE GatewayCrash
    <2>1. task' = [q \in Queries |-> idle] /\ draining' \in BOOLEAN
      BY <1>5 DEF GatewayCrash
    <2>2. idle \in Task /\ \A q \in Queries : TaskInv(idle, held'[q])
      BY IdleInv DEF TaskInv
    <2> QED
      BY <2>1, <2>2 DEF TasksInv
  <1> QED
    BY <1>3, <1>4, <1>5 DEF GatewayNext, Exit

\* The invariant holds in every reachable state of the gateway.
LEMMA GatewayInvariance == GatewaySpec => []GInv
  BY GatewayInitInv, GatewayNextInv, PTL DEF GatewaySpec

-----------------------------------------------------------------------------
\* Whatever a body or the LLM says, a request is planned into calls an agent
\* has and answered in a mode Build knows.
THEOREM GatewayTypeCorrect == GatewaySpec => []GatewayTypeOK
  <1>1. GInv => GatewayTypeOK
    BY DEF GInv, GatewayTypeOK
  <1> QED
    BY <1>1, GatewayInvariance, PTL

\* Every call of a plan is made once and accounted for in the reply, whatever
\* fails, for plans of any length and any number of concurrent requests.
THEOREM AccountingCorrect == GatewaySpec => []StepsAccounted
  <1>1. GInv => StepsAccounted
    <2> SUFFICES ASSUME GInv, NEW q \in Queries, done(q)
                 PROVE  LET t == task[q]
                            answered(methods) == Cardinality(ByMethod(t, methods) \cap Answered(t))
                        IN /\ Len(t.calls) = Len(t.plan)
                           /\ t.result.StepErrors = Len(t.plan) - Cardinality(Answered(t))
                           /\ t.result.Chains = answered({"ResolveOwnerChain"})
                           /\ t.result.Events <= answered({"ListEvents", "GetEventsForObject"})
                           /\ t.result.Snapshots <= answered({"GetObjectSnapshot"})
                           /\ t.result.NamespaceSummaries <= answered({"GetNamespaceSummary"})
      BY DEF StepsAccounted
    <2>1. task[q] \in Task /\ Complete(task[q])
      BY DEF GInv, TaskInv, Progress, done
    <2>2. Len(task[q].calls) = Len(task[q].plan)
      <3>1. Len(task[q].plan) \in Nat
        BY <2>1, TaskFields
      <3> QED
        BY <2>1, <3>1 DEF Complete, Accounted
    <2> QED
      BY <2>1, <2>2 DEF Complete, Accounted, AnsweredBy
  <1> QED
    BY <1>1, GatewayInvariance, PTL

\* One reply never mixes the data of two agents, however often its cluster is
\* registered anew while it runs.
THEOREM OneAgentCorrect == GatewaySpec => []OneAgentPerReply
  <1>1. GInv => OneAgentPerReply
    BY DEF GInv, TaskInv, OneAgent, OneAgentPerReply
  <1> QED
    BY <1>1, GatewayInvariance, PTL

\* A request none of whose calls succeeded is answered with 207.
THEOREM FailureReported == GatewaySpec => []AllFailedReported
  <1>1. GInv => AllFailedReported
    <2> SUFFICES ASSUME GInv, NEW q \in Queries, done(q), Answered(task[q]) = {}
                 PROVE  task[q].status = 207 /\ task[q].result.StepErrors = Len(task[q].plan)
      BY DEF AllFailedReported
    <2> DEFINE t == task[q]
    <2>1. /\ t \in Task /\ Runnable(t.plan) /\ Accounted(t) /\ t.next = Len(t.plan) + 1
          /\ t.status = replyStatus(t.result)
      BY DEF GInv, TaskInv, Progress, done, Complete
    <2>2. Len(t.plan) \in Nat /\ Len(t.plan) # 0
      <3>1. t.plan \in Seq(Step) /\ t.plan # <<>>
        BY <2>1, TaskFields DEF Runnable
      <3> QED
        BY <3>1
    <2>3. t.result \in Result
      BY <2>1, TaskFields DEF Result
    <2> HIDE DEF t
    <2>4. Answered(t) = {} /\ Cardinality(Answered(t)) = 0 /\ \A M : AnsweredBy(t, M) = 0
      <3>1. Answered(t) = {}
        BY DEF t
      <3>2. \A M : ByMethod(t, M) \cap Answered(t) = {}
        BY <3>1
      <3> QED
        BY <3>1, <3>2, FS_EmptySet DEF AnsweredBy
    <2>5. /\ t.result.StepErrors = Len(t.plan)
          /\ t.result.Events <= 0 /\ t.result.Snapshots <= 0
      BY <2>1, <2>2, <2>4 DEF Accounted
    <2>6. t.result.Events = 0 /\ t.result.Snapshots = 0
      BY <2>3, <2>5 DEF Result
    <2>7. replyStatus(t.result) = 207
      BY <2>2, <2>5, <2>6 DEF replyStatus
    <2> QED
      BY <2>1, <2>5, <2>7 DEF t
  <1> QED
    BY <1>1, GatewayInvariance, PTL

\* With the requests of the gateway as its clients, the registry keeps its
\* promises: a request in flight never reaches an endpoint its cluster is not
\* registered with, and no connection leaks.
THEOREM GatewayCallsCorrect == GatewaySpec => [](CallsReachRegistered /\ OpenConnsCurrent)
  <1>1. GInv => CallsReachRegistered /\ OpenConnsCurrent
    BY DEF GInv, IInv, OpenConnsCurrent, CallsReachRegistered
  <1> QED
    BY <1>1, GatewayInvariance, PTL
=============================================================================
